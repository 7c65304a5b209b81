SPECIFICATION Spec
CONSTANTS
  Tx = {1, 2, 3, 4}
  Actions = {Allow, Hold}
  Initial <- MCInitial
  Entities = {d1, d2}
  Linked <- MCLinked
  PageSize = 2
  MaxPath = 2
  MaxEvents = 3
  Absent = Absent
  Pending = Pending
  None = None
  Failed = Failed
  Allow = Allow
  Hold = Hold
  d1 = d1
  d2 = d2
  Gone = Gone
  Sessions = {s1}
  Total = 2
  DemoTx <- MCDemoTx
  DemoAction = Hold
INVARIANTS TypeOK ScreenAgrees SelectionResolves QueueMatchesRequest
  ProgressIsServed
PROPERTIES PageSettles
CHECK_DEADLOCK FALSE
