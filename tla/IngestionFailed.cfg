SPECIFICATION Spec
CONSTANTS
  e1 = e1
  e2 = e2
  e3 = e3
  Events = {e1, e2, e3}
  Requests = {r1}
  NoEvent = NoEvent
  EventTime <- MCEventTime
  Ref <- MCRef
INVARIANT FailedLeavesNothing
CHECK_DEADLOCK FALSE
