SPECIFICATION FairSpec
CONSTANTS
  e1 = e1
  e2 = e2
  e3 = e3
  Events = {e1, e2, e3}
  Requests = {r1, r2}
  NoEvent = NoEvent
  EventTime <- MCEventTime
  Ref <- MCRef
PROPERTY ImplementsStore
PROPERTY BegunCallsEnd
CHECK_DEADLOCK FALSE
