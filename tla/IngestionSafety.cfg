SPECIFICATION Spec
CONSTANTS
  e1 = e1
  e2 = e2
  e3 = e3
  Events = {e1, e2, e3}
  Requests = {r1, r2, r3}
  NoEvent = NoEvent
  EventTime <- MCEventTime
  Ref <- MCRef
INVARIANT TypeOK
INVARIANT GraphMatchesLedger
INVARIANT LedgerMatchesReceipts
INVARIANT ReferencesResolve
INVARIANT NoWaitCycle
INVARIANT RepliesAreTrue
INVARIANT StrandedReceiptsExplained
CHECK_DEADLOCK FALSE
