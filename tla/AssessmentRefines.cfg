SPECIFICATION FairSpec
CONSTANTS
  t1 = t1
  t2 = t2
  t3 = t3
  Txns = {t2, t3}
  Calls = {a, b}
  Policies = {p1, p2}
  Assessed = {t2, t3}
  Backfills = {"features"}
  None = None
  MinConcentration = 2
  Time <- MCTime
  Ref <- MCRef
INVARIANT AuditTrailComplete
PROPERTY ImplementsRecords
PROPERTY CallsEnd
CHECK_DEADLOCK FALSE
