SPECIFICATION Spec
CONSTANTS
  t1 = t1
  t2 = t2
  t3 = t3
  Txns = {t1, t2, t3}
  Calls = {a, b}
  Policies = {p1}
  Assessed = {t3}
  Backfills = {"graphs"}
  None = None
  MinConcentration = 2
  Time <- MCTime
  Ref <- MCRef
INVARIANT TypeOK
INVARIANT SnapshotsMatchOffline
 
INVARIANT EvidenceConsistent
INVARIANT PredictionNeverConflicts
INVARIANT AnswersAgree
SYMMETRY Interchangeable
CHECK_DEADLOCK FALSE
