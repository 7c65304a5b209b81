SPECIFICATION Spec
CONSTANTS
  Sessions = {s1}
  Requests = {a, b}
  MaxSessions = 1
  Steps = 2
  Baseline = 1
  None = None
INVARIANT FailedStepRetriable
SYMMETRY Interchangeable
CHECK_DEADLOCK FALSE
