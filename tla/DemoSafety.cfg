SPECIFICATION FairSpec
CONSTANTS
  Sessions = {s1, s2}
  Requests = {a, b, c}
  MaxSessions = 1
  Steps = 2
  Baseline = 1
  None = None
INVARIANT TypeOK
INVARIANT ShowcaseInOrder
INVARIANT RepliesRepeat
INVARIANT MemoryMatchesDatabase
INVARIANT DuplicatesExplained
PROPERTY StepsAnswered
CHECK_DEADLOCK FALSE
