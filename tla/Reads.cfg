SPECIFICATION Spec
CONSTANTS
  t1 = t1
  t2 = t2
  t3 = t3
  t4 = t4
  t5 = t5
  Txns = {t1, t2, t3, t4, t5}
  Subjects = {t4}
  MinConcentration = 3
  MaxTimelineItems = 2
  MaxPriorRows = 3
  MaxGraphNodes = 11
  MaxGraphEdges = 11
  MaxEntityNodes = 5
  MaxEntityEdges = 6
  MaxRecentTransactions = 2
  Depths = {1, 2}
  Time <- MCTime
  Ref <- MCRef
  Rank <- MCRank
  Visited <- MCVisited
  PathStarts <- MCPathStarts
INVARIANT HistoryViewsExplained
INVARIANT PagesAreHonest
INVARIANT PathsAreShortest
CHECK_DEADLOCK FALSE
