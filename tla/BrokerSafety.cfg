SPECIFICATION Spec
CONSTANTS
  flow = flow
  solo = solo
  f1 = f1
  f2 = f2
  s1 = s1
  NoCode = NoCode
  Runs <- MCRuns
  Logins <- MCLogins
  RunOf <- MCRunOf
  Tabs = {t1}
  Overlaps <- MCOverlaps
  Parallel = 2
  MaxPosts = 2
  MaxLost = 1
  Rank <- MCRank
CHECK_DEADLOCK FALSE
INVARIANTS TypeOK BufferOnlyWhenNobodyWaits QueueIsExact ServedInArrivalOrder StrayCodeIsLate SequentialMockNeverWaits
PROPERTIES StartedLoginEnds EachPostCountsOnce
