SPECIFICATION Spec
CONSTANTS
  nightly = nightly
  manual = manual
  n1 = n1
  n2 = n2
  m1 = m1
  Requests <- MCRequests
  Runs <- MCRuns
  Batch <- MCBatch
  Grouped = {nightly}
  MaxStoredRuns = 2
  MaxRestarts = 1
CHECK_DEADLOCK FALSE
INVARIANTS TypeOK NoRunInBetween TrackerFollowsBatch ReportedOnce SavedRunsEndure DiskStaysCapped WriterKeepsItsTmp
PROPERTIES BatchIsDigested PersistEnds
