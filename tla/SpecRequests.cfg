SPECIFICATION FairSpec
CONSTANTS
  a = a
  b = b
  k1 = k1
  k2 = k2
  k3 = k3
  None = None
  Docs <- MCDocs
  KeysOf <- MCKeysOf
  StepsOf <- MCStepsOf
  Generated <- MCGenerated
  Customs = {k1, k2, k3}
  UserSteps <- MCUserSteps
  StepLists <- MCStepLists
  Requests = {q1, q2}
  MaxEdits = 1
  MaxRestarts = 1
CHECK_DEADLOCK FALSE
INVARIANTS TypeOK LastReplacementIsComplete
PROPERTIES UndisturbedIsExact RequestEnds
