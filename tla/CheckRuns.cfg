SPECIFICATION FairSpec
CONSTANTS
  None = None
  Customs = {"smoke"}
  StepLists <- MCStepLists
  Suites <- MCSuites
  ChecksOf <- Catalogue
  Order <- AllSuites
  All = "all"
  CheckIds <- MCCheckIds
  Runs = {r1}
  MaxRestarts = 1
CHECK_DEADLOCK FALSE
INVARIANTS TypeOK VerdictMatchesChecks TotalsAddUp RunsOneVersion ScenariosAreStored
PROPERTIES AcceptedRunEnds
