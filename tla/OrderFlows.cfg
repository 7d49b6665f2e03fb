SPECIFICATION Spec
CONSTANTS
  f1 = f1
  f2 = f2
  User = User
  None = None
  Empty = Empty
  NoCourier = NoCourier
  Flows <- MCFlows
  OrderIds <- MCOrderIds
  Couriers <- MCCouriers
  Keys <- MCFlows
  Tokens <- MCTokens
  Suites <- MCSuites
  ManualStatuses = {"complete"}
  UserRoles = {"client", "courier"}
  Workers = 2
  MaxLost = 1
  MaxManual = 1
CHECK_DEADLOCK FALSE
SYMMETRY MCSymmetry
INVARIANTS TypeOK HistoryIsTrue PassedMeansDone FailuresHaveACause ProfilesAreUsable
PROPERTIES FollowsProtocol
