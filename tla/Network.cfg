SPECIFICATION TwoSpec
CONSTANTS
  None = none
  MaxRetry = 2
  MaxChange = 5
  Modes <- AllModes
  Patient = TRUE
PROPERTIES StaysReachable ComesBack BrokerIsReached RouteIsAlive
CHECK_DEADLOCK FALSE
