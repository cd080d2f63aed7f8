SPECIFICATION FairSpec
CONSTANTS
  MaxRetry = 2
  MaxChange = 6
  Modes <- EthernetFirst
  Patient = TRUE
INVARIANTS TypeOK
PROPERTY BothActive
CHECK_DEADLOCK FALSE
