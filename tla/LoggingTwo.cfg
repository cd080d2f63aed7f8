SPECIFICATION FairSpec
CONSTANTS
  Caller = {c1, c2}
  LogTask = {t1}
  Other = other
  None = none
PROPERTIES SessionEnds
CHECK_DEADLOCK FALSE
