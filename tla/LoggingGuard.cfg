SPECIFICATION Spec
CONSTANTS
  Caller = {c1}
  LogTask = {t1, t2}
  Other = other
  None = none
INVARIANT GuardOwnerLives
CHECK_DEADLOCK FALSE
