SPECIFICATION Spec
CONSTANTS
  Caller = {c1}
  LogTask = {t1, t2}
  Other = other
  None = none
INVARIANT RowsHaveAFile
CHECK_DEADLOCK FALSE
