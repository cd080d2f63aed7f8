SPECIFICATION LogsSpec
CONSTANTS
  Caller = {c1}
  LogTask = {t1, t2}
  Other = other
  None = none
  NoPath = nopath
  Stamp = {s1, s2}
  MaxChange = 1
  MaxBoot = 1
INVARIANTS OneLogTask StoppedIsSilent
PROPERTIES SessionEnds QueuedInTurn
CHECK_DEADLOCK FALSE
