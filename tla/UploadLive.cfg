SPECIFICATION FairSpec
CONSTANTS
  DataName = {d1, d2}
  MeteoName = {m1}
  Row = {r1}
  Caller = {c1}
  Meteo = meteo
  None = none
  FreshNames = TRUE
  MaxCrash = 1
PROPERTIES QueuedIsArchived
