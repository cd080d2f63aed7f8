SPECIFICATION Spec
CONSTANTS
  DataName = {d1, d2}
  MeteoName = {m1, m2}
  Row = {r1}
  Caller = {c1, c2}
  Meteo = meteo
  None = none
  FreshNames = TRUE
  MaxCrash = 1
SYMMETRY Symmetric
INVARIANTS NoRowLost OpenLogInRoot ArchivedIsStored UploadIsStable ActiveMeteoNotSwept
PROPERTIES OnlyForward KeepsCustody
