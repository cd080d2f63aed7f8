SPECIFICATION TwoSpec
CONSTANTS
  Saver = {s1}
  Value = {0, 1}
  NvsFails = TRUE
  MaxCrash = 2
  None = none
  Torn = torn
  Refused = refused
  SsidMax = 32
  PasswordMin = 8
  PasswordMax = 64
  Huge = 100000
  MaxTemp = 2
INVARIANTS AnswerIsDurable WholeFiles FrontEndsAgree CredentialsTogether
PROPERTIES BootMovesForward RestartKeeps
