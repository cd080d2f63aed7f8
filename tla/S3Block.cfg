SPECIFICATION FairSpec
CONSTANTS
  Key = {1, 2}
  MaxVersion = 1
  Row <- MCRow
  Content <- MCContent
  Malformed <- NeverRepaired
  Ignorable = {}
  Limit = 1
  Worker = {w1}
  MaxCrash = 0
  Outside = {}
  None = none
PROPERTIES SoundIsImported
CHECK_DEADLOCK FALSE
