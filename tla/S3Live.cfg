SPECIFICATION FairSpec
CONSTANTS
  Key = {1, 2, 3}
  MaxVersion = 1
  Row <- MCRow
  Content <- MCContent
  Malformed <- NeverRepaired
  Ignorable = {3}
  Limit = 2
  Worker = {w1}
  MaxCrash = 1
  Outside = {}
  None = none
PROPERTIES SoundIsImported
CHECK_DEADLOCK FALSE
