SPECIFICATION Spec
CONSTANTS
  Key = {1, 2}
  MaxVersion = 2
  Row <- MCRow
  Content <- MCContent
  Malformed <- RepairedLater
  Ignorable = {}
  Limit = 1
  Worker = {w1}
  MaxCrash = 1
  Outside = {"mqtt", "edit", "manual"}
  None = none
INVARIANTS DoneIsImported NothingTwice CountsInserted
CHECK_DEADLOCK FALSE
