SPECIFICATION Spec
CONSTANTS
  Client = {http}
  CalTask = {t1}
  Channels = 3
  Samples = 4
  Ignored = 2
  Drops = TRUE
  None = none
INVARIANTS OffsetsFromLoad
