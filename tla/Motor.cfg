SPECIFICATION FairSpec
CONSTANTS
  Turn = 3
  MaxSteps = 3
  Attempts = 2
  Offset = 1
  LogSteps = 1
  Samples = 1
  Reach = 2
  Commands = 3
  Cycles = 1
INVARIANTS HomingIsDriven PositionIsShaft RowsInPlace
PROPERTIES MotionEnds
