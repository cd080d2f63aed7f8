SPECIFICATION SensingSpec
CONSTANTS
  Client = {http, mqtt}
  CalTask = {t1, t2}
  Channels = 2
  Samples = 3
  Ignored = 1
  Drops = TRUE
  None = none
  NaN = nan
  MaxTemp = 3
  IntegralMax = 5
  OutputMax = 3
  RomBits = 4
  FamilyBits = 1
  Family <- M1820
  MaxDevices = 3
  Passes = 8
  Payload <- Payloads
  Noise <- Broken
  MaxPayload = 3
  MaxChunk = 4
  MaxBuffer = 12
  MaxSegments = 3
INVARIANTS OneMeasures OffsetsFromLoad ScanIsComplete RegulatesAsAsked PidUnwinds EveryFrameFound
PROPERTIES CalibrationEnds
