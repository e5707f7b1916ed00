SPECIFICATION FairSpec
CONSTANTS
  None = None
  Frames = 2
  AutoRetries = 1
  MaxExports = 2
  MaxQueue = 1
  MaxLosses = 1
PROPERTIES
  CancelEnds
  StallIsDetected
CHECK_DEADLOCK FALSE
