SPECIFICATION FairSpec
CONSTANTS
  None = None
  Frames = 2
  AutoRetries = 1
  MaxExports = 3
  MaxQueue = 1
  MaxLosses = 0
INVARIANTS
  ArchiveIsMoved
CHECK_DEADLOCK FALSE
