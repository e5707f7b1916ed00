SPECIFICATION FairSpec
CONSTANTS
  Paths = {"a", "b"}
  Archives <- MCArchives
  Windows = {1, 3}
  ChunkFrames = 2
  MaxStep = 2
  MaxTime = 6
  MaxOps = 4
  Retention = 3
  MaxPoints = 3
  None = None
INVARIANTS
  DisplayIsFaithful
  ViewsNeverMix
PROPERTIES
  PlaybackEnds
CHECK_DEADLOCK FALSE
