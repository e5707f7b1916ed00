SPECIFICATION FairSpec
CONSTANTS
  s1 = s1
  s2 = s2
  None = None
  Segments <- MCSegments
  Sizes <- MCSizes
  Capacity = 2
  DeferCapacity = 2
  MaxFrames = 3
INVARIANTS
  TypeOK
  NoAcceptedFrameLost
  FileIsPrefixOfOffered
  CleanSummaryIsComplete
  ByteAccounting
  GapsAreDeferralOverflows
PROPERTIES
  ClosedFileIsFinal
  StopDrains
CHECK_DEADLOCK FALSE
