SPECIFICATION FairSpec
CONSTANTS
  p1 = p1
  p2 = p2
  large = large
  NoPackage = NoPackage
  Packages <- MCPackages
  ImageSize <- Sizes
  DeviceMax = 3
  DeviceChunk = 2
  FrameMax = 4
  MaxRetries = 1
  Faults <- AllFaults
  MaxFaults = 3
  MaxAttempts = 2
INVARIANTS
  TypeOK
  ProgressIsDurable
  LossTolerated
PROPERTIES
  UploadEnds
  ImplementsOtaSpec
CHECK_DEADLOCK FALSE
