SPECIFICATION FairSpec
CONSTANTS
  d1 = d1
  d2 = d2
  None = None
  Devices <- MCDevices
  ByteBits = 2
  MinImage = 2
  MaxImage = 3
  Files <- MCFiles
  Versions <- MCVersions
  MaxLinks = 2
  MaxUploads = 1
INVARIANTS
  TypeOK
  ExpectedResetIsSilent
  UploadIsExclusive
PROPERTIES
  ReconnectIsGenuine
  UploadIsReported
CHECK_DEADLOCK FALSE
