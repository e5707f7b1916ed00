SPECIFICATION Spec
CONSTANTS
  Scripts <- AllScripts
  MaxChunk = 3
  MaxLine = 3
  MaxArms = 2
INVARIANTS
  TypeOK
  BytesConserved
  IntactFramesDecoded
  RepliesSeparated
CHECK_DEADLOCK FALSE
