SPECIFICATION Spec
CONSTANTS
  None = None
  Frames = 2
  AutoRetries = 1
  MaxExports = 3
  MaxQueue = 1
  MaxLosses = 1
CONSTRAINT
  OneTrouble
INVARIANTS
  TypeOK
  CompleteExportIsWhole
  UndisturbedMove
  ClosedExportIsOver
CHECK_DEADLOCK FALSE
