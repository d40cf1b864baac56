CONSTANTS
  ByteBase = 4
  SizeMod = 16
  MaxFileLength = 7
  SpecLength <- Lengths
  Files <- AllFiles
SPECIFICATION Spec
INVARIANTS
  TypeOK
  ReadsInBounds
  DeliveredTileThePrefix
  CompleteIffWellFramed
  StopsAtFirstViolation
PROPERTY Terminates
CHECK_DEADLOCK FALSE
