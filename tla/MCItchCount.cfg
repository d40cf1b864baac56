CONSTANTS
  ByteBase = 4
  SizeMod = 64
  MaxPieces = 3
  SpecLength <- Lengths
  Files <- AllFiles
  TimestampAt = 1
  TimestampBytes = 2
  SystemEventType = 2
  EventAt = 3
SPECIFICATION CountSpec
INVARIANTS
  CensusAccountsForAll
  ExitZeroIffHealthy
PROPERTIES
  EventuallyExits
  RefinesReferenceCount
CHECK_DEADLOCK FALSE
