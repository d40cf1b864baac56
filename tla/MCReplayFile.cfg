CONSTANTS
  ByteBase = 4
  SizeMod = 64
  MaxPieces = 4
  SpecLength <- Lengths
  Files <- AllFiles
  LocateAt = 1
  StockAt = 2
  StockBytes = 2
  DirectoryType = 1
  BookTypes = {2}
  Blank = 0
  Symbols <- AllSymbols
SPECIFICATION FileSpec
INVARIANTS
  ReplayExitZero
  AppliedFollowAnnouncement
PROPERTIES
  ReplayExits
  RefinesReferenceReplay
CHECK_DEADLOCK FALSE
