CONSTANTS
  Marks = {"B", "S", "NUL"}
  BadTypes = {"Z", "NUL"}
  MaxLength = 51
  Byte <- MCByte
  Records <- MCRecords
SPECIFICATION ParserSpec
INVARIANTS
  DecodesWhatWasSent
  OnlyTheSideAborts
  SameCall
CHECK_DEADLOCK FALSE
