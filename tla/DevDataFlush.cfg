SPECIFICATION Spec
CONSTANTS
  Byte = {0, 1}
  Hole = 0
  LF = 1
  BUFSIZE = 2
  Lengths = {1, 4}
  Strings <- SmallStrings
  Positions = {0, 1, 3, 5}
  FlagSets <- RawFlags
  Rooms = {9}
  MaxLen = 5
  Careful = FALSE
  Unknown = Unknown
  Closed = Closed
PROPERTY FlushKeepsPosition
CHECK_DEADLOCK FALSE
