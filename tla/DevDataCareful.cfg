SPECIFICATION Spec
CONSTANTS
  Byte = {0, 1}
  Hole = 0
  LF = 1
  BUFSIZE = 2
  Lengths = {1, 4}
  Strings <- SmallStrings
  Positions = {1, 4}
  FlagSets <- SmallFlags
  Rooms = {1, 3, 9}
  MaxLen = 5
  Careful = TRUE
  Unknown = Unknown
  Closed = Closed
INVARIANT BufferAgrees
PROPERTY ImplementsRandomFile
CHECK_DEADLOCK FALSE
