SPECIFICATION FairSpec
CONSTANTS
  main = main
  a = a
  b = b
  usr = usr
  int = int
  Main = main
  Threads = {main, a, b}
  Signals = {usr, int}
  Reported = {usr}
  Trap = Trap
  Chld = Chld
  Null = Null
  Modes = {FALSE, TRUE}
  MaxNoise = 2
INVARIANTS
  StoppedWhenLooked
  OneEventEach
  SignalsKept
  HitsAreKeptUnlessMerged
  ToldOfKnown
PROPERTY StoppingEnds
CHECK_DEADLOCK FALSE
