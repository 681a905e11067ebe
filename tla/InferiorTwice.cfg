SPECIFICATION Spec
CONSTANTS
  main = main
  a = a
  b = b
  usr = usr
  int = int
  Main = main
  Threads = {main, a, b}
  Signals = {usr}
  Reported = {usr}
  Trap = Trap
  Chld = Chld
  Null = Null
  Modes = {FALSE}
  MaxNoise = 2
INVARIANT ToldOnce
CHECK_DEADLOCK FALSE
