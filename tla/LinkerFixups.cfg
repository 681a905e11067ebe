\* Exports of a module's own segments.
SPECIFICATION Spec
CONSTANTS
  Names = {"x", "y", "z", "a"}
  Objects <- Pool
  Options <- Exps
  Entries <- MCEntries
  MaxFiles = 2
  MaxExports = 1
  Page = 16
  Null = Null
INVARIANT FixupsCounted
CHECK_DEADLOCK FALSE
