\* Import libraries whose sections have the alignment that COFF files default to.
SPECIFICATION Spec
CONSTANTS
  Names = {"x", "y", "z", "a"}
  Objects <- Pool
  Options <- Exps
  Entries <- MCEntries
  MaxFiles = 2
  MaxExports = 0
  Page = 16
  Null = Null
INVARIANT TextFits
CHECK_DEADLOCK FALSE
