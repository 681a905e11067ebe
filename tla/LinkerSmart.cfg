\* The linker over all short sequences of object modules.
SPECIFICATION Spec
CONSTANTS
  Names = {"x", "y", "z", "a"}
  Objects <- Pool
  Options <- Exps
  Entries <- MCEntries
  MaxFiles = 4
  MaxExports = 2
  Page = 16
  Null = Null
INVARIANTS OnlyNeededIsLinked OneDefinition FixupsCountedByName TextIsPlaced
PROPERTY OrdinalsAssigned
CHECK_DEADLOCK FALSE
