\* Import graphs over three modules, and source files under two names.
SPECIFICATION FairSpec
CONSTANTS
  a = a
  b = b
  c = c
  Names = {a, b, c}
  Texts <- GraphsAndFiles
  MaxArgs = 2
  None = None
INVARIANTS ImportsFirst CyclesAreReal Located HeadingsAgree
PROPERTY Terminates
CHECK_DEADLOCK FALSE
