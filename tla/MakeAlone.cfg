\* A single compilation mixes interfaces: a make does not notice.
SPECIFICATION Spec
CONSTANTS
  Unit <- Mix_Unit
  Mode <- Mix_Mode
  Imports <- Mix_Imports
  Uses <- Mix_Uses
  Order <- Mix_Order
  Reads <- Mix_Reads
  OptionSets <- ChangingSym
  Ties = FALSE
  Jobs = {"make", "compile", "batch"}
  MaxClock = 5
  MaxEvents = 2
  None = None
INVARIANT AlwaysComplete
CHECK_DEADLOCK FALSE
