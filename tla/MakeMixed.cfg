\* Modula-2 and Oberon-2 modules whose interfaces may change, or may not.
SPECIFICATION Spec
CONSTANTS
  Unit <- Mix_Unit
  Mode <- Mix_Mode
  Imports <- Mix_Imports
  Uses <- Mix_Uses
  Order <- Mix_Order
  Reads <- Mix_Reads
  OptionSets <- MixSyms
  Ties = FALSE
  Jobs = {"make", "compile", "batch"}
  MaxClock = 5
  MaxEvents = 2
  None = None
INVARIANTS MakeIsComplete MakeSettles NoImportFault ClientsWait
PROPERTY InterfaceKept
CHECK_DEADLOCK FALSE
