\* A batch file instead of compilations.
SPECIFICATION Spec
CONSTANTS
  Unit <- Ex_Unit
  Mode <- Ex_Mode
  Imports <- Ex_Imports
  Uses <- Ex_Uses
  Order <- Ex_Order
  Reads <- Ex_Reads
  OptionSets <- DefaultSym
  Ties = FALSE
  Jobs = {"make", "batch"}
  MaxClock = 6
  MaxEvents = 3
  None = None
INVARIANT BatchIsComplete
CHECK_DEADLOCK FALSE
