\* An object of two bytes.
SPECIFICATION Spec
CONSTANTS
  Int8 = 2
  Int32 = 2
  ConstArrayOpt = TRUE
  Size = 2
  Stores <- AStores
  Loads <- ALoads
  Assignments <- AAssignments
  UseConstantArrays = TRUE
  None = None
  MaxSteps = 4
INVARIANTS ContentsAreTheBytesWritten LoadsYieldTheBytes
CHECK_DEADLOCK FALSE
