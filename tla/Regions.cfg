\* Bytes of two bits, objects of two bytes and of one, two states.
SPECIFICATION Spec
CONSTANTS
  Int8 = 2
  Int32 = 2
  ConstArrayOpt = TRUE
  Addresses = {1, 2}
  First = 1
  Objects = {"a", "b"}
  FirstObject = "a"
  SizeInBits <- ASizeInBits
  ObjectType <- AObjectType
  UInt = 64
  TypeRegions <- ATypeRegions
  Sensitive <- ASensitive
  PointerWidth = 2
  Values <- AValues
  infoFlowRules <- ARules
  Conditions <- AConditions
  Assignments <- AAssignments
  MaxOperations = 3
INVARIANTS MarksAreTheDeclarations SecretBranchesAreKnown
CHECK_DEADLOCK FALSE
