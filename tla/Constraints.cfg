\* Bytes of two bits, two symbolic bytes.
SPECIFICATION Spec
CONSTANTS
  Int8 = 2
  Int32 = 2
  ConstArrayOpt = TRUE
  RewriteEqualities = TRUE
  Leaves <- ALeaves
  Conditions <- AConditions
  Assignments <- AAssignments
  Widths = {1, 2, 4}
  MaxOperations = 2
  MaxConstraints = 3
INVARIANTS ValueMeansTheOperations ConstraintsMeanThePath FastAnswersAreRight
CHECK_DEADLOCK FALSE
