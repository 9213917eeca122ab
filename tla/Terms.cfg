\* Bytes of two bits, words and indices of four.
SPECIFICATION Spec
CONSTANTS
  Int8 = 2
  Int32 = 4
  ConstArrayOpt = FALSE
  RewriteEqualities = TRUE
  OptimizeDivides = TRUE
  Leaves <- ALeaves
  Widths = {1, 2, 4, 10}
  Conditions <- AConditions
  Assignments <- AAssignments
  MaxOperations = 1
  MaxConstraints = 0
INVARIANTS TermsMeanTheExpression PrintedQueryMeansTheSame ParsedQueryMeansTheSame
CHECK_DEADLOCK FALSE
