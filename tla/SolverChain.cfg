\* Two arrays of bits, three atoms and their negations; the default search order.
SPECIFICATION Spec
CONSTANTS
  Exprs <- AExprs
  Bytes <- ABytes
  Values <- Bits
  Zero = 0
  Array <- AArray
  Reads <- AReads
  Holds <- AHolds
  Neg <- ANeg
  Paths <- APaths
  Canonical <- ACanonical
  CexCacheTryAll = FALSE
  CexCacheSuperSet = TRUE
  Failed = Failed
  Unsat = Unsat
  None = None
  MaxCached = 3
INVARIANTS AnswersAreRight InitialValuesSatisfy
CHECK_DEADLOCK FALSE
