\* Every combination of options, three execution states.
SPECIFICATION Spec
CONSTANTS
  Ids = {s1, s2, s3}
  Root = s1
  NoState = NoState
  MaxOffers = 2
  MaxTerminations = 2
  Options <- AllOptions
INVARIANTS SearcherOffersStates DeletedOnce
  CurrentIsAllocated OnlyTerminatedTwiceAsserts WaitingStatesRest
SYMMETRY ForkedSymmetry
CHECK_DEADLOCK FALSE
