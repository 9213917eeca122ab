\* Blocks with callbacks and subblocks, and every set of return conditions.
SPECIFICATION FairSpec
CONSTANTS
  f = f
  g = g
  main = main
  none = none
  Specs <- AllSpecs
  Fns <- TwoFns
  Entry = main
  None = none
  MaxDepth = 3
  MaxFrames = 2
  MaxCalls = 2
  MinCount <- LeastCount
INVARIANTS CallbackFinishesFirst ActionsRunInOrder
  NothingLeftAtExit ConditionsDecide
PROPERTY executePMEnds
CHECK_DEADLOCK FALSE
