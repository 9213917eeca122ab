\* Every program over two asynchronous functions.
SPECIFICATION FairSpec
CONSTANTS
  Fns = {1, 2}
  MaxInitiate = 1
  MaxThreads = 3
INVARIANTS QueueHoldsLive ExitOnlyWhenThreadsDone AssertHoldsWithoutSpawning
PROPERTY EveryThreadRuns
CHECK_DEADLOCK FALSE
