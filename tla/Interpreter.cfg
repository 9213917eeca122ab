\* Programs of a few blocks, an input of five values.
SPECIFICATION Spec
CONSTANTS
  Width = 3
  PointerWidth = 10
  MaxFds = 6
  DirentSize = 2
  DirentHead = 1
  OsDirents = 6
  MaxArgs = 4
  StdoutSize = 2
  HugeAlloc = 6
  MaxAlloc = 5
  SmallAlloc = 3
  primArraySize = 4
  Inputs = {0, 1, 2, 3, 4}
  Limits = {"none", "timeout", "memory", "max_forks", "max_depth"}
  Programs <- APrograms
INVARIANTS EveryPathIsAnExecution NoInputIsLost
CHECK_DEADLOCK FALSE
