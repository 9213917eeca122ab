\* Three execution states at a time, addresses reused.
SPECIFICATION FairSpec
CONSTANTS
  Nodes = {n1, n2, n3, n4, n5, n6}
  States = {s1, s2, s3}
  Root = n1
  Initial = s1
  NoNode = NoNode
  NoState = NoState
INVARIANTS WalkStaysInTree SelectsLiveState TreeAssertsHold
PROPERTY WalkEnds
CHECK_DEADLOCK FALSE
