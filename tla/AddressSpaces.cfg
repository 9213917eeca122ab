\* Two states, reused after they terminate, and two objects; every ObjectState they need.
SPECIFICATION Spec
CONSTANTS
  States = {s1, s2}
  Objects = {m1, m2}
  Locals = {m2}
  Bytes = {b1}
  ObjectStates = {1, 2, 3, 4, 5}
  Malloc <- FirstFree
  Values <- TwoValues
  Sel <- SelValue
  Zero = "zero"
  Symbolic = "sym"
  None = None
  MaxKey = 3
  MaxSymbolics = 1
SYMMETRY Names
VIEW Memory
INVARIANTS BindingsAreSound OwnedIsPrivate ResolvedPairsAreBound ObjectsAreCounted
PROPERTY EachStateHasItsMemory
CHECK_DEADLOCK FALSE
