\* Two secret inputs, a public one.
SPECIFICATION Spec
CONSTANTS
  Secrets = {a, b}
  Publics = {p}
  Others = {}
  NoRD = NoRD
  Options <- EachOption
  MaxNodes <- NodesFor
  MaxExtra = 1
INVARIANTS ConditionsMatchPath LeaksAreReported ReportsAreLeaks
SYMMETRY SecretSymmetry
CHECK_DEADLOCK FALSE
