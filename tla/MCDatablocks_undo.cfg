SPECIFICATION Spec
CONSTANTS
  Objects = {o1, o2}
  Meshes = {d1, d2}
  Names = {n1, n2, n3}
  Ids = {1, 2, 3}
  None = None
  MaxCalls = 4
SYMMETRY MCSymmetry
INVARIANT StaleIndicesAreRefused
CHECK_DEADLOCK FALSE
