SPECIFICATION Spec
CONSTANTS
  Objects = {o1, o2, o3}
  Collections = {c1, c2}
  Root = Root
  None = None
  MaxNamed = 2
  MaxCalls = 7
SYMMETRY MCSymmetry
INVARIANTS HierarchiesAreTrees EveryObjectIsInACollection
PROPERTIES SelectionIsTheUsers
CHECK_DEADLOCK FALSE
