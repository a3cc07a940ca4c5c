SPECIFICATION Spec
CONSTANTS
  None = None
  Objects = {o1, o2}
  Ids = {i1, i2}
  NameCount = 2
  SnapshotLimit = 2
  MaxChanges = 3
  MaxWork = 2
CONSTRAINT NotReset
SYMMETRY Symmetry
INVARIANTS TypeOK DiffIsTheDifference StaleMeshesAreNamed SelectionFollows
CHECK_DEADLOCK FALSE
