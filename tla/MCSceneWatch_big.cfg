SPECIFICATION Spec
CONSTANTS
  None = None
  Objects = {o1, o2}
  Ids = {i1, i2}
  NameCount = 2
  SnapshotLimit = 0
  MaxChanges = 2
  MaxWork = 1
INVARIANT BigScenesAreSuspect
CHECK_DEADLOCK FALSE
