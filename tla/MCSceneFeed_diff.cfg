SPECIFICATION Spec
CONSTANTS
  Sessions = {s1, s2}
  None = None
  Capacity = 2
  OutboxMax = 1
  EventBuffer = 2
  MaxRevision = 4
SYMMETRY Symmetry
INVARIANTS TypeOK DiffComplete OneSessionInOrder
CHECK_DEADLOCK FALSE
