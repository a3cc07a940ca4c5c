SPECIFICATION Spec
CONSTANTS
  None = None
  UndoAvailable = TRUE
  Batches = {a, b}
  Plans <- MCPlans
  MaxFaults = 0
  MaxWork = 0
PROPERTY RollbackStopsAtTheStart
