SPECIFICATION Live
CONSTANTS
  None = None
  UndoAvailable = TRUE
  Batches = {a, b}
  Plans <- MCPlans
  MaxFaults = 1
  MaxWork = 1
INVARIANTS TypeOK RolledBackIsGone OperationsRunInOrder StopsAtTheFailure ReportCoversTheBatch ReferencesAreResolved
PROPERTIES ClosedByOpener EveryBatchEnds
