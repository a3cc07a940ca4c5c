SPECIFICATION Spec
CONSTANTS
  None = None
  Programs <- MCPrograms
INVARIANTS CompleteRollbackLeavesNothingKnown ReportedEntitiesExist ExportedFilesPassedTheChecks
PROPERTY NothingIsMadeAfterAFailure
CHECK_DEADLOCK FALSE
