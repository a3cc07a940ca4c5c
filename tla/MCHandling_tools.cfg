SPECIFICATION Spec
CONSTANTS
  Operations <- AllTools
  FoundLate <- KnownLate
  NotGivenBack <- KeepsSomething
  LeftToTheEvent <- NoBump
  LooksAgain <- LookForTheirBone
  ReadsThatWrite <- WritingReads
INVARIANTS
  HandlerIsInOrder
  ArgumentErrorsWriteNothing
  UserGetsBack
  RevisionTellsOfSuccess
  ReadsWriteNothing
CHECK_DEADLOCK FALSE
