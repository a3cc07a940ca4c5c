SPECIFICATION Spec
CONSTANTS
  Operations <- AllTools
  FoundLate <- KnownLate
  NotGivenBack <- KeepsSomething
  LeftToTheEvent <- NoBump
  LooksAgain <- LookForTheirBone
  ReadsThatWrite <- WritingReads
INVARIANT
  SoundRequestsPass
CHECK_DEADLOCK FALSE
