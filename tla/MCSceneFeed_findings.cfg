SPECIFICATION Spec
CONSTANTS
  Sessions = {s1, s2}
  None = None
  Capacity = 4
  OutboxMax = 4
  EventBuffer = 1
  MaxRevision = 3
PROPERTIES
  AppliedEventsAreReported
  LagExpiresDiffs
CHECK_DEADLOCK FALSE
