SPECIFICATION LiveSpec
CONSTANTS
  Calls = {c1, c2}
  Sessions = {s1, s2}
  None = None
  Call2 = c2
  Session2 = s2
  OutboundQueue = 1
  InboxMax = 1
  OutboxMax = 1
PROPERTIES EveryCallReturns SlotFollowsLink
CHECK_DEADLOCK FALSE
