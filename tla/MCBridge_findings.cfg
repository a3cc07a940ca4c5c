SPECIFICATION Safety
CONSTANTS
  Calls = {c1}
  Sessions = {s1, s2}
  None = None
  Call2 = c2
  Session2 = s2
  OutboundQueue = 1
  InboxMax = 1
  OutboxMax = 1
INVARIANT WaitersFailedExplicitly
PROPERTY RepliesReachTheSession
CHECK_DEADLOCK FALSE
