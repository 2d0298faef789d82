SPECIFICATION FairSpec
CONSTANTS
  NONE = NONE
  c1 = c1
  c2 = c2
  Callers = {c1, c2}
  Main = c1
  Loads <- MCLoads
INVARIANTS
  SameProtocol
  OwnReply
  NotificationsOnce
PROPERTIES
  CallsReturn
CHECK_DEADLOCK FALSE
