SPECIFICATION FairSpec
CONSTANTS
  NONE = NONE
  c1 = c1
  c2 = c2
  Callers = {c1, c2}
  Main = c1
  Loads <- Dispatching
PROPERTIES
  DispatchStops
CHECK_DEADLOCK FALSE
