SPECIFICATION Spec
CONSTANTS
  NONE = NONE
  p1 = p1
  p2 = p2
  ThreadIds = {1, 2, 3}
  Far = 99
  LastTime = 3
  Loads <- MCLoads
INVARIANTS
  RecordsWhole
  DeliveredInOrder
  EventsTellChanges
PROPERTIES
  CatchesUp
  StoresReturn
