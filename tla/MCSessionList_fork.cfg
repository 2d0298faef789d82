SPECIFICATION Spec
CONSTANTS
  pA = pA
  pB = pB
  pC = pC
  r1 = r1
  d1 = d1
  r2 = r2
  r3 = r3
  r4 = r4
  NoId = NoId
  NoProc = NoProc
  Procs = {pA, pB, pC}
  Handles = {r1, r2}
  Dummies = {}
  IdOf <- UsedIds
  SizeOf <- UsedSizes
  HomeOf <- UsedHomes
  Head = 1
  Size = 5
  Start = {pA, pB}
  Load <- MCLoad
PROPERTIES
  DaemonSessionsKept
CHECK_DEADLOCK FALSE
