SPECIFICATION Spec
CONSTANTS
  NONE = NONE
  s1 = s1
  s2 = s2
  a1 = a1
  Procs = {s1, s2, a1}
  Multi = {s1, s2}
  Comm <- MCComm
  AppsMax = 3
  Memories = {1, 2, 3, 4}
  MaxStarts = 2
SYMMETRY Servers
INVARIANT
  RecoveryToldLater
CHECK_DEADLOCK FALSE
