SPECIFICATION Spec
CONSTANTS
  p1 = p1
  p2 = p2
  t1 = t1
  t2 = t2
  s1 = s1
  s2 = s2
  n1 = n1
  n2 = n2
  main = main
  backup = backup
  NoSession = NoSession
  Procs = {p1, p2}
  Threads = {t1, t2}
  ProcOf <- MCTwoProcs
  Sessions = {s1, s2}
  HomeOf <- MCSessTwoProcs
  MainFile = main
  Requests <- ReqProcs
  Targets = {"running", "candidate"}
  Nodes = {n1}
  Files = {main}
  Start = {p1, p2}
  MaxTime = 3
  MaxRequests = 3
  MaxFaults = 0
  MaxStarts = 0
INVARIANTS
  TypeOK
  MutualExclusion
  CopyIsCurrent
PROPERTIES
  NoLostUpdate
  LocksRespected
  ImplementsDatastore
CHECK_DEADLOCK FALSE
