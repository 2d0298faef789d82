SPECIFICATION FairSpec
CONSTANTS
  p1 = p1
  p2 = p2
  t1 = t1
  t2 = t2
  s1 = s1
  s2 = s2
  n1 = n1
  n2 = n2
  main = main
  backup = backup
  NoSession = NoSession
  Procs = {p1}
  Threads = {t1, t2}
  ProcOf <- MCOneProc
  Sessions = {s1, s2}
  HomeOf <- MCSessOneProc
  MainFile = main
  Requests <- ReqThreads
  Targets = {"running", "candidate"}
  Nodes = {n1}
  Files = {main}
  Start = {p1}
  MaxTime = 2
  MaxRequests = 4
  MaxFaults = 0
  MaxStarts = 0
INVARIANTS
  LockOwnersAreOpen
PROPERTIES
  SemaphoreReturned
  CloseCompletes
CHECK_DEADLOCK FALSE
