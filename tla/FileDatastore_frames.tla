------------------------ MODULE FileDatastore_frames ------------------------
(***************************************************************************)
(* What the steps of FileDatastore leave alone, and the conjuncts of the   *)
(* inductive invariant on time, processes, the flag and the semaphore.     *)
(***************************************************************************)
EXTENDS FileDatastore_types

(***************************************************************************)
(* What a step leaves alone                                                *)
(***************************************************************************)
\* Thread t changes nothing of other threads, other processes' copies and
\* other files.
Frame(t) ==
  /\ path' = path /\ pstate' = pstate /\ raced' = raced
  /\ \A u \in Threads \ {t} : pc'[u] = pc[u] /\ req'[u] = req[u] /\ reply'[u] = reply[u]
  /\ \A p \in Procs \ {ProcOf[t]} :
       /\ xml'[p] = xml[p] /\ last_access'[p] = last_access[p]
       /\ dirty'[p] = dirty[p] /\ holding_lock'[p] = holding_lock[p]
  /\ \A f \in Files \ {File(t)} :
       disk'[f] = disk[f] /\ mtime'[f] = mtime[f] /\ sem'[f] = sem[f]

LEMMA FinishFrame ==
  ASSUME TypeOK, NEW t \in Threads, NEW rep, Finish(t, rep)
  PROVE  /\ \A u \in Threads \ {t} : pc'[u] = pc[u] /\ req'[u] = req[u] /\ reply'[u] = reply[u]
         /\ pc'[t] \in {"wait", "idle"}
PROOF
  <1>1. \A u \in Threads \ {t} : pc'[u] = pc[u] /\ reply'[u] = reply[u]
    BY Zenon DEF Finish, TypeOK
  <1>2. pc'[t] \in {"wait", "idle"}
    BY Zenon DEF Finish, TypeOK
  <1>3. \E x : req' = [req EXCEPT ![t] = x]
    BY Zenon DEF Finish
  <1>4. \A u \in Threads \ {t} : req'[u] = req[u]
    BY <1>3, Zenon DEF TypeOK
  <1> QED BY <1>1, <1>2, <1>4, Zenon

LEMMA ApplyFrame ==
  ASSUME TypeOK, NEW t \in Threads, NEW d, NEW valid, Apply(t, d, valid)
  PROVE  /\ \A u \in Threads \ {t} : pc'[u] = pc[u] /\ reply'[u] = reply[u]
         /\ pc'[t] \in {"sync", "post"}
         /\ \A p \in Procs \ {ProcOf[t]} : xml'[p] = xml[p]
         /\ UNCHANGED <<clock, disk, mtime, raced, sem, pstate, path, req>>
  BY DEF Apply, TypeOK, fileVars

LEMMA ThreadFrame ==
  ASSUME TypeOK, NEW t \in Threads, ThreadStep(t) \/ \E r \in Requests : Begin(t, r)
  PROVE  Frame(t) /\ clock' = clock
PROOF
  <1> USE ConstantsAssumption DEF Frame, File
  <1>2. ASSUME NEW r \in Requests, Begin(t, r) PROVE Frame(t) /\ clock' = clock
    BY <1>2 DEF TypeOK, Begin, fileVars, copyVars
  <1>3. ASSUME LOCK(t) PROVE Frame(t) /\ clock' = clock
    BY <1>3, Zenon DEF TypeOK, LOCK, fileVars, copyVars
  <1>4. ASSUME LockTimeout(t) PROVE Frame(t) /\ clock' = clock
    BY <1>4, FinishFrame, Zenon DEF LockTimeout, fileVars, copyVars
  <1>5. ASSUME UNLOCKPost(t) PROVE Frame(t) /\ clock' = clock
    BY <1>5, Zenon DEF TypeOK, UNLOCKPost, fileVars, copyVars
  <1>6. ASSUME UNLOCKClear(t) PROVE Frame(t) /\ clock' = clock
    BY <1>6, FinishFrame, Zenon DEF TypeOK, UNLOCKClear, fileVars, copyVars
  <1>7. ASSUME OperateFails(t) PROVE Frame(t) /\ clock' = clock
    BY <1>7, Zenon DEF TypeOK, OperateFails, ToPost, fileVars, copyVars
  <1>7a. ASSUME ReloadCopy(t) PROVE Frame(t) /\ clock' = clock
    BY <1>7a, Zenon DEF TypeOK, ReloadCopy, fileVars, copyVars
  <1>8. ASSUME OperateOnCopy(t) PROVE Frame(t) /\ clock' = clock
    BY <1>8, ApplyFrame, Zenon DEF OperateOnCopy
  <1>9. ASSUME OperateOnFile(t) PROVE Frame(t) /\ clock' = clock
    <2>1. Apply(t, disk[path[ProcOf[t]]].doc, TRUE)
      BY <1>9, Zenon DEF OperateOnFile
    <2>2. \A p \in Procs \ {ProcOf[t]} :
            /\ last_access'[p] = last_access[p] /\ dirty'[p] = dirty[p]
            /\ holding_lock'[p] = holding_lock[p]
      BY <1>9, Zenon DEF OperateOnFile, TypeOK
    <2> QED BY <2>1, <2>2, ApplyFrame, Zenon
  <1>10. ASSUME file_rollback_restore(t) PROVE Frame(t) /\ clock' = clock
    BY <1>10 DEF TypeOK, file_rollback_restore, fileVars
  <1>11. ASSUME SyncTruncate(t) PROVE Frame(t) /\ clock' = clock
    BY <1>11 DEF TypeOK, SyncTruncate, SyncRest
  <1>12. ASSUME SyncRefused(t) PROVE Frame(t) /\ clock' = clock
    BY <1>12, Zenon DEF TypeOK, SyncRefused, SyncRest, ToPost
  <1>13. ASSUME SyncDump(t) PROVE Frame(t) /\ clock' = clock
    BY <1>13, Zenon DEF TypeOK, SyncDump, SyncRest
  <1>14. ASSUME SyncDumpFails(t) PROVE Frame(t) /\ clock' = clock
    BY <1>14, Zenon DEF TypeOK, SyncDumpFails, SyncRest, ToPost
  <1>15. ASSUME SyncStamp(t) PROVE Frame(t) /\ clock' = clock
    BY <1>15, Zenon DEF TypeOK, SyncStamp, SyncRest
  <1> QED
    BY <1>2, <1>3, <1>4, <1>5, <1>6, <1>7, <1>7a, <1>8, <1>9, <1>10, <1>11, <1>12, <1>13, <1>14,
       <1>15, Zenon
       DEF ThreadStep, Operate, file_sync

(***************************************************************************)
(* Times                                                                   *)
(***************************************************************************)
\* the clock never goes back, and a time that is recorded is the current one
Dated ==
  /\ clock' >= clock
  /\ \A p \in Procs : last_access'[p] \in {last_access[p], clock, 0} \cup {saved[t].time : t \in Threads}
  /\ \A f \in Files : mtime'[f] \in {mtime[f], clock}

LEMMA DatedStep == ASSUME TypeOK, Next PROVE Dated
PROOF
  <1> USE ConstantsAssumption DEF Dated
  <1>1. CASE Tick
    BY <1>1 DEF TypeOK, Tick, fileVars, copyVars
  <1>2. ASSUME NEW t \in Threads, NEW r \in Requests, Begin(t, r) PROVE Dated
    BY <1>2 DEF TypeOK, Begin, fileVars, copyVars
  <1>3. ASSUME NEW t \in Threads,
               LOCK(t) \/ LockTimeout(t) \/ UNLOCKPost(t) \/ UNLOCKClear(t) \/ OperateFails(t)
        PROVE Dated
    <2>1. clock' = clock /\ last_access' = last_access /\ mtime' = mtime
      BY <1>3, Zenon DEF LOCK, LockTimeout, UNLOCKPost, UNLOCKClear, OperateFails, fileVars, copyVars
    <2>2. clock \in Nat
      BY Zenon DEF TypeOK
    <2> QED BY <2>1, <2>2
  <1>3a. ASSUME NEW t \in Threads, ReloadCopy(t) PROVE Dated
    BY <1>3a DEF TypeOK, ReloadCopy, fileVars, copyVars
  <1>4. ASSUME NEW t \in Threads, OperateOnCopy(t) PROVE Dated
    BY <1>4 DEF TypeOK, OperateOnCopy, Apply, fileVars
  <1>5. ASSUME NEW t \in Threads, OperateOnFile(t) PROVE Dated
    <2>1. last_access' = [last_access EXCEPT ![ProcOf[t]] = saved[t].time]
      BY <1>5, Zenon DEF OperateOnFile
    <2>2. clock' = clock /\ mtime' = mtime
      BY <1>5, Zenon DEF OperateOnFile, Apply, fileVars
    <2> QED BY <2>1, <2>2 DEF TypeOK
  <1>6. ASSUME NEW t \in Threads, file_rollback_restore(t) PROVE Dated
    BY <1>6 DEF TypeOK, file_rollback_restore, fileVars
  <1>7. ASSUME NEW t \in Threads,
               SyncTruncate(t) \/ SyncRefused(t) \/ SyncDump(t) \/ SyncDumpFails(t) \/ SyncStamp(t)
        PROVE Dated
    <2>1. clock' = clock
      BY <1>7, Zenon DEF SyncTruncate, SyncRefused, SyncDump, SyncDumpFails, SyncStamp, SyncRest
    <2>2. last_access' = last_access \/ last_access' = [last_access EXCEPT ![ProcOf[t]] = clock]
      BY <1>7, Zenon DEF SyncTruncate, SyncRefused, SyncDump, SyncDumpFails, SyncStamp
    <2>3. mtime' = mtime \/ mtime' = [mtime EXCEPT ![path[ProcOf[t]]] = clock]
      BY <1>7, Zenon DEF SyncTruncate, SyncRefused, SyncDump, SyncDumpFails, SyncStamp
    <2> QED BY <2>1, <2>2, <2>3 DEF TypeOK
  <1>8. ASSUME NEW p \in Procs, ncds_file_init(p) PROVE Dated
    <2>1. clock' = clock /\ last_access' = [last_access EXCEPT ![p] = 0]
      BY <1>8, Zenon DEF ncds_file_init
    <2>2. mtime' = mtime \/ \E f \in Files : mtime' = [mtime EXCEPT ![f] = clock]
      BY <1>8, Zenon DEF ncds_file_init
    <2> QED BY <2>1, <2>2 DEF TypeOK
  <1>9. ASSUME NEW p \in Procs, InitFrame(p) PROVE Dated
    BY <1>9 DEF TypeOK, InitFrame, copyVars
  <1>10. ASSUME NEW p \in Procs, ncds_file_free(p) \/ Crash(p) PROVE Dated
    BY <1>10 DEF TypeOK, ncds_file_free, Crash, fileVars, copyVars
  <1> QED
    BY <1>1, <1>2, <1>3, <1>3a, <1>4, <1>5, <1>6, <1>7, <1>8, <1>9, <1>10, Zenon
       DEF Next, ThreadStep, Operate, file_sync, ProcStep

LEMMA SavedStep ==
  ASSUME TypeOK, Next, NEW u \in Threads
  PROVE  saved'[u].time \in {saved[u].time, clock, 0}
PROOF
  <1> USE ConstantsAssumption
  <1>n. NothingSaved.time = 0
    BY Zenon DEF NothingSaved
  <1>1. ASSUME saved' = saved PROVE saved'[u].time \in {saved[u].time, clock, 0}
    BY <1>1, Zenon
  <1>2. ASSUME NEW t \in Threads, saved' = [saved EXCEPT ![t] = NothingSaved]
        PROVE  saved'[u].time \in {saved[u].time, clock, 0}
    BY <1>n, <1>2, Zenon DEF TypeOK
  <1>3. ASSUME NEW t \in Threads, ReloadCopy(t)
        PROVE  saved'[u].time \in {saved[u].time, clock, 0}
    <2>1. saved' = [saved EXCEPT ![t] = [lock |-> dslock[ProcOf[t]], time |-> clock]]
      BY <1>3, Zenon DEF ReloadCopy
    <2> QED BY <2>1, Zenon DEF TypeOK
  <1>4. ASSUME NEW p \in Procs, Crash(p)
        PROVE  saved'[u].time \in {saved[u].time, clock, 0}
    BY <1>n, <1>4, Zenon DEF Crash
  <1>5. ASSUME NEW t \in Threads, NEW r \in Requests, Begin(t, r) PROVE saved' = saved
    BY <1>5, Zenon DEF Begin
  <1>6. ASSUME NEW t \in Threads,
               \/ LOCK(t) \/ LockTimeout(t) \/ UNLOCKPost(t) \/ UNLOCKClear(t)
               \/ OperateOnCopy(t) \/ file_rollback_restore(t) \/ file_sync(t)
        PROVE saved' = saved
    BY <1>6, Zenon DEF LOCK, LockTimeout, UNLOCKPost, UNLOCKClear, OperateOnCopy, file_rollback_restore,
                file_sync, SyncTruncate, SyncRefused, SyncDump, SyncDumpFails, SyncStamp, SyncRest
  <1>7. ASSUME NEW t \in Threads, OperateFails(t) \/ OperateOnFile(t)
        PROVE  saved' = [saved EXCEPT ![t] = NothingSaved]
    BY <1>7, Zenon DEF OperateFails, OperateOnFile
  <1>8. ASSUME NEW p \in Procs, ncds_file_init(p) \/ InitFrame(p) \/ ncds_file_free(p)
        PROVE  saved' = saved
    BY <1>8, Zenon DEF ncds_file_init, InitFrame, ncds_file_free, threadVars
  <1>9. Tick => saved' = saved
    BY Zenon DEF Tick, threadVars
  <1> QED BY <1>1, <1>2, <1>3, <1>4, <1>5, <1>6, <1>7, <1>8, <1>9, Zenon
         DEF Next, ThreadStep, Operate, ProcStep

LEMMA TimesStep == IndInv /\ [Next]_vars => Times'
PROOF
  <1> SUFFICES ASSUME IndInv, [Next]_vars PROVE Times'
    BY Zenon
  <1>1. CASE Next
    <2>1. Dated
      BY <1>1, DatedStep, Zenon DEF IndInv
    <2>2. /\ clock \in Nat /\ clock' \in Nat
          /\ \A p \in Procs : last_access[p] \in Nat /\ last_access[p] <= clock
          /\ \A f \in Files : mtime[f] \in Nat /\ mtime[f] <= clock
          /\ \A t \in Threads : saved[t].time \in Nat /\ saved[t].time <= clock
      BY TypeStep, Zenon DEF IndInv, TypeOK, Times, SavedCopy
    <2>3. ASSUME NEW p \in Procs PROVE last_access'[p] <= clock'
      BY <2>1, <2>2 DEF Dated
    <2>4. ASSUME NEW f \in Files PROVE mtime'[f] <= clock'
      BY <2>1, <2>2 DEF Dated
    <2>5. ASSUME NEW t \in Threads PROVE saved'[t].time <= clock'
      <3>1. saved'[t].time \in {saved[t].time, clock, 0} /\ clock' >= clock
        BY <1>1, <2>1, SavedStep, Zenon DEF IndInv, Dated
      <3> QED BY <2>2, <3>1
    <2> QED BY <2>3, <2>4, <2>5, Zenon DEF Times
  <1>2. CASE UNCHANGED vars
    BY <1>2, Zenon DEF IndInv, Times, vars
  <1> QED BY <1>1, <1>2, Zenon

\* the types of the variables that control the operations
Control ==
  /\ pc \in [Threads -> Pcs] /\ sem \in [Files -> {0, 1}]
  /\ holding_lock \in [Procs -> BOOLEAN] /\ pstate \in [Procs -> {"down", "init", "up"}]
  /\ path \in [Procs -> Files]

LEMMA ControlTypes == TypeOK => Control
  BY Zenon DEF TypeOK, Control

(***************************************************************************)
(* Threads and processes                                                   *)
(***************************************************************************)
LEMMA ActiveUpStep == IndInv /\ [Next]_vars => ActiveUp'
PROOF
  <1> SUFFICES ASSUME IndInv, [Next]_vars PROVE ActiveUp'
    BY Zenon
  <1> USE ConstantsAssumption
  <1>t. TypeOK /\ ActiveUp
    BY Zenon DEF IndInv
  <1>1. ASSUME NEW t \in Threads, ThreadStep(t) PROVE ActiveUp'
    <2>1. Frame(t)
      BY <1>t, <1>1, ThreadFrame, Zenon
    <2>2. pc[t] # "idle"
      BY <1>1, Zenon DEF ThreadStep, Operate, file_sync, LOCK, LockTimeout, UNLOCKPost, UNLOCKClear,
                  OperateFails, OperateOnCopy, ReloadCopy, OperateOnFile, file_rollback_restore,
                  SyncTruncate, SyncRefused, SyncDump, SyncDumpFails, SyncStamp
    <2> QED BY <1>t, <2>1, <2>2 DEF ActiveUp, Frame
  <1>2. ASSUME NEW t \in Threads, NEW r \in Requests, Begin(t, r) PROVE ActiveUp'
    <2>1. Frame(t)
      BY <1>t, <1>2, ThreadFrame, Zenon
    <2>2. pstate[ProcOf[t]] = "up"
      BY <1>2, Zenon DEF Begin
    <2> QED BY <1>t, <2>1, <2>2 DEF ActiveUp, Frame
  <1>3. ASSUME NEW p \in Procs, ncds_file_init(p) PROVE ActiveUp'
    <2>1. pc' = pc /\ pstate[p] = "down"
      BY <1>3, Zenon DEF ncds_file_init, threadVars
    <2>2. \E x : pstate' = [pstate EXCEPT ![p] = x]
      BY <1>3, Zenon DEF ncds_file_init
    <2> QED BY <1>t, <2>1, <2>2 DEF ActiveUp, TypeOK
  <1>4. ASSUME NEW p \in Procs, InitFrame(p) PROVE ActiveUp'
    BY <1>t, <1>4, Zenon DEF ActiveUp, TypeOK, InitFrame, threadVars
  <1>5. ASSUME NEW p \in Procs, ncds_file_free(p) PROVE ActiveUp'
    BY <1>t, <1>5, Zenon DEF ActiveUp, TypeOK, ncds_file_free, threadVars
  <1>6. ASSUME NEW p \in Procs, Crash(p) PROVE ActiveUp'
    BY <1>t, <1>6, Zenon DEF ActiveUp, TypeOK, Crash
  <1>7. CASE Tick
    BY <1>t, <1>7, Zenon DEF ActiveUp, Tick, threadVars
  <1>8. CASE UNCHANGED vars
    BY <1>t, <1>8, Zenon DEF ActiveUp, vars
  <1> QED BY <1>1, <1>2, <1>3, <1>4, <1>5, <1>6, <1>7, <1>8, Zenon DEF Next, ProcStep

\* How a step of thread t moves it through the operation, with what it does
\* to the semaphore and the flag.
LEMMA ThreadMoves ==
  ASSUME TypeOK, NEW t \in Threads, ThreadStep(t) \/ \E r \in Requests : Begin(t, r)
  PROVE  \/ /\ pc[t] \in {"idle", "wait"} /\ pc'[t] \in {"idle", "wait"}
            /\ sem' = sem /\ holding_lock' = holding_lock
         \/ /\ pc[t] = "wait" /\ pc'[t] = "body" /\ sem[File(t)] = 1 /\ sem'[File(t)] = 0
            /\ holding_lock'[ProcOf[t]]
         \/ InCS(t) /\ InCS(t)' /\ pc'[t] # "body" /\ sem' = sem
         \/ /\ pc[t] = "post" /\ pc'[t] = "clear" /\ holding_lock' = holding_lock
         \/ /\ pc[t] = "clear" /\ pc'[t] \in {"idle", "wait"} /\ sem' = sem
            /\ ~holding_lock'[ProcOf[t]]
PROOF
  <1> USE ConstantsAssumption DEF File, InCS
  <1>1. Control
    BY ControlTypes, Zenon
  <1>2. ASSUME NEW r \in Requests, Begin(t, r)
        PROVE /\ pc[t] = "idle" /\ pc'[t] = "wait" /\ sem' = sem /\ holding_lock' = holding_lock
    BY <1>1, <1>2, Zenon DEF Control, Begin
  <1>3. ASSUME LOCK(t)
        PROVE /\ pc[t] = "wait" /\ pc'[t] = "body" /\ sem[File(t)] = 1 /\ sem'[File(t)] = 0
              /\ holding_lock'[ProcOf[t]]
    BY <1>1, <1>3, Zenon DEF Control, LOCK
  <1>4. ASSUME LockTimeout(t)
        PROVE /\ pc[t] = "wait" /\ pc'[t] \in {"idle", "wait"}
              /\ sem' = sem /\ holding_lock' = holding_lock
    BY <1>4, FinishFrame, Zenon DEF LockTimeout
  <1>5. ASSUME UNLOCKPost(t)
        PROVE pc[t] = "post" /\ pc'[t] = "clear" /\ holding_lock' = holding_lock
    BY <1>1, <1>5, Zenon DEF Control, UNLOCKPost
  <1>6. ASSUME UNLOCKClear(t)
        PROVE /\ pc[t] = "clear" /\ pc'[t] \in {"idle", "wait"} /\ sem' = sem
              /\ ~holding_lock'[ProcOf[t]]
    BY <1>1, <1>6, FinishFrame, Zenon DEF Control, UNLOCKClear
  <1>7. ASSUME Operate(t)
        PROVE InCS(t) /\ InCS(t)' /\ pc'[t] # "body" /\ sem' = sem
    <2>1. CASE OperateFails(t) \/ ReloadCopy(t)
      BY <1>1, <2>1 DEF Control, OperateFails, ReloadCopy, ToPost
    <2>2. CASE OperateOnCopy(t) \/ OperateOnFile(t)
      BY <2>2, ApplyFrame, Zenon DEF OperateOnCopy, OperateOnFile
    <2>3. CASE file_rollback_restore(t)
      BY <1>1, <2>3, Zenon DEF Control, file_rollback_restore
    <2> QED BY <1>7, <2>1, <2>2, <2>3, Zenon DEF Operate
  <1>8. ASSUME file_sync(t)
        PROVE InCS(t) /\ InCS(t)' /\ pc'[t] # "body" /\ sem' = sem
    BY <1>1, <1>8, Zenon DEF Control, file_sync, SyncTruncate, SyncRefused, SyncDump, SyncDumpFails,
                SyncStamp, SyncRest, ToPost
  <1> QED BY <1>2, <1>3, <1>4, <1>5, <1>6, <1>7, <1>8, Zenon DEF ThreadStep

LEMMA HoldingStep == IndInv /\ [Next]_vars => HoldingInv'
PROOF
  <1> SUFFICES ASSUME IndInv, [Next]_vars, NEW p \in Procs,
                      holding_lock'[p], pstate'[p] # "down"
               PROVE  \E t \in Threads : ProcOf[t] = p /\ (InCS(t)' \/ pc'[t] = "clear")
    BY Zenon DEF HoldingInv
  <1> USE ConstantsAssumption
  <1>t. TypeOK /\ HoldingInv /\ ActiveUp
    BY Zenon DEF IndInv
  <1>c. Control
    BY <1>t, ControlTypes, Zenon
  <1>1. ASSUME NEW u \in Threads, ThreadStep(u) \/ \E r \in Requests : Begin(u, r)
        PROVE  \E t \in Threads : ProcOf[t] = p /\ (InCS(t)' \/ pc'[t] = "clear")
    <2>1. Frame(u)
      BY <1>t, <1>1, ThreadFrame, Zenon
    <2>2. CASE p # ProcOf[u]
      <3>1. PICK t \in Threads : ProcOf[t] = p /\ (InCS(t) \/ pc[t] = "clear")
        BY <1>t, <2>1, <2>2, Zenon DEF Frame, HoldingInv
      <3>2. pc'[t] = pc[t]
        BY <2>1, <2>2, <3>1, Zenon DEF Frame
      <3> QED BY <3>1, <3>2, Zenon DEF InCS
    <2>3. CASE p = ProcOf[u] /\ holding_lock'[p] = holding_lock[p] /\
               ((InCS(u) \/ pc[u] = "clear") => (InCS(u)' \/ pc'[u] = "clear"))
      <3>1. PICK t \in Threads : ProcOf[t] = p /\ (InCS(t) \/ pc[t] = "clear")
        BY <1>t, <2>1, <2>3, Zenon DEF Frame, HoldingInv
      <3>2. t = u \/ pc'[t] = pc[t]
        BY <2>1, Zenon DEF Frame
      <3> QED BY <2>3, <3>1, <3>2, Zenon DEF InCS
    <2>4. CASE p = ProcOf[u] /\ InCS(u)'
      BY <2>4, Zenon
    <2> QED BY <1>t, <1>1, <2>2, <2>3, <2>4, ThreadMoves, Zenon DEF InCS
  <1>2. ASSUME NEW q \in Procs, ncds_file_init(q)
        PROVE  \E t \in Threads : ProcOf[t] = p /\ (InCS(t)' \/ pc'[t] = "clear")
    <2>1. p # q
      BY <1>t, <1>c, <1>2, Zenon DEF ncds_file_init, Control
    <2>2. pc' = pc /\ holding_lock'[p] = holding_lock[p] /\ pstate'[p] = pstate[p]
      BY <1>t, <1>c, <1>2, <2>1 DEF ncds_file_init, Control, threadVars
    <2> QED BY <1>t, <2>2, Zenon DEF HoldingInv, InCS
  <1>3. ASSUME NEW q \in Procs, InitFrame(q)
        PROVE  \E t \in Threads : ProcOf[t] = p /\ (InCS(t)' \/ pc'[t] = "clear")
    BY <1>t, <1>c, <1>3 DEF HoldingInv, InCS, InitFrame, Control, threadVars
  <1>4. ASSUME NEW q \in Procs, ncds_file_free(q)
        PROVE  \E t \in Threads : ProcOf[t] = p /\ (InCS(t)' \/ pc'[t] = "clear")
    BY <1>t, <1>c, <1>4 DEF HoldingInv, InCS, ncds_file_free, Control, threadVars
  <1>5. ASSUME NEW q \in Procs, Crash(q)
        PROVE  \E t \in Threads : ProcOf[t] = p /\ (InCS(t)' \/ pc'[t] = "clear")
    BY <1>t, <1>c, <1>5 DEF HoldingInv, InCS, Crash, Control
  <1>6. CASE Tick
    BY <1>t, <1>6 DEF HoldingInv, InCS, Tick, threadVars
  <1>7. CASE UNCHANGED vars
    BY <1>t, <1>7 DEF HoldingInv, InCS, vars
  <1> QED BY <1>1, <1>2, <1>3, <1>4, <1>5, <1>6, <1>7, Zenon DEF Next, ProcStep

(***************************************************************************)
(* Mutual exclusion                                                        *)
(***************************************************************************)
\* A process that starts or stops does not touch the operation of a running
\* thread: the threads of a process that is down are idle, ncds_file_free
\* has no flag left to act on, and the semaphores are recreated only when
\* every process is down.
LEMMA ProcFrame ==
  ASSUME IndInv, NEW p \in Procs, ProcStep(p)
  PROVE  /\ clock' = clock
         /\ \A t \in Threads :
              pc'[t] # "idle" =>
                /\ pc'[t] = pc[t] /\ req'[t] = req[t] /\ reply'[t] = reply[t]
                /\ File(t)' = File(t)
                /\ sem'[File(t)] = sem[File(t)]
                /\ xml'[ProcOf[t]] = xml[ProcOf[t]] /\ dirty'[ProcOf[t]] = dirty[ProcOf[t]]
PROOF
  <1> USE ConstantsAssumption DEF File
  <1>t. TypeOK /\ ActiveUp /\ HoldingInv
    BY Zenon DEF IndInv
  <1>1. CASE ncds_file_init(p)
    <2>1. /\ clock' = clock /\ pc' = pc /\ req' = req /\ reply' = reply
          /\ pstate[p] = "down"
      BY <1>1, Zenon DEF ncds_file_init, threadVars
    <2>2. \A q \in Procs \ {p} : xml'[q] = xml[q] /\ path'[q] = path[q] /\ dirty'[q] = dirty[q]
      <3>1. \E x : xml' = [xml EXCEPT ![p] = x]
        BY <1>1, Zenon DEF ncds_file_init
      <3>2. \E x : path' = [path EXCEPT ![p] = x]
        BY <1>1, Zenon DEF ncds_file_init
      <3>3. dirty' = [dirty EXCEPT ![p] = FALSE]
        BY <1>1, Zenon DEF ncds_file_init
      <3> QED BY <1>t, <3>1, <3>2, <3>3, Zenon DEF TypeOK
    <2>3. ASSUME NEW t \in Threads, pc'[t] # "idle"
          PROVE  ProcOf[t] # p /\ sem' = sem
      <3>1. pstate[ProcOf[t]] = "up" /\ ProcOf[t] \in Procs
        BY <1>t, <2>1, <2>3, Zenon DEF ActiveUp
      <3> QED BY <1>1, <2>1, <3>1, Zenon DEF ncds_file_init, FirstAfterClose
    <2> QED BY <2>1, <2>2, <2>3, Zenon
  <1>2. CASE InitFrame(p)
    BY <1>2, Zenon DEF InitFrame, copyVars, threadVars
  <1>3. CASE ncds_file_free(p)
    <2>1. ~holding_lock[p]
      BY <1>t, <1>3, Zenon DEF HoldingInv, ncds_file_free, InCS
    <2> QED BY <1>3, <2>1, Zenon DEF ncds_file_free, copyVars, threadVars
  <1>4. CASE Crash(p)
    BY <1>t, <1>4, Zenon DEF Crash, copyVars, TypeOK
  <1> QED BY <1>1, <1>2, <1>3, <1>4, Zenon DEF ProcStep

LEMMA MutexStep == IndInv /\ [Next]_vars => MutualExclusion'
PROOF
  <1> SUFFICES ASSUME IndInv, [Next]_vars PROVE MutualExclusion'
    BY Zenon
  <1> USE ConstantsAssumption
  <1>t. TypeOK /\ MutualExclusion
    BY Zenon DEF IndInv
  <1>1. ASSUME NEW u \in Threads, ThreadStep(u) \/ \E r \in Requests : Begin(u, r)
        PROVE  MutualExclusion'
    <2>f. Frame(u)
      BY <1>t, <1>1, ThreadFrame, Zenon
    <2>m. \A t \in Threads : File(t)' = File(t) /\ (t # u => (InCS(t)' <=> InCS(t)))
      BY <2>f, Zenon DEF Frame, File, InCS
    <2>o. \A t \in Threads : File(t) \in Files
      BY <1>t, Zenon DEF TypeOK, File
    <2>1. CASE ~InCS(u)' /\ sem' = sem
      BY <1>t, <2>1, <2>m, Zenon DEF MutualExclusion
    <2>2. CASE InCS(u) /\ sem' = sem
      BY <1>t, <2>2, <2>m, Zenon DEF MutualExclusion
    <2>3. CASE sem[File(u)] = 1 /\ sem'[File(u)] = 0
      <3>1. \A t \in Threads : InCS(t) => File(t) # File(u)
        BY <1>t, <2>3 DEF MutualExclusion
      <3>2. \A t \in Threads : InCS(t) => sem'[File(t)] = 0
        BY <1>t, <2>f, <2>o, <3>1, Zenon DEF MutualExclusion, Frame
      <3> QED BY <1>t, <2>3, <2>m, <3>1, <3>2, Zenon DEF MutualExclusion
    <2>4. CASE pc[u] = "post" /\ pc'[u] = "clear"
      <3>1. \A t \in Threads : InCS(t)' => InCS(t) /\ File(t) # File(u)
        BY <1>t, <2>4, <2>m, Zenon DEF MutualExclusion, InCS
      <3>2. \A t \in Threads : InCS(t)' => sem'[File(t)] = 0
        BY <1>t, <2>f, <2>o, <3>1, Zenon DEF MutualExclusion, Frame
      <3> QED BY <1>t, <2>m, <3>1, <3>2, Zenon DEF MutualExclusion
    <2> QED BY <1>t, <1>1, <2>1, <2>2, <2>3, <2>4, ThreadMoves, Zenon DEF InCS
  <1>2. ASSUME NEW p \in Procs, ProcStep(p) PROVE MutualExclusion'
    <2>1. \A t \in Threads : InCS(t)' =>
             InCS(t) /\ File(t)' = File(t) /\ sem'[File(t)] = sem[File(t)]
      BY <1>2, ProcFrame, Zenon DEF InCS
    <2> QED BY <1>t, <2>1, Zenon DEF MutualExclusion
  <1>3. CASE Tick
    BY <1>t, <1>3, Zenon DEF MutualExclusion, InCS, File, Tick, copyVars, threadVars
  <1>4. CASE UNCHANGED vars
    BY <1>t, <1>4, Zenon DEF MutualExclusion, InCS, File, vars
  <1> QED BY <1>1, <1>2, <1>3, <1>4, Zenon DEF Next

(***************************************************************************)
(* The copy and the file                                                   *)
(***************************************************************************)
\* Outside the section between LOCK and UNLOCK no copy and no file changes.
LEMMA QuietOutside ==
  ASSUME TypeOK, NEW u \in Threads, ThreadStep(u) \/ \E r \in Requests : Begin(u, r),
         pc[u] \notin {"body", "reload", "sync", "dump", "stamp"}
  PROVE  UNCHANGED <<disk, mtime, xml, last_access, dirty>>
PROOF
  <1>1. ASSUME NEW r \in Requests, Begin(u, r)
        PROVE UNCHANGED <<disk, mtime, xml, last_access, dirty>>
    BY <1>1, Zenon DEF Begin, fileVars, copyVars
  <1>2. ASSUME LOCK(u) \/ LockTimeout(u) \/ UNLOCKPost(u) \/ UNLOCKClear(u)
        PROVE UNCHANGED <<disk, mtime, xml, last_access, dirty>>
    BY <1>2, Zenon DEF LOCK, LockTimeout, UNLOCKPost, UNLOCKClear, fileVars, copyVars
  <1>3. ~Operate(u) /\ ~file_sync(u)
    BY Zenon DEF Operate, file_sync, OperateFails, OperateOnCopy, ReloadCopy, OperateOnFile,
           file_rollback_restore, SyncTruncate, SyncRefused, SyncDump, SyncDumpFails, SyncStamp
  <1> QED BY <1>1, <1>2, <1>3, Zenon DEF ThreadStep

\* A step of another thread, or of a process, leaves the copy and the file of
\* a thread that is in the section alone.
LEMMA OthersQuiet ==
  ASSUME IndInv, NEW t \in Threads, InCS(t), NEW u \in Threads \ {t},
         ThreadStep(u) \/ \E r \in Requests : Begin(u, r)
  PROVE  /\ pc'[t] = pc[t] /\ req'[t] = req[t] /\ reply'[t] = reply[t]
         /\ File(t)' = File(t) /\ raced' = raced
         /\ xml'[ProcOf[t]] = xml[ProcOf[t]] /\ dirty'[ProcOf[t]] = dirty[ProcOf[t]]
         /\ disk'[File(t)] = disk[File(t)]
PROOF
  <1> USE ConstantsAssumption
  <1>t. TypeOK /\ MutualExclusion
    BY Zenon DEF IndInv
  <1>f. Frame(u)
    BY <1>t, ThreadFrame, Zenon
  <1>1. /\ pc'[t] = pc[t] /\ req'[t] = req[t] /\ reply'[t] = reply[t]
        /\ File(t)' = File(t) /\ raced' = raced
    BY <1>f, Zenon DEF Frame, File
  <1>2. CASE InCS(u)
    <2>1. File(t) # File(u) /\ File(t) \in Files
      BY <1>t, <1>2, Zenon DEF MutualExclusion, TypeOK, File
    <2>2. ProcOf[t] # ProcOf[u]
      BY <2>1, Zenon DEF File
    <2> QED BY <1>f, <1>1, <2>1, <2>2, Zenon DEF Frame
  <1>3. CASE ~InCS(u)
    BY <1>t, <1>1, <1>3, QuietOutside, Zenon DEF InCS
  <1> QED BY <1>2, <1>3, Zenon

=============================================================================
