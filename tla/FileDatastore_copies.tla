------------------------ MODULE FileDatastore_copies ------------------------
(***************************************************************************)
(* The conjuncts of the inductive invariant of FileDatastore on the copies.*)
(***************************************************************************)
EXTENDS FileDatastore_frames

\* what a process may do to the files of others
LEMMA ProcFiles ==
  ASSUME IndInv, NEW p \in Procs, ProcStep(p)
  PROVE  /\ raced \subseteq raced'
         /\ \A f \in Files \ raced' :
              \/ disk'[f] = disk[f] /\ mtime'[f] = mtime[f]
              \/ ~Usable(f) /\ disk'[f].doc = disk[f].doc /\ mtime'[f] \in {mtime[f], clock}
              \/ /\ sem[f] = 1 /\ mtime'[f] = clock
                 /\ \/ disk[f].st = "empty" /\ disk'[f].doc = file_create_xmlframe
                    \/ disk'[f].doc = disk[f].doc
PROOF
  <1> USE ConstantsAssumption
  <1>t. TypeOK
    BY Zenon DEF IndInv
  <1>1. CASE ncds_file_init(p)
    <2>1. PICK g \in Files :
            IF Usable(g)
            THEN UNCHANGED <<disk, mtime>>
            ELSE /\ disk' = [disk EXCEPT ![g] = [disk[g] EXCEPT !.st = "empty"]]
                 /\ mtime' = IF disk[g].st = "absent" THEN [mtime EXCEPT ![g] = clock] ELSE mtime
      BY <1>1, Zenon DEF ncds_file_init
    <2>2. raced' = raced
      BY <1>1, Zenon DEF ncds_file_init
    <2>3. CASE Usable(g)
      BY <2>1, <2>2, <2>3, Zenon
    <2>4. CASE ~Usable(g)
      <3>1. disk' = [disk EXCEPT ![g] = [disk[g] EXCEPT !.st = "empty"]]
        BY <2>1, <2>4, Zenon
      <3>2. mtime' = mtime \/ mtime' = [mtime EXCEPT ![g] = clock]
        BY <2>1, <2>4, Zenon
      <3>3. [disk[g] EXCEPT !.st = "empty"].doc = disk[g].doc
        BY <1>t DEF TypeOK
      <3>4. \A f \in Files \ {g} : disk'[f] = disk[f] /\ mtime'[f] = mtime[f]
        BY <1>t, <3>1, <3>2, Zenon DEF TypeOK
      <3>5. disk'[g].doc = disk[g].doc /\ mtime'[g] \in {mtime[g], clock}
        BY <1>t, <3>1, <3>2, <3>3, Zenon DEF TypeOK
      <3> QED BY <2>2, <2>4, <3>4, <3>5, Zenon
    <2> QED BY <2>3, <2>4, Zenon
  <1>2. CASE InitFrame(p)
    <2> DEFINE f == path[p]
               clean == \/ disk[f].st = "empty"
                        \/ disk[f].st = "ok" /\ disk[f].doc = file_create_xmlframe
    <2>1. /\ \A g \in Files \ {f} : disk'[g] = disk[g] /\ mtime'[g] = mtime[g]
          /\ raced \subseteq raced'
          /\ f \in Files
      BY <1>t, <1>2, Zenon DEF InitFrame, TypeOK
    <2>2. CASE clean /\ sem[f] = 1
      <3>1. disk' = [disk EXCEPT ![f] = [st |-> "ok", doc |-> file_create_xmlframe]]
        BY <1>2, <2>2, Zenon DEF InitFrame
      <3>2. disk'[f].doc = file_create_xmlframe /\ mtime'[f] = clock
        BY <1>t, <1>2, <2>1, <3>1 DEF InitFrame, TypeOK
      <3> QED BY <2>1, <2>2, <3>2, Zenon
    <2>3. CASE ~(clean /\ sem[f] = 1)
      <3>1. f \in raced'
        BY <1>2, <2>3, Zenon DEF InitFrame
      <3> QED BY <2>1, <3>1, Zenon
    <2> QED BY <2>2, <2>3, Zenon
  <1>3. CASE ncds_file_free(p) \/ Crash(p)
    BY <1>3, Zenon DEF ncds_file_free, Crash, fileVars
  <1> QED BY <1>1, <1>2, <1>3, Zenon DEF ProcStep

LEMMA StampingStep == IndInv /\ [Next]_vars => Stamping'
PROOF
  <1> SUFFICES ASSUME IndInv, [Next]_vars, NEW t \in Threads,
                      pc'[t] = "stamp", File(t)' \notin raced'
               PROVE  Current(ProcOf[t])'
    BY Zenon DEF Stamping
  <1> USE ConstantsAssumption
  <1>t. TypeOK /\ Stamping /\ MutualExclusion
    BY Zenon DEF IndInv
  <1>1. CASE ThreadStep(t) \/ \E r \in Requests : Begin(t, r)
    <2>1. SyncDump(t)
      <3>1. ~(\E r \in Requests : Begin(t, r)) /\ ~LOCK(t) /\ ~UNLOCKPost(t) /\ ~Operate(t)
        <4>1. CASE Operate(t)
          <5>1. CASE OperateFails(t) \/ ReloadCopy(t) \/ file_rollback_restore(t)
            <6>1. \E x \in {"post", "reload", "sync"} : pc' = [pc EXCEPT ![t] = x]
              BY <5>1, Zenon DEF OperateFails, ReloadCopy, file_rollback_restore, ToPost
            <6>2. pc \in [Threads -> Pcs]
              BY <1>t, Zenon DEF TypeOK
            <6> QED BY <6>1, <6>2, Zenon
          <5>2. CASE OperateOnCopy(t) \/ OperateOnFile(t)
            BY <1>t, <5>2, ApplyFrame, Zenon DEF OperateOnCopy, OperateOnFile
          <5> QED BY <4>1, <5>1, <5>2, Zenon DEF Operate
        <4> QED BY <1>t, <4>1 DEF TypeOK, Begin, LOCK, UNLOCKPost
      <3>2. ~LockTimeout(t) /\ ~UNLOCKClear(t)
        BY <1>t, FinishFrame, Zenon DEF LockTimeout, UNLOCKClear
      <3>3. file_sync(t)
        BY <1>1, <3>1, <3>2, Zenon DEF ThreadStep
      <3> QED BY <1>t, <3>3 DEF TypeOK, file_sync, SyncTruncate, SyncRefused, SyncDumpFails,
                                SyncStamp, ToPost
    <2>2. /\ disk' = [disk EXCEPT ![File(t)] = [st |-> "ok", doc |-> xml[ProcOf[t]]]]
          /\ path' = path /\ xml' = xml
      BY <2>1, Zenon DEF SyncDump, SyncRest, File
    <2> QED BY <1>t, <2>2, Zenon DEF Current, Usable, File, TypeOK
  <1>2. ASSUME NEW u \in Threads \ {t}, ThreadStep(u) \/ \E r \in Requests : Begin(u, r)
        PROVE  Current(ProcOf[t])'
    <2>1. pc[t] = "stamp"
      BY <1>t, <1>2, ThreadFrame DEF Frame
    <2>2. /\ File(t)' = File(t) /\ raced' = raced /\ xml'[ProcOf[t]] = xml[ProcOf[t]]
          /\ disk'[File(t)] = disk[File(t)]
      BY <1>2, <2>1, OthersQuiet, Zenon DEF InCS
    <2> QED BY <1>t, <2>1, <2>2, Zenon DEF Stamping, Current, Usable, File
  <1>3. ASSUME NEW p \in Procs, ProcStep(p) PROVE Current(ProcOf[t])'
    <2>1. /\ pc[t] = "stamp" /\ File(t)' = File(t) /\ xml'[ProcOf[t]] = xml[ProcOf[t]]
      BY <1>3, ProcFrame, Zenon
    <2>2. File(t) \in Files \ raced' /\ File(t) \notin raced
      BY <1>t, <1>3, <2>1, ProcFiles, Zenon DEF TypeOK, File
    <2>3. Current(ProcOf[t]) /\ sem[File(t)] = 0
      BY <1>t, <2>1, <2>2, Zenon DEF Stamping, MutualExclusion, InCS
    <2>4. disk'[File(t)] = disk[File(t)]
      BY <1>3, <2>2, <2>3, ProcFiles DEF Current, File
    <2> QED BY <2>1, <2>3, <2>4, Zenon DEF Current, Usable, File
  <1>4. CASE Tick \/ UNCHANGED vars
    BY <1>t, <1>4, Zenon DEF Stamping, Current, Usable, File, Tick, vars, fileVars, copyVars, threadVars
  <1> QED BY <1>1, <1>2, <1>3, <1>4, Zenon DEF Next

\* What Apply leaves in the copy: the document it was given when no
\* file_sync follows, otherwise one of its results (or, on freed nodes, the
\* document itself).  Without file_sync only a read is reported as done.
LEMMA ApplyCopy ==
  ASSUME TypeOK, NEW t \in Threads, NEW d, NEW valid \in BOOLEAN, Apply(t, d, valid),
         req[t].op # "rollback"
  PROVE  /\ pc'[t] # "sync" => xml'[ProcOf[t]] = d
         /\ xml'[ProcOf[t]] = d \/ xml'[ProcOf[t]] \in Results(d, req[t])
         /\ pc'[t] # "sync" /\ req[t].op \notin ReadOps =>
              reply'[t] \in {"denied", "error", "undefined"}
PROOF
  <1> USE ConstantsAssumption
  <1>1. PICK o \in (IF valid THEN Outcomes(d, req[t]) ELSE Undefined(d)) :
          /\ xml' = [xml EXCEPT ![ProcOf[t]] = o.doc]
          /\ reply' = [reply EXCEPT ![t] = o.reply]
          /\ pc' = [pc EXCEPT ![t] = IF o.sync THEN "sync" ELSE "post"]
    BY Zenon DEF Apply
  <1>2. xml'[ProcOf[t]] = o.doc /\ reply'[t] = o.reply /\ (pc'[t] # "sync" => ~o.sync)
    BY <1>1, Zenon DEF TypeOK
  <1>3. CASE valid
    <2>1. o \in Outcomes(d, req[t]) /\ req[t] \in AnyRequest
      BY <1>1, <1>3, Zenon DEF TypeOK, AnyRequest
    <2>2. ~o.sync => /\ o.doc = d
                     /\ req[t].op \notin ReadOps => o.reply \in {"denied", "error"}
      BY <2>1, UnsyncedUnchanged, Zenon
    <2>3. o.doc \in Results(d, req[t])
      BY <2>1, Zenon DEF Results
    <2> QED BY <1>2, <2>2, <2>3, Zenon
  <1>4. CASE ~valid
    <2>1. o.doc = d /\ o.reply = "undefined"
      BY <1>1, <1>4 DEF Undefined, Refused, Changed
    <2> QED BY <1>2, <2>1, Zenon
  <1> QED BY <1>3, <1>4, Zenon

\* A thread about to operate on the copy finds it current.
LEMMA BodyCurrent ==
  ASSUME IndInv, NEW t \in Threads, pc[t] = "body", NotModified(ProcOf[t]),
         ~dirty[ProcOf[t]], File(t) \notin raced
  PROVE  Current(ProcOf[t])
PROOF
  <1> USE ConstantsAssumption
  <1>t. TypeOK /\ MutualExclusion /\ ActiveUp /\ Fresh
    BY Zenon DEF IndInv
  <1>1. pstate[ProcOf[t]] = "up"
    BY <1>t, Zenon DEF ActiveUp
  <1>2. \A u \in Threads : ProcOf[u] = ProcOf[t] => pc[u] # "sync"
    BY <1>t, Zenon DEF MutualExclusion, InCS, File
  <1>3. mtime[path[ProcOf[t]]] >= last_access[ProcOf[t]] \/ Current(ProcOf[t])
    BY <1>t, <1>1, <1>2, Zenon DEF Fresh, File
  <1>4. mtime[path[ProcOf[t]]] \in Nat /\ last_access[ProcOf[t]] \in Nat
    BY <1>t, Zenon DEF TypeOK
  <1> QED BY <1>3, <1>4 DEF NotModified

LEMMA PendingStep == IndInv /\ [Next]_vars => Pending'
PROOF
  <1> SUFFICES ASSUME IndInv, [Next]_vars, NEW t \in Threads,
                      pc'[t] \in {"sync", "dump"}, req'[t].op # "rollback",
                      File(t)' \notin raced', ~dirty'[ProcOf[t]]
               PROVE  \/ xml'[ProcOf[t]] = disk'[File(t)'].doc
                      \/ xml'[ProcOf[t]] \in Results(disk'[File(t)'].doc, req'[t])
    BY Zenon DEF Pending, File, Results
  <1> USE ConstantsAssumption
  <1>t. TypeOK /\ Pending /\ MutualExclusion
    BY Zenon DEF IndInv
  <1>1. CASE ThreadStep(t) \/ \E r \in Requests : Begin(t, r)
    <2>f. File(t)' = File(t) /\ raced' = raced
      BY <1>t, <1>1, ThreadFrame, Zenon DEF Frame, File
    <2>1. ASSUME NEW d, NEW valid \in BOOLEAN, Apply(t, d, valid), d = disk[File(t)].doc,
                 req[t].op # "rollback"
          PROVE  \/ xml'[ProcOf[t]] = disk'[File(t)'].doc
                 \/ xml'[ProcOf[t]] \in Results(disk'[File(t)'].doc, req'[t])
      <3>1. disk' = disk /\ req' = req
        BY <1>t, <2>1, ApplyFrame, Zenon
      <3>2. xml'[ProcOf[t]] = d \/ xml'[ProcOf[t]] \in Results(d, req[t])
        BY <1>t, <2>1, ApplyCopy
      <3> QED BY <2>f, <2>1, <3>1, <3>2, Zenon
    <2>2. CASE OperateOnCopy(t)
      <3>1. /\ pc[t] = "body" /\ NotModified(ProcOf[t]) /\ req[t].op # "rollback"
            /\ Apply(t, xml[ProcOf[t]], dsnodes[ProcOf[t]]) /\ dirty' = dirty
        BY <2>2, Zenon DEF OperateOnCopy
      <3>2. xml[ProcOf[t]] = disk[File(t)].doc
        BY <2>f, <3>1, BodyCurrent, Zenon DEF Current, File
      <3>3. dsnodes[ProcOf[t]] \in BOOLEAN
        BY <1>t, Zenon DEF TypeOK
      <3> QED BY <2>1, <3>1, <3>2, <3>3, Zenon
    <2>3. CASE OperateOnFile(t)
      <3>1. Apply(t, disk[File(t)].doc, TRUE) /\ req[t].op # "rollback"
        BY <2>3, Zenon DEF OperateOnFile, File
      <3> QED BY <2>1, <3>1, Zenon
    <2>4. CASE SyncTruncate(t)
      <3>1. /\ pc[t] = "sync" /\ xml' = xml /\ req' = req /\ dirty' = dirty
        BY <2>4, Zenon DEF SyncTruncate, SyncRest
      <3>2. disk'[File(t)].doc = disk[File(t)].doc
        <4>1. PICK st \in {"empty", "torn"} :
                disk' = [disk EXCEPT ![File(t)] = [disk[File(t)] EXCEPT !.st = st]]
          BY <2>4, Zenon DEF SyncTruncate, File
        <4>2. File(t) \in Files /\ [disk[File(t)] EXCEPT !.st = st].doc = disk[File(t)].doc
          BY <1>t DEF TypeOK, File
        <4>3. disk'[File(t)] = [disk[File(t)] EXCEPT !.st = st]
          BY <1>t, <4>1, <4>2, Zenon DEF TypeOK
        <4> QED BY <4>2, <4>3, Zenon
      <3> QED BY <1>t, <2>f, <3>1, <3>2, Zenon DEF Pending
    <2>5. ~file_rollback_restore(t)
      BY Zenon DEF file_rollback_restore
    <2>6. /\ ~OperateFails(t) /\ ~ReloadCopy(t)
          /\ ~SyncRefused(t) /\ ~SyncDump(t) /\ ~SyncDumpFails(t) /\ ~SyncStamp(t)
      BY <1>t DEF TypeOK, OperateFails, ReloadCopy, SyncRefused, SyncDump, SyncDumpFails, SyncStamp, ToPost
    <2>7. ~(\E r \in Requests : Begin(t, r)) /\ ~LOCK(t) /\ ~UNLOCKPost(t)
      BY <1>t DEF TypeOK, Begin, LOCK, UNLOCKPost
    <2>8. ~LockTimeout(t) /\ ~UNLOCKClear(t)
      BY <1>t, FinishFrame, Zenon DEF LockTimeout, UNLOCKClear
    <2> QED BY <1>1, <2>2, <2>3, <2>4, <2>5, <2>6, <2>7, <2>8, Zenon DEF ThreadStep, Operate, file_sync
  <1>2. ASSUME NEW u \in Threads \ {t}, ThreadStep(u) \/ \E r \in Requests : Begin(u, r)
        PROVE  \/ xml'[ProcOf[t]] = disk'[File(t)'].doc
               \/ xml'[ProcOf[t]] \in Results(disk'[File(t)'].doc, req'[t])
    <2>1. pc[t] = pc'[t]
      BY <1>t, <1>2, ThreadFrame DEF Frame
    <2>2. /\ File(t)' = File(t) /\ raced' = raced /\ xml'[ProcOf[t]] = xml[ProcOf[t]]
          /\ disk'[File(t)] = disk[File(t)] /\ req'[t] = req[t]
          /\ dirty'[ProcOf[t]] = dirty[ProcOf[t]]
      BY <1>2, <2>1, OthersQuiet, Zenon DEF InCS
    <2> QED BY <1>t, <2>1, <2>2, Zenon DEF Pending
  <1>3. ASSUME NEW p \in Procs, ProcStep(p)
        PROVE  \/ xml'[ProcOf[t]] = disk'[File(t)'].doc
               \/ xml'[ProcOf[t]] \in Results(disk'[File(t)'].doc, req'[t])
    <2>1. /\ pc[t] = pc'[t] /\ File(t)' = File(t) /\ xml'[ProcOf[t]] = xml[ProcOf[t]]
          /\ req'[t] = req[t] /\ dirty'[ProcOf[t]] = dirty[ProcOf[t]]
      BY <1>3, ProcFrame, Zenon
    <2>2. File(t) \in Files \ raced' /\ File(t) \notin raced
      BY <1>t, <1>3, <2>1, ProcFiles, Zenon DEF TypeOK, File
    <2>3. sem[File(t)] = 0
      BY <1>t, <2>1, Zenon DEF MutualExclusion, InCS
    <2>4. disk'[File(t)].doc = disk[File(t)].doc
      BY <1>3, <2>2, <2>3, ProcFiles
    <2> QED BY <1>t, <2>1, <2>2, <2>4, Zenon DEF Pending
  <1>4. CASE Tick \/ UNCHANGED vars
    BY <1>t, <1>4, Zenon DEF Pending, File, Tick, vars, fileVars, copyVars, threadVars
  <1> QED BY <1>1, <1>2, <1>3, <1>4, Zenon DEF Next

LEMMA FreshStep == IndInv /\ [Next]_vars => Fresh'
PROOF
  <1> SUFFICES ASSUME IndInv, [Next]_vars, NEW p \in Procs,
                      pstate'[p] = "up", path'[p] \notin raced', ~dirty'[p],
                      \A t \in Threads : ProcOf[t] = p => pc'[t] # "sync"
               PROVE  mtime'[path'[p]] >= last_access'[p] \/ Current(p)'
    BY Zenon DEF Fresh
  <1> USE ConstantsAssumption
  <1> DEFINE Goal == mtime'[path'[p]] >= last_access'[p] \/ Current(p)'
  <1>t. TypeOK /\ Fresh /\ Stamping /\ Times
    BY Zenon DEF IndInv
  <1>n. /\ clock \in Nat /\ path[p] \in Files
        /\ last_access[p] \in Nat /\ mtime[path[p]] \in Nat /\ last_access[p] <= clock
    BY <1>t, Zenon DEF TypeOK, Times
  \* nothing that matters to p changes, except that its file may be written
  <1>same. ASSUME pstate[p] = "up", path'[p] = path[p], path[p] \notin raced,
                  xml'[p] = xml[p], last_access'[p] = last_access[p], dirty'[p] = dirty[p],
                  \A t \in Threads : ProcOf[t] = p => pc[t] # "sync",
                  \/ disk'[path[p]] = disk[path[p]] /\ mtime'[path[p]] = mtime[path[p]]
                  \/ mtime'[path[p]] = clock
                  \/ ~Usable(path[p]) /\ mtime'[path[p]] \in {mtime[path[p]], clock}
           PROVE  Goal
    <2>1. mtime[path[p]] >= last_access[p] \/ Current(p)
      BY <1>t, <1>same, Zenon DEF Fresh
    <2>2. CASE disk'[path[p]] = disk[path[p]] /\ mtime'[path[p]] = mtime[path[p]]
      BY <1>same, <2>1, <2>2, Zenon DEF Current, Usable
    <2>3. CASE mtime'[path[p]] = clock
      BY <1>n, <1>same, <2>3, Zenon
    <2>4. CASE ~Usable(path[p]) /\ mtime'[path[p]] \in {mtime[path[p]], clock}
      BY <1>n, <1>same, <2>1, <2>4, Zenon DEF Current
    <2> QED BY <1>same, <2>2, <2>3, <2>4, Zenon
  <1>1. ASSUME NEW u \in Threads, ThreadStep(u) \/ \E r \in Requests : Begin(u, r) PROVE Goal
    <2>f. Frame(u)
      BY <1>t, <1>1, ThreadFrame, Zenon
    <2>p. /\ pstate[p] = "up" /\ path'[p] = path[p] /\ path[p] \notin raced
          /\ \A t \in Threads \ {u} : ProcOf[t] = p => pc[t] # "sync"
      BY <2>f DEF Frame
    <2>1. CASE pc[u] \notin {"body", "reload", "sync", "dump", "stamp"}
      <3>1. UNCHANGED <<disk, mtime, xml, last_access, dirty>>
        BY <1>t, <1>1, <2>1, QuietOutside, Zenon
      <3> QED BY <1>same, <2>p, <2>1, <3>1, Zenon
    <2>2. CASE pc[u] \in {"body", "reload", "sync", "dump", "stamp"} /\ ProcOf[u] # p
      <3>1. /\ xml'[p] = xml[p] /\ last_access'[p] = last_access[p] /\ dirty'[p] = dirty[p]
        BY <2>f, <2>2, Zenon DEF Frame
      <3>2. \A t \in Threads : ProcOf[t] = p => pc[t] # "sync"
        BY <2>p, <2>2, Zenon
      <3>3. \/ disk' = disk /\ mtime' = mtime
            \/ mtime' = [mtime EXCEPT ![File(u)] = clock]
        <4>1. CASE Operate(u)
          BY <1>t, <4>1, ApplyFrame, Zenon DEF Operate, OperateFails, OperateOnCopy, ReloadCopy, OperateOnFile,
                                        file_rollback_restore, fileVars
        <4>2. CASE file_sync(u)
          BY <4>2, Zenon DEF file_sync, SyncTruncate, SyncRefused, SyncDump, SyncDumpFails, SyncStamp, File
        <4>3. Operate(u) \/ file_sync(u)
          BY <1>1, <2>2, Zenon DEF ThreadStep, Begin, LOCK, LockTimeout, UNLOCKPost, UNLOCKClear
        <4> QED BY <4>1, <4>2, <4>3, Zenon
      <3>4. \/ disk'[path[p]] = disk[path[p]] /\ mtime'[path[p]] = mtime[path[p]]
            \/ mtime'[path[p]] = clock
        BY <1>t, <1>n, <2>f, <3>3, Zenon DEF TypeOK, Frame
      <3> QED BY <1>same, <2>p, <3>1, <3>2, <3>4, Zenon
    <2>3. CASE pc[u] \in {"body", "reload", "sync", "dump", "stamp"} /\ ProcOf[u] = p
      <3>1. CASE OperateFails(u) \/ ReloadCopy(u)
        BY <1>same, <2>p, <2>3, <3>1, Zenon DEF OperateFails, ReloadCopy, fileVars, copyVars
      <3>2. CASE OperateOnCopy(u)
        <4>1. /\ pc[u] = "body" /\ NotModified(p) /\ req[u].op # "rollback"
              /\ Apply(u, xml[p], dsnodes[p]) /\ dirty' = dirty /\ dsnodes[p] \in BOOLEAN
          BY <1>t, <2>3, <3>2, Zenon DEF OperateOnCopy, TypeOK
        <4>2. Current(p)
          BY <2>3, <2>p, <4>1, BodyCurrent, Zenon DEF File
        <4>3. xml'[p] = xml[p]
          BY <1>t, <2>3, <4>1, ApplyCopy
        <4>4. disk' = disk
          BY <1>t, <4>1, ApplyFrame, Zenon
        <4> QED BY <2>p, <4>2, <4>3, <4>4, Zenon DEF Current, Usable
      <3>3. CASE OperateOnFile(u)
        <4>1. /\ req[u].op # "rollback" /\ Apply(u, disk[path[p]].doc, TRUE) /\ Usable(path[p])
          BY <2>3, <3>3, Zenon DEF OperateOnFile
        <4>2. xml'[p] = disk[path[p]].doc
          BY <1>t, <2>3, <4>1, ApplyCopy, Zenon
        <4>3. disk' = disk
          BY <1>t, <4>1, ApplyFrame, Zenon
        <4> QED BY <2>p, <4>1, <4>2, <4>3, Zenon DEF Current, Usable
      <3>4. CASE file_rollback_restore(u)
        <4>1. pc'[u] = "sync"
          BY <1>t, <3>4, Zenon DEF file_rollback_restore, TypeOK
        <4> QED BY <2>3, <4>1, Zenon
      <3>5. CASE SyncTruncate(u) \/ SyncDump(u) \/ SyncDumpFails(u)
        <4>1. /\ mtime' = [mtime EXCEPT ![path[p]] = clock] /\ last_access' = last_access
          BY <2>3, <3>5, Zenon DEF SyncTruncate, SyncDump, SyncDumpFails
        <4>2. mtime'[path[p]] = clock
          BY <1>t, <1>n, <4>1, Zenon DEF TypeOK
        <4> QED BY <1>n, <2>p, <4>1, <4>2, Zenon
      <3>6. CASE SyncRefused(u)
        BY <1>t, <2>3, <3>6, Zenon DEF SyncRefused, TypeOK
      <3>7. CASE SyncStamp(u)
        <4>1. pc[u] = "stamp" /\ disk' = disk /\ xml' = xml
          BY <3>7, Zenon DEF SyncStamp, SyncRest
        <4>2. Current(p)
          BY <1>t, <2>3, <2>p, <4>1, Zenon DEF Stamping, File
        <4> QED BY <2>p, <4>1, <4>2, Zenon DEF Current, Usable
      <3>8. Operate(u) \/ file_sync(u)
        BY <1>1, <2>3, Zenon DEF ThreadStep, Begin, LOCK, LockTimeout, UNLOCKPost, UNLOCKClear
      <3> QED BY <3>1, <3>2, <3>3, <3>4, <3>5, <3>6, <3>7, <3>8, Zenon DEF Operate, file_sync
    <2> QED BY <2>1, <2>2, <2>3, Zenon
  <1>2. ASSUME NEW q \in Procs, ProcStep(q) PROVE Goal
    <2>1. CASE ncds_file_init(q) /\ q = p
      <3>1. last_access'[p] = 0
        BY <1>t, <2>1, Zenon DEF ncds_file_init, TypeOK
      <3>2. mtime'[path'[p]] \in Nat
        BY TypeStep, Zenon DEF TypeOK
      <3> QED BY <3>1, <3>2
    <2>2. CASE ~(ncds_file_init(q) /\ q = p) /\ pstate[p] = "up"
      <3>1. /\ xml'[p] = xml[p] /\ last_access'[p] = last_access[p] /\ dirty'[p] = dirty[p]
            /\ path'[p] = path[p]
        <4>1. CASE ncds_file_init(q)
          <5>1. q # p
            BY <2>2, <4>1, Zenon
          <5>2. (\E x : xml' = [xml EXCEPT ![q] = x]) /\ (\E x : path' = [path EXCEPT ![q] = x])
            <6>1. \E x : xml' = [xml EXCEPT ![q] = x]
              BY <4>1, Zenon DEF ncds_file_init
            <6>2. \E x : path' = [path EXCEPT ![q] = x]
              BY <4>1, Zenon DEF ncds_file_init
            <6> QED BY <6>1, <6>2, Zenon
          <5>3. /\ last_access' = [last_access EXCEPT ![q] = 0]
                /\ dirty' = [dirty EXCEPT ![q] = FALSE]
            BY <4>1, Zenon DEF ncds_file_init
          <5> QED BY <1>t, <5>1, <5>2, <5>3, Zenon DEF TypeOK
        <4>2. CASE InitFrame(q) \/ ncds_file_free(q) \/ Crash(q)
          BY <4>2, Zenon DEF InitFrame, ncds_file_free, Crash, copyVars
        <4> QED BY <1>2, <4>1, <4>2, Zenon DEF ProcStep
      <3>2. path[p] \notin raced /\ path[p] \in Files \ raced'
        BY <1>2, <1>n, <3>1, ProcFiles, Zenon
      <3>3. \A t \in Threads : ProcOf[t] = p => pc[t] # "sync"
        <4>1. CASE Crash(q) /\ q = p
          BY <1>t, <4>1, Zenon DEF Crash, TypeOK
        <4>2. CASE ~(Crash(q) /\ q = p)
          BY <1>t, <1>2, <4>2 DEF ProcStep, ncds_file_init, InitFrame, ncds_file_free, Crash,
                                  threadVars, TypeOK
        <4> QED BY <4>1, <4>2, Zenon
      <3>4. \/ disk'[path[p]] = disk[path[p]] /\ mtime'[path[p]] = mtime[path[p]]
            \/ mtime'[path[p]] = clock
            \/ ~Usable(path[p]) /\ mtime'[path[p]] \in {mtime[path[p]], clock}
        BY <1>2, <3>2, ProcFiles, Zenon
      <3> QED BY <1>same, <2>2, <3>1, <3>2, <3>3, <3>4, Zenon
    <2>3. CASE pstate[p] # "up" /\ ~(ncds_file_init(q) /\ q = p)
      <3>1. InitFrame(q) /\ q = p
        <4>1. \/ pstate' = [pstate EXCEPT ![q] = "down"] \/ InitFrame(q) \/ ncds_file_init(q)
          BY <1>2, Zenon DEF ProcStep, ncds_file_free, Crash
        <4>2. \E x : pstate' = [pstate EXCEPT ![q] = x]
          BY <1>2, Zenon DEF ProcStep, ncds_file_free, Crash, ncds_file_init, InitFrame
        <4> QED BY <1>t, <2>3, <4>1, <4>2, Zenon DEF TypeOK
      <3>2. mtime'[path[p]] = clock /\ path' = path /\ last_access' = last_access
        BY <1>t, <1>n, <3>1, Zenon DEF InitFrame, copyVars, TypeOK
      <3> QED BY <1>n, <3>2, Zenon
    <2> QED BY <2>1, <2>2, <2>3, Zenon
  <1>3. CASE Tick \/ UNCHANGED vars
    BY <1>same, <1>3, Zenon DEF Tick, vars, fileVars, copyVars, threadVars
  <1> QED BY <1>1, <1>2, <1>3, Zenon DEF Next

=============================================================================
