------------------------ MODULE FileDatastore_proofs ------------------------
(***************************************************************************)
(* Theorems about FileDatastore, for any number of processes, threads,     *)
(* sessions, files and configuration nodes, and any bounds.                *)
(***************************************************************************)
EXTENDS FileDatastore_copies

(***************************************************************************)
(* The theorems                                                            *)
(***************************************************************************)
LEMMA InitInd == Init => IndInv
PROOF
  <1> SUFFICES ASSUME Init PROVE IndInv
    BY Zenon
  <1> USE ConstantsAssumption
  <1>1. TypeOK
    BY InitType, Zenon
  <1>2. MutualExclusion /\ ActiveUp /\ HoldingInv /\ Stamping /\ Pending
    BY Zenon DEF Init, MutualExclusion, ActiveUp, HoldingInv, Stamping, Pending, InCS
  <1>3. Times
    BY DEF Init, Times, NothingSaved
  <1>4. Fresh
    <2>1. /\ mtime = [f \in Files |-> 0] /\ last_access = [p \in Procs |-> 0]
          /\ \A p \in Procs : path[p] \in Files
      BY Zenon DEF Init
    <2> QED BY <2>1 DEF Fresh
  <1> QED BY <1>1, <1>2, <1>3, <1>4, Zenon DEF IndInv

\* The inductive invariant holds in every reachable state, whatever requests
\* the sessions make and whenever processes start, stop, crash and time out.
THEOREM Invariance == Spec => []IndInv
PROOF
  <1>1. IndInv /\ [Next]_vars => IndInv'
    BY TypeStep, MutexStep, TimesStep, ActiveUpStep, HoldingStep, FreshStep, StampingStep,
       PendingStep, Zenon DEF IndInv
  <1> QED BY <1>1, InitInd, PTL DEF Spec

\* Type correctness; in particular the semaphore of LOCK and UNLOCK stays
\* binary in spite of the additional post of ncds_file_free.
THEOREM TypeCorrect == Spec => []TypeOK
PROOF
  <1>1. IndInv => TypeOK
    BY Zenon DEF IndInv
  <1> QED BY <1>1, Invariance, PTL

\* LOCK and UNLOCK serialize the access to each datastore file, for any
\* number of processes and threads.
THEOREM Mutex == Spec => []MutualExclusion
PROOF
  <1>1. IndInv => MutualExclusion
    BY Zenon DEF IndInv
  <1> QED BY <1>1, Invariance, PTL

\* file_reload never keeps a copy that another process made out of date.
THEOREM CopyCurrent == Spec => []CopyIsCurrent
PROOF
  <1>1. IndInv => CopyIsCurrent
    BY BodyCurrent, Zenon DEF CopyIsCurrent, Current, File
  <1> QED BY <1>1, Invariance, PTL

(***************************************************************************)
(* Updates and locks                                                       *)
(***************************************************************************)
\* The document of a file changes only where file_sync dumps the copy, or
\* where ncds_file_init fills an empty file.
LEMMA Writers ==
  ASSUME IndInv, Next, NEW f \in Files \ raced', disk'[f].doc # disk[f].doc
  PROVE  \/ /\ disk[f].st = "empty" /\ disk'[f].doc = file_create_xmlframe
            /\ \E p \in Procs : pstate[p] = "init"
         \/ \E t \in Threads : SyncDump(t) /\ File(t) = f
PROOF
  <1> USE ConstantsAssumption
  <1>t. TypeOK /\ MutualExclusion
    BY Zenon DEF IndInv
  <1>1. ASSUME NEW u \in Threads, ThreadStep(u) \/ \E r \in Requests : Begin(u, r)
        PROVE  SyncDump(u) /\ File(u) = f
    <2>1. File(u) = f /\ disk' # disk
      BY <1>t, <1>1, ThreadFrame DEF Frame
    <2>2. pc[u] \in {"body", "reload", "sync", "dump", "stamp"}
      BY <1>t, <1>1, <2>1, QuietOutside, Zenon
    <2>3. ~Operate(u)
      BY <1>t, <2>1, ApplyFrame, Zenon DEF Operate, OperateFails, OperateOnCopy, ReloadCopy, OperateOnFile,
                                    file_rollback_restore, fileVars
    <2>4. file_sync(u)
      BY <1>1, <2>2, <2>3, Zenon DEF ThreadStep, Begin, LOCK, LockTimeout, UNLOCKPost, UNLOCKClear
    <2>5. ~SyncRefused(u) /\ ~SyncStamp(u)
      BY <2>1, Zenon DEF SyncRefused, SyncStamp
    <2>6. ~SyncTruncate(u) /\ ~SyncDumpFails(u)
      <3>1. ASSUME NEW st, disk' = [disk EXCEPT ![f] = [disk[f] EXCEPT !.st = st]]
            PROVE  FALSE
        <4>1. [disk[f] EXCEPT !.st = st].doc = disk[f].doc
          BY <1>t DEF TypeOK
        <4>2. disk'[f] = [disk[f] EXCEPT !.st = st]
          BY <1>t, <3>1, Zenon DEF TypeOK
        <4> QED BY <4>1, <4>2, Zenon
      <3>2. (SyncTruncate(u) \/ SyncDumpFails(u)) =>
               \E st : disk' = [disk EXCEPT ![f] = [disk[f] EXCEPT !.st = st]]
        BY <2>1, Zenon DEF SyncTruncate, SyncDumpFails, File
      <3> QED BY <3>1, <3>2, Zenon
    <2> QED BY <2>1, <2>4, <2>5, <2>6, Zenon DEF file_sync
  <1>2. ASSUME NEW p \in Procs, ProcStep(p)
        PROVE  /\ disk[f].st = "empty" /\ disk'[f].doc = file_create_xmlframe
               /\ pstate[p] = "init"
    <2>1. disk[f].st = "empty" /\ disk'[f].doc = file_create_xmlframe
      BY <1>2, ProcFiles, Zenon
    <2>2. ~ncds_file_init(p)
      <3>1. ASSUME NEW g \in Files, disk' = [disk EXCEPT ![g] = [disk[g] EXCEPT !.st = "empty"]]
            PROVE  FALSE
        <4>1. [disk[f] EXCEPT !.st = "empty"].doc = disk[f].doc
          BY <1>t DEF TypeOK
        <4> QED BY <1>t, <3>1, <4>1, Zenon DEF TypeOK
      <3>2. ncds_file_init(p) =>
              \/ disk' = disk
              \/ \E g \in Files : disk' = [disk EXCEPT ![g] = [disk[g] EXCEPT !.st = "empty"]]
        BY Zenon DEF ncds_file_init
      <3> QED BY <3>1, <3>2, Zenon
    <2>3. ~ncds_file_free(p) /\ ~Crash(p)
      BY Zenon DEF ncds_file_free, Crash, fileVars
    <2> QED BY <1>2, <2>1, <2>2, <2>3, Zenon DEF ProcStep, InitFrame
  <1>3. CASE Tick
    BY <1>3, Zenon DEF Tick, fileVars
  <1> QED BY <1>1, <1>2, <1>3, Zenon DEF Next

\* what a dump writes
LEMMA DumpWrites ==
  ASSUME TypeOK, NEW t \in Threads, SyncDump(t)
  PROVE  /\ pc[t] = "dump" /\ pc'[t] = "stamp"
         /\ disk'[File(t)].doc = xml[ProcOf[t]]
         /\ raced' = raced
  BY ConstantsAssumption, Zenon DEF TypeOK, SyncDump, SyncRest, File

\* No update is lost: the dump of file_sync writes a result of its operation
\* on the document that was last in the file, whichever process wrote it.
THEOREM UpdatesKept == Spec => NoLostUpdate
PROOF
  <1> DEFINE Step == \A f \in Files \ raced' :
               disk'[f].doc # disk[f].doc =>
                 \/ disk[f].st = "empty" /\ disk'[f].doc = file_create_xmlframe
                 \/ \E t \in Threads :
                      /\ Dumps(t) /\ File(t) = f
                      /\ \/ req[t].op = "rollback" \/ dirty[ProcOf[t]]
                         \/ disk'[f].doc \in Results(disk[f].doc, req[t])
  <1>1. IndInv /\ [Next]_vars => [Step]_vars
    <2> SUFFICES ASSUME IndInv, Next PROVE Step
      BY Zenon
    <2>t. TypeOK /\ Pending
      BY Zenon DEF IndInv
    <2> SUFFICES ASSUME NEW f \in Files \ raced', disk'[f].doc # disk[f].doc,
                        ~(disk[f].st = "empty" /\ disk'[f].doc = file_create_xmlframe)
                 PROVE  \E t \in Threads :
                          /\ Dumps(t) /\ File(t) = f
                          /\ \/ req[t].op = "rollback" \/ dirty[ProcOf[t]]
                             \/ disk'[f].doc \in Results(disk[f].doc, req[t])
      BY Zenon
    <2>1. PICK t \in Threads : SyncDump(t) /\ File(t) = f
      BY Writers, Zenon
    <2>2. /\ pc[t] = "dump" /\ pc'[t] = "stamp" /\ disk'[f].doc = xml[ProcOf[t]] /\ f \notin raced
      BY <2>t, <2>1, DumpWrites, Zenon
    <2>3. \/ req[t].op = "rollback" \/ dirty[ProcOf[t]]
          \/ disk'[f].doc \in Results(disk[f].doc, req[t])
      BY <2>t, <2>1, <2>2, Zenon DEF Pending
    <2> QED BY <2>1, <2>2, <2>3, Zenon DEF Dumps
  <1> QED BY <1>1, Invariance, PTL DEF Spec, NoLostUpdate

\* An operation of one session changes neither the content nor the lock of a
\* datastore that file_ds_access denies it.
LEMMA LockedKept ==
  ASSUME NEW d \in Doc, NEW r \in AnyRequest, r.op # "rollback", NEW tg \in Targets,
         ~file_ds_access(d, tg, r.sid), NEW e \in Results(d, r)
  PROVE  e.cfg[tg] = d.cfg[tg] /\ e.lock[tg] = d.lock[tg]
PROOF
  <1> USE DocsAssumption, OutcomesByOp
  <1> DEFINE Kept(x) == x.cfg[tg] = d.cfg[tg] /\ x.lock[tg] = d.lock[tg]
  <1>o. PICK o \in Outcomes(d, r) : e = o.doc
    BY Zenon DEF Results
  <1>0. r.op \in Ops /\ r.tg \in Targets
    BY DEF AnyRequest, Request, NoRequest, Ops, ReadOps, RpcOps, StoreOps
  <1>d. d.cfg \in [Targets -> SUBSET Nodes] /\ d.lock \in [Targets -> Sessions \cup {NoSession}]
    BY Zenon DEF Doc
  <1>r. ASSUME NEW x, NEW why, o \in Refused(x, why) \/ o \in Changed(x, why), Kept(x)
        PROVE  Kept(e)
    BY <1>o, <1>r DEF Refused, Changed
  <1>k. Kept(d)
    BY Zenon
  <1>m. ASSUME NEW x, Kept(x), x \in Doc, NEW t2 \in Targets, NEW m PROVE Kept(Marked(x, t2, m))
    BY <1>m, Zenon DEF Marked, Doc
  <1>p. ASSUME NEW x \in Doc, Kept(x), NEW t2 \in Targets, t2 # tg, NEW c \in SUBSET Nodes, NEW m
        PROVE  Kept(Replaced(x, t2, c, m))
    <2>1. [x EXCEPT !.cfg[t2] = c] \in Doc /\ Kept([x EXCEPT !.cfg[t2] = c])
      BY <1>p, Zenon DEF Doc
    <2> QED BY <2>1, <1>m, Zenon DEF Replaced
  <1>l. ASSUME NEW t2 \in Targets, t2 # tg, NEW s \in Sessions \cup {NoSession}
        PROVE  [d EXCEPT !.lock[t2] = s] \in Doc /\ Kept([d EXCEPT !.lock[t2] = s])
    BY <1>l, Zenon DEF Doc
  <1>a. file_ds_access(d, r.tg, r.sid) => r.tg # tg
    BY Zenon
  <1>s. r.sid \in Sessions \cup {NoSession} /\ r.new \in SUBSET Nodes /\ r.src \in Targets \cup {"config"}
    BY DEF AnyRequest, Request, NoRequest
  <1>1. CASE r.op \in ReadOps
    BY <1>1, <1>o, <1>r, <1>k, Zenon
  <1>2. CASE r.op = "lock"
    <2>1. CASE ~file_ds_access(d, r.tg, NoSession) \/ (r.tg = "candidate" /\ d.modified)
      BY <1>2, <2>1, <1>r, <1>k, Zenon DEF ncds_file_lock
    <2>2. CASE ~(~file_ds_access(d, r.tg, NoSession) \/ (r.tg = "candidate" /\ d.modified))
      <3>1. r.tg # tg
        BY <2>2, Zenon DEF file_ds_access
      <3>2. o \in Changed([d EXCEPT !.lock[r.tg] = r.sid], "ok")
        BY <1>2, <2>2, Zenon DEF ncds_file_lock
      <3>3. Kept([d EXCEPT !.lock[r.tg] = r.sid])
        BY <1>0, <1>s, <1>l, <3>1, Zenon
      <3>4. Kept(e)
        <4> HIDE DEF Kept
        <4> QED BY <3>2, <3>3, <1>r, Zenon
      <3> QED BY <3>4, Zenon
    <2> QED BY <2>1, <2>2, Zenon
  <1>3. CASE r.op \in {"unlock", "breaklocks"}
    <2> DEFINE u == [d EXCEPT !.lock[r.tg] = NoSession]
               v == IF r.tg = "candidate" THEN Replaced(u, "candidate", d.cfg["running"], FALSE)
                                          ELSE u
    <2>1. \/ o \in Refused(d, "error")
          \/ o \in Changed(v, "ok") /\ file_ds_access(d, r.tg, r.sid)
      BY <1>3, Zenon DEF ncds_file_unlock
    <2>2. CASE o \in Refused(d, "error")
      BY <2>2, <1>r, <1>k, Zenon
    <2>3. CASE o \in Changed(v, "ok") /\ r.tg # tg
      <3>1. u \in Doc /\ Kept(u)
        BY <1>0, <1>l, <2>3, Zenon
      <3>2. d.cfg["running"] \in SUBSET Nodes
        BY <1>d, Zenon
      <3>3. Kept(v)
        <4>1. r.tg = "candidate" => Kept(Replaced(u, "candidate", d.cfg["running"], FALSE))
          <5> HIDE DEF Kept, u
          <5> QED BY <1>0, <1>p, <2>3, <3>1, <3>2, Zenon
        <4> QED BY <3>1, <4>1, Zenon
      <3> QED BY <2>3, <3>3, <1>r, Zenon
    <2> QED BY <2>1, <2>2, <2>3, <1>a, Zenon
  <1>4. CASE r.op = "copyconfig"
    <2>1. \/ o \in Refused(d, "denied") \/ o \in Refused(d, "error")
          \/ o \in Changed(Marked(d, r.tg, r.src # "running"), "notapplicable")
          \/ /\ \E c \in Copied(d, r) : o \in Changed(Replaced(d, r.tg, c, r.src # "running"), "ok")
             /\ file_ds_access(d, r.tg, r.sid)
      BY <1>4, CopyOutcome, Zenon
    <2>2. Copied(d, r) \subseteq SUBSET Nodes
      <3>1. r.src # "config" => d.cfg[r.src] \in SUBSET Nodes
        BY <1>d, <1>s, Zenon
      <3> QED BY <1>s, <3>1, Zenon DEF Copied
    <2>3. Kept(Marked(d, r.tg, r.src # "running"))
      BY <1>0, <1>k, <1>m, Zenon
    <2>4. r.tg # tg => \A c \in Copied(d, r) : Kept(Replaced(d, r.tg, c, r.src # "running"))
      <3> HIDE DEF Kept
      <3> QED BY <1>0, <1>k, <1>p, <2>2, Zenon
    <2> QED BY <1>a, <1>k, <1>r, <2>1, <2>3, <2>4, Zenon
  <1>5. CASE r.op = "deleteconfig"
    <2>1. \/ o \in Refused(d, "denied") \/ o \in Refused(d, "error")
          \/ o \in Changed(Replaced(d, r.tg, {}, TRUE), "ok") /\ file_ds_access(d, r.tg, r.sid)
      BY <1>5, Zenon DEF ncds_file_deleteconfig
    <2>2. r.tg # tg => Kept(Replaced(d, r.tg, {}, TRUE))
      <3> HIDE DEF Kept
      <3>1. {} \in SUBSET Nodes
        BY Zenon
      <3> QED BY <1>0, <1>k, <1>p, <3>1, Zenon
    <2> QED BY <1>a, <1>k, <1>r, <2>1, <2>2, Zenon
  <1>6. CASE r.op = "editconfig"
    <2>1. \/ o \in Refused(d, "denied") \/ o \in Refused(d, "error")
          \/ /\ \E c \in {d.cfg[r.tg] \cup r.new, d.cfg[r.tg] \ r.new} :
                   o \in Changed(Replaced(d, r.tg, c, TRUE), "ok")
             /\ file_ds_access(d, r.tg, r.sid)
      BY <1>6, ZenonT(40) DEF ncds_file_editconfig
    <2>2. \A c \in {d.cfg[r.tg] \cup r.new, d.cfg[r.tg] \ r.new} :
            r.tg # tg => Kept(Replaced(d, r.tg, c, TRUE))
      <3>1. \A c \in {d.cfg[r.tg] \cup r.new, d.cfg[r.tg] \ r.new} : c \in SUBSET Nodes
        BY <1>0, <1>d, <1>s, Zenon
      <3> HIDE DEF Kept
      <3> QED BY <1>0, <1>k, <1>p, <3>1, Zenon
    <2> QED BY <1>a, <1>k, <1>r, <2>1, <2>2, Zenon
  <1> QED BY <1>0, <1>1, <1>2, <1>3, <1>4, <1>5, <1>6, Zenon DEF Ops, ReadOps, RpcOps, StoreOps

\* A NETCONF lock protects its datastore against the sessions of every
\* process: what file_ds_access grants on the copy it would grant on the file.
THEOREM LocksKept == Spec => LocksRespected
PROOF
  <1> DEFINE Step == \A t \in Threads : \A tg \in Targets :
               /\ Dumps(t) /\ req[t].op # "rollback" /\ ~dirty[ProcOf[t]]
               /\ File(t) \notin raced
               /\ ~file_ds_access(disk[File(t)].doc, tg, req[t].sid)
               => /\ disk'[File(t)].doc.cfg[tg] = disk[File(t)].doc.cfg[tg]
                  /\ disk'[File(t)].doc.lock[tg] = disk[File(t)].doc.lock[tg]
  <1>1. IndInv /\ [Next]_vars => [Step]_vars
    <2> SUFFICES ASSUME IndInv, Next, NEW t \in Threads, NEW tg \in Targets,
                        Dumps(t), req[t].op # "rollback", ~dirty[ProcOf[t]],
                        File(t) \notin raced,
                        ~file_ds_access(disk[File(t)].doc, tg, req[t].sid)
                 PROVE  /\ disk'[File(t)].doc.cfg[tg] = disk[File(t)].doc.cfg[tg]
                        /\ disk'[File(t)].doc.lock[tg] = disk[File(t)].doc.lock[tg]
      BY Zenon
    <2>t. TypeOK /\ Pending /\ MutualExclusion
      BY Zenon DEF IndInv
    <2>y. File(t) \in Files /\ disk[File(t)].doc \in Doc /\ req[t] \in AnyRequest
      BY <2>t, ConstantsAssumption, Zenon DEF TypeOK, File, AnyRequest
    <2>1. CASE disk'[File(t)].doc = disk[File(t)].doc
      BY <2>1, Zenon
    <2>2. CASE disk'[File(t)].doc # disk[File(t)].doc
      <3>1. ASSUME NEW u \in Threads, SyncDump(u), File(u) = File(t) PROVE u = t
        BY <2>t, <3>1, Zenon DEF MutualExclusion, InCS, SyncDump, Dumps
      <3>2. \/ disk'[File(t)].doc = xml[ProcOf[t]]
            \/ \E p \in Procs : ProcStep(p)
        <4>1. ASSUME NEW u \in Threads, ThreadStep(u) \/ \E r \in Requests : Begin(u, r)
              PROVE  disk'[File(t)].doc = xml[ProcOf[t]]
          <5>1. raced' = raced
            BY <2>t, <4>1, ThreadFrame, Zenon DEF Frame
          <5>2. \E v \in Threads : SyncDump(v) /\ File(v) = File(t)
            <6>1. u = t
              BY <2>t, <4>1, ThreadFrame, Zenon DEF Frame, Dumps
            <6>2. ~(disk[File(t)].st = "empty" /\ ~SyncDump(t))
              <7>1. Operate(t) \/ file_sync(t)
                BY <4>1, <6>1, Zenon DEF ThreadStep, Begin, LOCK, LockTimeout, UNLOCKPost, UNLOCKClear, Dumps
              <7>2. SyncDump(t)
                BY <2>t, <7>1, Zenon DEF Operate, file_sync, OperateFails, OperateOnCopy, ReloadCopy, OperateOnFile,
                       file_rollback_restore, SyncTruncate, SyncRefused, SyncDumpFails, SyncStamp,
                       ToPost, Dumps, TypeOK
              <7> QED BY <7>2, Zenon
            <6> QED BY <2>y, <2>2, <5>1, <6>1, <6>2, Writers, Zenon
          <5> QED BY <2>t, <3>1, <5>2, DumpWrites, Zenon
        <4>2. ~Tick
          BY <2>2, Zenon DEF Tick, fileVars
        <4> QED BY <4>1, <4>2, Zenon DEF Next
      <3>3. ~\E p \in Procs : ProcStep(p)
        <4>1. ASSUME NEW p \in Procs, ProcStep(p) PROVE FALSE
          BY <4>1, ProcFrame, Zenon DEF Dumps
        <4> QED BY <4>1, Zenon
      <3>4. disk'[File(t)].doc \in Results(disk[File(t)].doc, req[t])
        BY <2>t, <2>2, <3>2, <3>3, Zenon DEF Pending, Dumps
      <3> QED BY <2>y, <3>4, LockedKept, Zenon
    <2> QED BY <2>1, <2>2, Zenon
  <1> QED BY <1>1, Invariance, PTL DEF Spec, LocksRespected

(***************************************************************************)
(* What the file holds                                                     *)
(***************************************************************************)
LEMMA AcknowledgedStep == IndInv /\ AcknowledgedIsStored /\ [Next]_vars => AcknowledgedIsStored'
PROOF
  <1> SUFFICES ASSUME IndInv, AcknowledgedIsStored, [Next]_vars, NEW t \in Threads,
                      pc'[t] = "post", reply'[t] \in {"ok", "notapplicable"},
                      req'[t].op \notin ReadOps, File(t)' \notin raced'
               PROVE  Current(ProcOf[t])'
    BY Zenon DEF AcknowledgedIsStored, Current, Usable, File
  <1> USE ConstantsAssumption
  <1>t. TypeOK /\ Stamping /\ MutualExclusion
    BY Zenon DEF IndInv
  <1>1. CASE ThreadStep(t) \/ \E r \in Requests : Begin(t, r)
    <2>1. CASE SyncStamp(t)
      <3>1. pc[t] = "stamp" /\ UNCHANGED <<disk, xml, path, raced>>
        BY <2>1, Zenon DEF SyncStamp, SyncRest
      <3> QED BY <1>t, <3>1, Zenon DEF Stamping, Current, Usable, File
    <2>2. ~OperateFails(t) /\ ~SyncRefused(t) /\ ~SyncDumpFails(t)
      BY <1>t, Zenon DEF TypeOK, OperateFails, SyncRefused, SyncDumpFails, ToPost
    <2>3. ~ReloadCopy(t) /\ ~file_rollback_restore(t) /\ ~SyncTruncate(t) /\ ~SyncDump(t)
      BY <1>t DEF TypeOK, ReloadCopy, file_rollback_restore, SyncTruncate, SyncDump
    <2>4. ~OperateOnCopy(t) /\ ~OperateOnFile(t)
      <3>1. ASSUME NEW d, NEW valid \in BOOLEAN, Apply(t, d, valid), req[t].op # "rollback"
            PROVE  FALSE
        BY <1>t, <3>1, ApplyCopy, ApplyFrame, Zenon
      <3>2. dsnodes[ProcOf[t]] \in BOOLEAN
        BY <1>t, Zenon DEF TypeOK
      <3> QED BY <3>1, <3>2, Zenon DEF OperateOnCopy, OperateOnFile
    <2>5. ~(\E r \in Requests : Begin(t, r)) /\ ~LOCK(t) /\ ~UNLOCKPost(t)
      BY <1>t DEF TypeOK, Begin, LOCK, UNLOCKPost
    <2>6. ~LockTimeout(t) /\ ~UNLOCKClear(t)
      BY <1>t, FinishFrame, Zenon DEF LockTimeout, UNLOCKClear
    <2> QED BY <1>1, <2>1, <2>2, <2>3, <2>4, <2>5, <2>6, Zenon DEF ThreadStep, Operate, file_sync
  <1>2. ASSUME NEW u \in Threads \ {t}, ThreadStep(u) \/ \E r \in Requests : Begin(u, r)
        PROVE  Current(ProcOf[t])'
    <2>1. pc[t] = "post"
      BY <1>t, <1>2, ThreadFrame DEF Frame
    <2>2. /\ File(t)' = File(t) /\ raced' = raced /\ xml'[ProcOf[t]] = xml[ProcOf[t]]
          /\ disk'[File(t)] = disk[File(t)] /\ reply'[t] = reply[t] /\ req'[t] = req[t]
      BY <1>2, <2>1, OthersQuiet, Zenon DEF InCS
    <2> QED BY <2>1, <2>2, Zenon DEF AcknowledgedIsStored, Current, Usable, File
  <1>3. ASSUME NEW p \in Procs, ProcStep(p) PROVE Current(ProcOf[t])'
    <2>1. /\ pc[t] = "post" /\ File(t)' = File(t) /\ xml'[ProcOf[t]] = xml[ProcOf[t]]
          /\ reply'[t] = reply[t] /\ req'[t] = req[t]
      BY <1>3, ProcFrame, Zenon
    <2>2. File(t) \in Files \ raced' /\ File(t) \notin raced
      BY <1>t, <1>3, <2>1, ProcFiles, Zenon DEF TypeOK, File
    <2>3. Current(ProcOf[t]) /\ sem[File(t)] = 0
      BY <1>t, <2>1, <2>2, Zenon DEF AcknowledgedIsStored, Current, File, MutualExclusion, InCS
    <2>4. disk'[File(t)] = disk[File(t)]
      <3>1. Usable(File(t)) /\ sem[File(t)] # 1
        BY <2>3 DEF Current, File
      <3> QED BY <1>3, <2>2, <3>1, ProcFiles, Zenon
    <2> QED BY <2>1, <2>3, <2>4, Zenon DEF Current, Usable, File
  <1>4. CASE Tick \/ UNCHANGED vars
    BY <1>4, Zenon DEF AcknowledgedIsStored, Current, Usable, File, Tick, vars, fileVars, copyVars,
                threadVars
  <1> QED BY <1>1, <1>2, <1>3, <1>4, Zenon DEF Next

\* What an operation reports as done is in the file when it gives the
\* semaphore back, whatever write failed and whichever process crashed.
THEOREM AcknowledgedStored == Spec => []AcknowledgedIsStored
PROOF
  <1>1. Init => AcknowledgedIsStored
    BY Zenon DEF Init, AcknowledgedIsStored
  <1> QED BY <1>1, AcknowledgedStep, Invariance, PTL DEF Spec

\* The reasons why a file may be incomplete when no fault happened: the frame
\* is about to be written, or some thread is between ftruncate and the dump.
Whole(f) == disk[f].st \in {"ok", "absent"}
Framed(f) == disk[f].st = "empty" /\ \E p \in Procs : pstate[p] = "init" /\ path[p] = f
Dumping(f) == \E t \in Threads : pc[t] = "dump" /\ File(t) = f

Explained ==
  nfault = 0 => \A f \in Files \ raced : Whole(f) \/ Framed(f) \/ Dumping(f)

LEMMA ExplainedStep == IndInv /\ Explained /\ [Next]_vars => Explained'
PROOF
  <1> SUFFICES ASSUME IndInv, Explained, [Next]_vars, nfault' = 0, NEW f \in Files \ raced'
               PROVE  Whole(f)' \/ Framed(f)' \/ Dumping(f)'
    BY Zenon DEF Explained
  <1> USE ConstantsAssumption
  <1>t. TypeOK /\ MutualExclusion
    BY Zenon DEF IndInv
  <1>n. nfault \in Nat
    BY <1>t, Zenon DEF TypeOK
  <1>same. ASSUME nfault' = nfault, f \notin raced, disk'[f].st = disk[f].st,
                  \A p \in Procs : pstate[p] = "init" => pstate'[p] = "init" /\ path'[p] = path[p],
                  \A t \in Threads : pc[t] = "dump" => pc'[t] = "dump" /\ File(t)' = File(t)
           PROVE  Whole(f)' \/ Framed(f)' \/ Dumping(f)'
    BY <1>same, Zenon DEF Explained, Whole, Framed, Dumping
  <1>1. ASSUME NEW u \in Threads, ThreadStep(u) \/ \E r \in Requests : Begin(u, r)
        PROVE  Whole(f)' \/ Framed(f)' \/ Dumping(f)'
    <2>f. Frame(u)
      BY <1>t, <1>1, ThreadFrame, Zenon
    <2>g. /\ f \notin raced /\ path' = path /\ pstate' = pstate
          /\ \A t \in Threads : File(t)' = File(t)
      BY <2>f, Zenon DEF Frame, File
    <2>1. CASE SyncTruncate(u) /\ File(u) = f
      <3>1. pc'[u] = "dump"
        BY <1>t, <2>1, Zenon DEF SyncTruncate, TypeOK
      <3> QED BY <2>1, <2>g, <3>1, Zenon DEF Dumping
    <2>2. CASE SyncDump(u) /\ File(u) = f
      <3>1. disk'[f].st = "ok"
        BY <1>t, <2>2, Zenon DEF SyncDump, TypeOK, File
      <3> QED BY <3>1, Zenon DEF Whole
    <2>3. ~SyncDumpFails(u)
      BY <1>n DEF SyncDumpFails
    <2>4. CASE (SyncTruncate(u) \/ SyncDump(u)) /\ File(u) # f
      <3>1. disk'[f] = disk[f] /\ nfault' = nfault
        BY <2>f, <2>4, Zenon DEF Frame, SyncTruncate, SyncDump
      <3>2. \A t \in Threads : t # u => pc'[t] = pc[t]
        BY <2>f, Zenon DEF Frame
      <3>3. pc[u] = "dump" => File(u) # f
        BY <2>4, Zenon
      <3> QED BY <2>g, <3>1, <3>2, <3>3, Zenon DEF Explained, Whole, Framed, Dumping
    <2>5. CASE ~SyncTruncate(u) /\ ~SyncDump(u)
      <3>1. disk' = disk /\ nfault' = nfault
        <4>1. CASE Operate(u)
          BY <1>t, <4>1, ApplyFrame, Zenon DEF Operate, OperateFails, OperateOnCopy, ReloadCopy,
             OperateOnFile, file_rollback_restore, fileVars, bounds, Apply
        <4>2. CASE SyncRefused(u) \/ SyncStamp(u)
          BY <1>n, <4>2 DEF SyncRefused, SyncStamp
        <4>3. CASE \/ LOCK(u) \/ LockTimeout(u) \/ UNLOCKPost(u) \/ UNLOCKClear(u)
                   \/ \E r \in Requests : Begin(u, r)
          BY <4>3, Zenon DEF LOCK, LockTimeout, UNLOCKPost, UNLOCKClear, Begin, fileVars, bounds
        <4> QED BY <1>1, <2>3, <2>5, <4>1, <4>2, <4>3, Zenon DEF ThreadStep, file_sync
      <3>2. pc[u] # "dump"
        BY <1>1, <2>3, <2>5, Zenon DEF ThreadStep, Operate, file_sync, Begin, LOCK, LockTimeout,
           UNLOCKPost, UNLOCKClear, OperateFails, OperateOnCopy, ReloadCopy, OperateOnFile,
           file_rollback_restore, SyncRefused, SyncStamp
      <3>3. \A t \in Threads : pc[t] = "dump" => pc'[t] = "dump"
        BY <2>f, <3>2, Zenon DEF Frame
      <3> QED BY <1>same, <2>g, <3>1, <3>3, Zenon
    <2> QED BY <2>1, <2>2, <2>4, <2>5, Zenon
  <1>2. ASSUME NEW q \in Procs, ncds_file_init(q)
        PROVE  Whole(f)' \/ Framed(f)' \/ Dumping(f)'
    <2>1. /\ nfault' = nfault /\ raced' = raced /\ pc' = pc /\ pstate[q] = "down"
      BY <1>2, Zenon DEF ncds_file_init, threadVars
    <2>2. PICK g \in Files :
            /\ path' = [path EXCEPT ![q] = g]
            /\ IF Usable(g)
               THEN pstate' = [pstate EXCEPT ![q] = "up"] /\ UNCHANGED <<disk, mtime>>
               ELSE /\ pstate' = [pstate EXCEPT ![q] = "init"]
                    /\ disk' = [disk EXCEPT ![g] = [disk[g] EXCEPT !.st = "empty"]]
      BY <1>2, Zenon DEF ncds_file_init
    <2>3. \A p \in Procs : pstate[p] = "init" => pstate'[p] = "init" /\ path'[p] = path[p]
      BY <1>t, <2>1, <2>2, Zenon DEF TypeOK
    <2>4. \A t \in Threads : pc[t] = "dump" => pc'[t] = "dump" /\ File(t)' = File(t)
      BY <1>t, <2>1, <2>2, Zenon DEF IndInv, ActiveUp, TypeOK, File
    <2>5. CASE Usable(g) \/ g # f
      <3>1. disk'[f].st = disk[f].st
        BY <1>t, <2>2, <2>5, Zenon DEF TypeOK
      <3> QED BY <1>same, <2>1, <2>3, <2>4, <3>1, Zenon
    <2>6. CASE ~Usable(g) /\ g = f
      <3>1. disk'[f].st = "empty" /\ pstate'[q] = "init" /\ path'[q] = f
        BY <1>t, <2>2, <2>6 DEF TypeOK
      <3> QED BY <3>1, Zenon DEF Framed
    <2> QED BY <2>5, <2>6, Zenon
  <1>3. ASSUME NEW q \in Procs, InitFrame(q)
        PROVE  Whole(f)' \/ Framed(f)' \/ Dumping(f)'
    <2> DEFINE g == path[q]
               clean == \/ disk[g].st = "empty"
                        \/ disk[g].st = "ok" /\ disk[g].doc = file_create_xmlframe
    <2>1. /\ nfault' = nfault /\ pc' = pc /\ path' = path /\ raced \subseteq raced'
          /\ pstate[q] = "init" /\ pstate' = [pstate EXCEPT ![q] = "up"]
      BY <1>3, Zenon DEF InitFrame, threadVars, copyVars, bounds
    <2>2. CASE f = g
      <3>1. clean
        BY <1>3, <2>2, Zenon DEF InitFrame
      <3>2. disk' = [disk EXCEPT ![g] = [st |-> "ok", doc |-> file_create_xmlframe]]
        BY <1>3, <3>1, Zenon DEF InitFrame
      <3>3. disk'[f].st = "ok"
        BY <1>t, <2>2, <3>2, Zenon DEF TypeOK
      <3> QED BY <3>3, Zenon DEF Whole
    <2>3. CASE f # g
      <3>1. disk'[f] = disk[f]
        BY <1>t, <1>3, <2>3, Zenon DEF InitFrame, TypeOK
      <3>2. \A p \in Procs : p # q => pstate'[p] = pstate[p]
        BY <1>t, <2>1, Zenon DEF TypeOK
      <3>3. \A p \in Procs : pstate[p] = "init" /\ path[p] = f => pstate'[p] = "init"
        BY <2>3, <3>2, Zenon
      <3> QED BY <2>1, <3>1, <3>3 DEF Explained, Whole, Framed, Dumping, File
    <2> QED BY <2>2, <2>3, Zenon
  <1>4. ASSUME NEW q \in Procs, ncds_file_free(q)
        PROVE  Whole(f)' \/ Framed(f)' \/ Dumping(f)'
    <2>1. /\ nfault' = nfault /\ raced' = raced /\ disk' = disk /\ pc' = pc /\ path' = path
          /\ pstate[q] = "up" /\ pstate' = [pstate EXCEPT ![q] = "down"]
      BY <1>4, Zenon DEF ncds_file_free, fileVars, copyVars, threadVars, bounds
    <2>2. \A p \in Procs : pstate[p] = "init" => pstate'[p] = "init"
      BY <1>t, <2>1, Zenon DEF TypeOK
    <2> QED BY <1>same, <2>1, <2>2, Zenon DEF File
  <1>5. \A q \in Procs : ~Crash(q)
    BY <1>n DEF Crash
  <1>6. CASE Tick \/ UNCHANGED vars
    BY <1>same, <1>6, Zenon DEF File, Tick, vars, fileVars, copyVars, threadVars, bounds
  <1> QED BY <1>1, <1>2, <1>3, <1>4, <1>5, <1>6, Zenon DEF Next, ProcStep

\* Without crashes and failed writes a reader that gets the semaphore finds a
\* complete file: every window in which file_sync has truncated it is closed
\* before UNLOCK.
THEOREM SettledComplete == Spec => []SettledFileIsComplete
PROOF
  <1>1. Init => Explained
    BY DEF Init, Explained, Whole
  <1>2. IndInv /\ Explained => SettledFileIsComplete
    BY DEF IndInv, MutualExclusion, InCS, Explained, Whole, Framed, Dumping, SettledFileIsComplete
  <1> QED BY <1>1, <1>2, ExplainedStep, Invariance, PTL DEF Spec

(***************************************************************************)
(* The refinement of the single document                                   *)
(***************************************************************************)
\* Conditions under which the datastore is one document: one thread per
\* process (another one could clear holding_lock between a change and its
\* file_sync), no rollbacks (they restore a whole document), no failing
\* writes, and no process that starts and writes a frame without LOCK.
Steady ==
  /\ \A t, u \in Threads : ProcOf[t] = ProcOf[u] => t = u
  /\ \A r \in Requests : r.undo = "none"
  /\ MaxFaults = 0 /\ MaxStarts = 0

\* q is a request of a session, or one turn of its ncds_break_locks
Asked(q) ==
  \E r \in Requests :
    q = r \/ (r.op = "breaklocks" /\ \E tg \in Targets : q = [r EXCEPT !.tg = tg])

SteadyInv ==
  /\ raced = {} /\ nfault = 0 /\ nstart = 0
  /\ \A p \in Procs : ~dirty[p] /\ path[p] = MainFile /\ pstate[p] # "init"
  /\ \A t \in Threads : InCS(t) => holding_lock[ProcOf[t]]
  /\ \A t \in Threads : pc[t] # "idle" => Asked(req[t])

\* a turn of ncds_break_locks leaves the rest of the request as it was
LEMMA AskedPlain ==
  ASSUME Steady, NEW q, Asked(q)
  PROVE  q.undo = "none" /\ q.op # "rollback" /\ q \in Request
  BY ConstantsAssumption, DocsAssumption, Zenon DEF Steady, Asked, Request

LEMMA AskedTurn ==
  ASSUME NEW q, Asked(q), q.op = "breaklocks", NEW tg \in Targets
  PROVE  Asked([q EXCEPT !.tg = tg])
PROOF
  <1>1. PICK r \in Requests :
          q = r \/ (r.op = "breaklocks" /\ \E x \in Targets : q = [r EXCEPT !.tg = x])
    BY Zenon DEF Asked
  <1>2. r \in Request
    BY ConstantsAssumption, Zenon
  <1>3. [q EXCEPT !.tg = tg] = [r EXCEPT !.tg = tg] /\ r.op = "breaklocks"
    BY <1>1, <1>2, Zenon DEF Request
  <1> QED BY <1>3, Zenon DEF Asked

\* An operation that ends is over, or ncds_break_locks goes on.
LEMMA FinishAsked ==
  ASSUME Steady, TypeOK, NEW t \in Threads, Asked(req[t]), NEW rep, Finish(t, rep)
  PROVE  pc'[t] # "idle" => Asked(req'[t])
PROOF
  <1>1. req[t].undo = "none"
    BY AskedPlain, Zenon
  <1> DEFINE rest == IF req[t].op = "breaklocks" THEN NextTargets(req[t].tg) ELSE {}
  <1>2. CASE rest # {}
    <2>1. req[t].op = "breaklocks"
      BY <1>2, Zenon
    <2>2. PICK tg \in rest : req' = [req EXCEPT ![t] = [req[t] EXCEPT !.tg = tg]]
      BY <1>2, Zenon DEF Finish
    <2>3. req[t] \in Request
      BY AskedPlain, Zenon
    <2>4. tg \in Targets
      <3>1. req[t].tg \in {"candidate", "running", "startup"}
        BY <2>3, DocsAssumption, Zenon DEF Request
      <3> QED BY <2>1, <3>1, DocsAssumption, Zenon DEF NextTargets
    <2>5. req'[t] = [req[t] EXCEPT !.tg = tg]
      BY <2>2, Zenon DEF TypeOK
    <2> QED BY <2>1, <2>4, <2>5, AskedTurn
  <1>3. CASE rest = {}
    <2>1. pc' = [pc EXCEPT ![t] = "idle"]
      BY <1>1, <1>3, Zenon DEF Finish
    <2> QED BY <2>1, Zenon DEF TypeOK
  <1> QED BY <1>2, <1>3, Zenon

\* What a step of thread t does to the parts of SteadyInv that are its own.
SteadyOwn(t) ==
  /\ ~dirty'[ProcOf[t]] /\ nfault' = 0 /\ nstart' = 0
  /\ InCS(t)' => holding_lock'[ProcOf[t]]
  /\ pc'[t] # "idle" => Asked(req'[t])

LEMMA SteadyThread ==
  ASSUME Steady, IndInv, SteadyInv, NEW t \in Threads,
         ThreadStep(t) \/ \E r \in Requests : Begin(t, r)
  PROVE  SteadyOwn(t)
PROOF
  <1> USE ConstantsAssumption
  <1>t. TypeOK
    BY Zenon DEF IndInv
  <1>o. /\ ~dirty[ProcOf[t]] /\ nfault = 0 /\ nstart = 0
        /\ InCS(t) => holding_lock[ProcOf[t]]
        /\ pc[t] # "idle" => Asked(req[t])
        /\ ~(nfault < MaxFaults)
    BY DEF SteadyInv, Steady
  <1>1. ASSUME NEW r \in Requests, Begin(t, r) PROVE SteadyOwn(t)
    <2>1. Asked(r) /\ (r.op = "breaklocks" => Asked([r EXCEPT !.tg = FirstTarget]))
      BY DocsAssumption, Zenon DEF Asked, FirstTarget
    <2>2. Asked(req'[t])
      BY <1>t, <1>1, <2>1 DEF Begin, TypeOK
    <2> QED BY <1>t, <1>o, <1>1, <2>2 DEF Begin, TypeOK, SteadyOwn, InCS, copyVars
  <1>2. CASE LOCK(t)
    BY <1>t, <1>o, <1>2, Zenon DEF LOCK, TypeOK, SteadyOwn, InCS, copyVars, bounds
  <1>3. CASE LockTimeout(t) \/ UNLOCKClear(t)
    <2>1. PICK rep : Finish(t, rep)
      BY <1>3, Zenon DEF LockTimeout, UNLOCKClear
    <2>2. pc[t] # "idle" /\ UNCHANGED <<dirty, nfault, nstart>>
      BY <1>3, Zenon DEF LockTimeout, UNLOCKClear, copyVars, bounds
    <2>3. pc'[t] # "idle" => Asked(req'[t])
      BY <1>t, <1>o, <2>1, <2>2, FinishAsked, Zenon
    <2>4. ~InCS(t)'
      BY <1>t, <2>1, FinishFrame, Zenon DEF InCS
    <2> QED BY <1>o, <2>2, <2>3, <2>4, Zenon DEF SteadyOwn
  <1>4. CASE UNLOCKPost(t)
    BY <1>t, <1>o, <1>4, Zenon DEF UNLOCKPost, TypeOK, SteadyOwn, InCS, copyVars, bounds
  <1>5. CASE OperateFails(t) \/ ReloadCopy(t) \/ file_rollback_restore(t)
    <2>1. /\ pc[t] \in {"body", "reload"}
          /\ UNCHANGED <<dirty, nfault, nstart, holding_lock, req>>
      BY <1>5, Zenon DEF OperateFails, ReloadCopy, file_rollback_restore, copyVars, bounds
    <2> QED BY <1>o, <2>1, Zenon DEF SteadyOwn, InCS
  <1>6. CASE OperateOnCopy(t)
    <2>1. /\ pc[t] = "body"
          /\ UNCHANGED <<dirty, nfault, nstart, holding_lock, req>>
      BY <1>6, Zenon DEF OperateOnCopy, Apply, bounds
    <2> QED BY <1>o, <2>1, Zenon DEF SteadyOwn, InCS
  <1>7. CASE OperateOnFile(t)
    <2>1. /\ pc[t] = "reload" /\ UNCHANGED <<nfault, nstart, req>>
          /\ holding_lock' = [holding_lock EXCEPT ![ProcOf[t]] = TRUE]
          /\ dirty' = [dirty EXCEPT ![ProcOf[t]] = FALSE]
      BY <1>7, Zenon DEF OperateOnFile, Apply, bounds
    <2> QED BY <1>t, <1>o, <2>1, Zenon DEF SteadyOwn, InCS, TypeOK
  <1>8. CASE SyncTruncate(t) \/ SyncStamp(t)
    <2>1. /\ pc[t] \in {"sync", "stamp"}
          /\ UNCHANGED <<dirty, nfault, nstart, holding_lock, req>>
      BY <1>8, Zenon DEF SyncTruncate, SyncStamp, SyncRest
    <2> QED BY <1>o, <2>1, Zenon DEF SteadyOwn, InCS
  <1>9. ~SyncRefused(t) /\ ~SyncDumpFails(t)
    BY <1>o, Zenon DEF SyncRefused, SyncDumpFails, InCS
  <1>10. CASE SyncDump(t)
    <2>1. /\ pc[t] = "dump" /\ UNCHANGED <<nfault, nstart, holding_lock, req>>
          /\ dirty' = [dirty EXCEPT ![ProcOf[t]] = FALSE]
      BY <1>10, Zenon DEF SyncDump, SyncRest
    <2> QED BY <1>t, <1>o, <2>1, Zenon DEF SteadyOwn, InCS, TypeOK
  <1> QED BY <1>1, <1>2, <1>3, <1>4, <1>5, <1>6, <1>7, <1>8, <1>9, <1>10, Zenon
          DEF ThreadStep, Operate, file_sync

LEMMA SteadyStep == Steady /\ IndInv /\ SteadyInv /\ [Next]_vars => SteadyInv'
PROOF
  <1> SUFFICES ASSUME Steady, IndInv, SteadyInv, [Next]_vars PROVE SteadyInv'
    BY Zenon
  <1> USE ConstantsAssumption
  <1>t. TypeOK
    BY Zenon DEF IndInv
  <1>1. ASSUME NEW u \in Threads, ThreadStep(u) \/ \E r \in Requests : Begin(u, r)
        PROVE  SteadyInv'
    <2>1. Frame(u) /\ SteadyOwn(u)
      BY <1>t, <1>1, ThreadFrame, SteadyThread, Zenon
    <2>2. \A t \in Threads \ {u} : ProcOf[t] # ProcOf[u]
      BY Zenon DEF Steady
    <2>3. raced' = {} /\ nfault' = 0 /\ nstart' = 0
      BY <2>1, Zenon DEF Frame, SteadyOwn, SteadyInv
    <2>4. \A p \in Procs : ~dirty'[p] /\ path'[p] = MainFile /\ pstate'[p] # "init"
      BY <2>1, Zenon DEF Frame, SteadyOwn, SteadyInv
    <2>5. \A t \in Threads : InCS(t)' => holding_lock'[ProcOf[t]]
      BY <2>1, <2>2 DEF Frame, SteadyOwn, SteadyInv, InCS
    <2>6. \A t \in Threads : pc'[t] # "idle" => Asked(req'[t])
      BY <2>1, Zenon DEF Frame, SteadyOwn, SteadyInv
    <2> QED BY <2>3, <2>4, <2>5, <2>6, Zenon DEF SteadyInv
  <1>2. ASSUME NEW p \in Procs, ProcStep(p) PROVE SteadyInv'
    <2>1. ncds_file_free(p)
      BY <1>2 DEF ProcStep, ncds_file_init, InitFrame, Crash, SteadyInv, Steady
    <2> QED BY <1>t, <2>1 DEF ncds_file_free, SteadyInv, TypeOK, InCS, Asked, fileVars, copyVars,
                              threadVars, bounds
  <1>3. CASE Tick \/ UNCHANGED vars
    BY <1>3 DEF Tick, vars, SteadyInv, InCS, Asked, fileVars, copyVars, threadVars, bounds
  <1> QED BY <1>1, <1>2, <1>3, Zenon DEF Next

\* The operations of the two modules are the same definitions.
LEMMA SameResults == \A d, r : AtomicDocument!Results(d, r) = Results(d, r)
PROOF
  <1> SUFFICES ASSUME NEW d, NEW r
               PROVE  AtomicDocument!Results(d, r) = Results(d, r)
    BY Zenon
  <1>1. AtomicDocument!ncds_file_lock(d, r) = ncds_file_lock(d, r)
    BY Zenon DEF AtomicDocument!ncds_file_lock, AtomicDocument!Refused, AtomicDocument!Changed,
       AtomicDocument!file_ds_access, ncds_file_lock, Refused, Changed, file_ds_access
  <1>2. AtomicDocument!ncds_file_unlock(d, r) = ncds_file_unlock(d, r)
    BY Zenon DEF AtomicDocument!ncds_file_unlock, AtomicDocument!Refused, AtomicDocument!Changed,
       AtomicDocument!file_ds_access, AtomicDocument!Replaced, AtomicDocument!Marked,
       ncds_file_unlock, Refused, Changed, file_ds_access, Replaced, Marked
  <1>3. AtomicDocument!ncds_file_copyconfig(d, r) = ncds_file_copyconfig(d, r)
    BY Zenon DEF AtomicDocument!ncds_file_copyconfig, AtomicDocument!Refused, AtomicDocument!Changed,
       AtomicDocument!file_ds_access, AtomicDocument!Replaced, AtomicDocument!Marked,
       AtomicDocument!Copied, ncds_file_copyconfig, Refused, Changed, file_ds_access, Replaced, Marked,
       Copied
  <1>4. AtomicDocument!ncds_file_deleteconfig(d, r) = ncds_file_deleteconfig(d, r)
    BY Zenon DEF AtomicDocument!ncds_file_deleteconfig, AtomicDocument!Refused, AtomicDocument!Changed,
       AtomicDocument!file_ds_access, AtomicDocument!Replaced, AtomicDocument!Marked,
       ncds_file_deleteconfig, Refused, Changed, file_ds_access, Replaced, Marked
  <1>5. AtomicDocument!ncds_file_editconfig(d, r) = ncds_file_editconfig(d, r)
    BY Zenon DEF AtomicDocument!ncds_file_editconfig, AtomicDocument!Refused, AtomicDocument!Changed,
       AtomicDocument!file_ds_access, AtomicDocument!Replaced, AtomicDocument!Marked,
       ncds_file_editconfig, Refused, Changed, file_ds_access, Replaced, Marked
  <1>6. AtomicDocument!Refused(d, "ok") = Refused(d, "ok")
    BY Zenon DEF AtomicDocument!Refused, Refused
  <1>7. AtomicDocument!Outcomes(d, r) = Outcomes(d, r)
    BY <1>1, <1>2, <1>3, <1>4, <1>5, <1>6, Zenon DEF AtomicDocument!Outcomes, Outcomes,
       AtomicDocument!ReadOps, ReadOps
  <1> QED BY <1>7, Zenon DEF AtomicDocument!Results, Results

\* Every step of the files is a step of the single document, or leaves it alone.
LEMMA AtomicStep ==
  Steady /\ IndInv /\ SteadyInv /\ [Next]_vars => [AtomicDocument!Next]_(disk[MainFile].doc)
PROOF
  <1> SUFFICES ASSUME Steady, IndInv, SteadyInv, Next, SteadyInv',
                      disk'[MainFile].doc # disk[MainFile].doc
               PROVE  AtomicDocument!Next
    BY SteadyStep, Zenon DEF vars
  <1> USE ConstantsAssumption
  <1>t. TypeOK /\ Pending
    BY Zenon DEF IndInv
  <1>1. PICK t \in Threads : SyncDump(t) /\ File(t) = MainFile
    BY Writers, Zenon DEF SteadyInv
  <1>2. pc[t] = "dump" /\ disk'[MainFile].doc = xml[ProcOf[t]]
    BY <1>t, <1>1, DumpWrites, Zenon
  <1>3. Asked(req[t])
    BY <1>2, Zenon DEF SteadyInv
  <1>4. disk'[MainFile].doc \in Results(disk[MainFile].doc, req[t])
    BY <1>t, <1>1, <1>2, <1>3, AskedPlain, Zenon DEF Pending, SteadyInv
  <1>5. PICK r \in Requests :
          req[t] = r \/ (r.op = "breaklocks" /\ \E tg \in Targets : req[t] = [r EXCEPT !.tg = tg])
    BY <1>3, Zenon DEF Asked
  <1>6. \E tg \in Targets : (r.op = "breaklocks" \/ tg = r.tg) /\ req[t] = [r EXCEPT !.tg = tg]
    BY <1>5, Zenon DEF Request
  <1>7. AtomicDocument!Perform(r)
    BY <1>4, <1>6, SameResults, Zenon DEF AtomicDocument!Perform
  <1> QED BY <1>7, Zenon DEF AtomicDocument!Next

\* Under these conditions and for any number of processes, sessions, files and
\* requests, what the processes do to their file through LOCK, file_reload and
\* file_sync is what a single document with atomic operations allows.
THEOREM Refinement == Steady => (Spec => ImplementsDatastore)
PROOF
  <1> SUFFICES ASSUME Steady PROVE Spec => ImplementsDatastore
    BY Zenon
  <1>1. Init => SteadyInv
    <2> SUFFICES ASSUME Init PROVE SteadyInv
      BY Zenon
    <2>1. \A p \in Procs : ~dirty[p] /\ path[p] = MainFile
      BY Zenon DEF Init
    <2>2. \A p \in Procs : pstate[p] # "init"
      <3>1. pstate = [p \in Procs |-> IF p \in Start THEN "up" ELSE "down"]
        BY Zenon DEF Init
      <3> QED BY <3>1, Zenon
    <2>3. \A t \in Threads : pc[t] = "idle"
      BY Zenon DEF Init
    <2>4. raced = {} /\ nfault = 0 /\ nstart = 0
      BY Zenon DEF Init
    <2> QED BY <2>1, <2>2, <2>3, <2>4, Zenon DEF SteadyInv, InCS
  <1>2. Init => AtomicDocument!Init
    <2>1. Init => disk[MainFile].doc = file_create_xmlframe
      <3> SUFFICES ASSUME Init PROVE disk[MainFile].doc = file_create_xmlframe
        BY Zenon
      <3>1. \E st : disk[MainFile] = [st |-> st, doc |-> file_create_xmlframe]
        BY ConstantsAssumption, Zenon DEF Init
      <3> QED BY <3>1
    <2>2. AtomicDocument!file_create_xmlframe = file_create_xmlframe
      BY Zenon DEF AtomicDocument!file_create_xmlframe, file_create_xmlframe
    <2> QED BY <2>1, <2>2, Zenon DEF AtomicDocument!Init
  <1>3. IndInv /\ SteadyInv /\ [Next]_vars => SteadyInv'
    BY SteadyStep, Zenon
  <1>4. IndInv /\ SteadyInv /\ [Next]_vars => [AtomicDocument!Next]_(disk[MainFile].doc)
    BY AtomicStep, Zenon
  <1> QED BY <1>1, <1>2, <1>3, <1>4, Invariance, PTL DEF Spec, ImplementsDatastore,
             AtomicDocument!Spec

=============================================================================
