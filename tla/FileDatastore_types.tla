------------------------ MODULE FileDatastore_types -------------------------
(***************************************************************************)
(* The inductive invariant of FileDatastore, and the proof that every step *)
(* keeps the types.                                                        *)
(***************************************************************************)
EXTENDS FileDatastore, TLAPS

(***************************************************************************)
(* The inductive invariant                                                 *)
(***************************************************************************)
\* nothing is dated in the future
Times ==
  /\ \A p \in Procs : last_access[p] <= clock
  /\ \A f \in Files : mtime[f] <= clock
  /\ \A t \in Threads : saved[t].time <= clock

\* only processes that are up have working threads
ActiveUp == \A t \in Threads : pc[t] # "idle" => pstate[ProcOf[t]] = "up"

\* the flag is only set while some thread of the process has yet to clear it
HoldingInv ==
  \A p \in Procs :
    holding_lock[p] /\ pstate[p] # "down" =>
      \E t \in Threads : ProcOf[t] = p /\ (InCS(t) \/ pc[t] = "clear")

\* the copy of p is the document in its file
Current(p) == Usable(path[p]) /\ xml[p] = disk[path[p]].doc

\* A copy that file_reload would keep is current, except between the change
\* of the copy and its file_sync.
Fresh ==
  \A p \in Procs :
    /\ pstate[p] = "up" /\ path[p] \notin raced /\ ~dirty[p]
    /\ \A t \in Threads : ProcOf[t] = p => pc[t] # "sync"
    => mtime[path[p]] >= last_access[p] \/ Current(p)

\* between the write and the stamp the copy is current
Stamping ==
  \A t \in Threads :
    pc[t] = "stamp" /\ File(t) \notin raced => Current(ProcOf[t])

\* what is about to be written is a result of the operation on the document
\* in the file
Pending ==
  \A t \in Threads :
    /\ pc[t] \in {"sync", "dump"} /\ req[t].op # "rollback"
    /\ File(t) \notin raced /\ ~dirty[ProcOf[t]]
    => \/ xml[ProcOf[t]] = disk[File(t)].doc
       \/ xml[ProcOf[t]] \in Results(disk[File(t)].doc, req[t])

IndInv ==
  /\ TypeOK
  /\ MutualExclusion
  /\ Times
  /\ ActiveUp
  /\ HoldingInv
  /\ Fresh
  /\ Stamping
  /\ Pending

(***************************************************************************)
(* Documents                                                               *)
(***************************************************************************)
Outcome == [doc : Doc, sync : BOOLEAN, reply : Replies]

\* the record of a request, also of a thread that works on none
AnyRequest == Request \cup {NoRequest}

\* Each operation has its own outcomes.
LEMMA OutcomesByOp ==
  ASSUME NEW d, NEW r
  PROVE  /\ r.op \in ReadOps => Outcomes(d, r) = Refused(d, "ok")
         /\ r.op = "lock" => Outcomes(d, r) = ncds_file_lock(d, r)
         /\ r.op \in {"unlock", "breaklocks"} => Outcomes(d, r) = ncds_file_unlock(d, r)
         /\ r.op = "copyconfig" => Outcomes(d, r) = ncds_file_copyconfig(d, r)
         /\ r.op = "deleteconfig" => Outcomes(d, r) = ncds_file_deleteconfig(d, r)
         /\ r.op = "editconfig" => Outcomes(d, r) = ncds_file_editconfig(d, r)
  BY Zenon DEF Outcomes, ReadOps

\* A copy is refused, or the target was open to the session and is replaced by
\* what could be copied, or nothing but the mark of its change is set.
LEMMA CopyOutcome ==
  ASSUME NEW d, NEW r, NEW o \in ncds_file_copyconfig(d, r)
  PROVE  \/ o \in Refused(d, "denied") \/ o \in Refused(d, "error")
         \/ /\ file_ds_access(d, r.tg, r.sid)
            /\ \/ o \in Changed(Marked(d, r.tg, r.src # "running"), "notapplicable")
               \/ \E c \in Copied(d, r) : o \in Changed(Replaced(d, r.tg, c, r.src # "running"), "ok")
PROOF
  <1> DEFINE ok(c) == Changed(Replaced(d, r.tg, c, r.src # "running"), "ok")
             all == UNION {ok(c) : c \in Copied(d, r)}
             marked == Changed(Marked(d, r.tg, r.src # "running"), "notapplicable")
             source == IF r.src = "config" THEN r.new ELSE d.cfg[r.src]
             commit == r.src = "candidate" /\ r.tg = "running"
             empty == source = {} /\ d.cfg[r.tg] = {}
             refused == \/ ~file_ds_access(d, r.tg, r.sid)
                        \/ commit /\ ~file_ds_access(d, "candidate", r.sid)
  <1>1. ncds_file_copyconfig(d, r) =
          IF refused THEN Refused(d, "denied")
          ELSE IF empty THEN marked ELSE Refused(d, "error") \cup all
    BY Zenon DEF ncds_file_copyconfig
  <1>2. ~file_ds_access(d, r.tg, r.sid) => refused
    BY Zenon
  <1> HIDE DEF all, marked, empty, refused
  <1>3. \/ o \in Refused(d, "denied") \/ o \in Refused(d, "error")
        \/ file_ds_access(d, r.tg, r.sid) /\ (o \in marked \/ o \in all)
    BY <1>1, <1>2, Zenon
  <1> HIDE DEF ok
  <1>4. o \in all => \E c \in Copied(d, r) : o \in ok(c)
    BY Zenon DEF all
  <1> QED BY <1>3, <1>4, Zenon DEF marked, ok

LEMMA OutcomeForms ==
  ASSUME NEW d \in Doc, NEW rep \in Replies
  PROVE  Refused(d, rep) \subseteq Outcome /\ Changed(d, rep) \subseteq Outcome
  BY DEF Refused, Changed, Outcome

\* Every operation of datastore_file.c leaves a well-formed document.
LEMMA OutcomesType ==
  ASSUME NEW d \in Doc, NEW r \in AnyRequest, r.op # "rollback"
  PROVE  Outcomes(d, r) \subseteq Outcome
PROOF
  <1> USE DocsAssumption, OutcomesByOp, OutcomeForms
  <1>0. /\ r.op \in Ops /\ r.sid \in Sessions \cup {NoSession} /\ r.tg \in Targets
        /\ r.src \in Targets \cup {"config"} /\ r.new \in SUBSET Nodes
    BY DEF AnyRequest, Request, NoRequest, Ops, ReadOps, RpcOps, StoreOps
  <1>r. {"ok", "denied", "error", "notapplicable"} \subseteq Replies
    BY Zenon DEF Replies
  <1>1. ASSUME NEW e \in Doc, NEW tg \in Targets, NEW m \in BOOLEAN
        PROVE  Marked(e, tg, m) \in Doc
    BY <1>1, Zenon DEF Marked, Doc
  <1>2. ASSUME NEW e \in Doc, NEW tg \in Targets, NEW c \in SUBSET Nodes, NEW m \in BOOLEAN
        PROVE  Replaced(e, tg, c, m) \in Doc
    <2>1. [e EXCEPT !.cfg[tg] = c] \in Doc
      BY Zenon DEF Doc
    <2> QED BY <2>1, <1>1, Zenon DEF Replaced
  <1>3. ASSUME NEW tg \in Targets, NEW s \in Sessions \cup {NoSession}
        PROVE  [d EXCEPT !.lock[tg] = s] \in Doc
    BY Zenon DEF Doc
  <1>4. d.cfg \in [Targets -> SUBSET Nodes]
    BY Zenon DEF Doc
  <1>5. CASE r.op \in ReadOps
    BY <1>5, <1>r, Zenon
  <1>6. CASE r.op = "lock"
    <2>1. /\ Refused(d, "denied") \subseteq Outcome
          /\ Changed([d EXCEPT !.lock[r.tg] = r.sid], "ok") \subseteq Outcome
      BY <1>0, <1>3, <1>r, Zenon
    <2> QED BY <1>6, <2>1, Zenon DEF ncds_file_lock
  <1>7. CASE r.op \in {"unlock", "breaklocks"}
    <2>1. [d EXCEPT !.lock[r.tg] = NoSession] \in Doc
      BY <1>0, <1>3, Zenon
    <2>2. r.tg = "candidate" =>
            Replaced([d EXCEPT !.lock[r.tg] = NoSession], "candidate", d.cfg["running"], FALSE) \in Doc
      BY <1>0, <1>2, <1>4, <2>1, Zenon
    <2>3. Refused(d, "error") \subseteq Outcome
      BY <1>r, Zenon
    <2>4. CASE d.lock[r.tg] = NoSession \/ ~file_ds_access(d, r.tg, r.sid)
      BY <1>7, <2>3, <2>4, Zenon DEF ncds_file_unlock
    <2>5. CASE ~(d.lock[r.tg] = NoSession \/ ~file_ds_access(d, r.tg, r.sid))
      <3> DEFINE u == [d EXCEPT !.lock[r.tg] = NoSession]
                 v == IF r.tg = "candidate" THEN Replaced(u, "candidate", d.cfg["running"], FALSE)
                                            ELSE u
      <3>1. Outcomes(d, r) = Changed(v, "ok")
        BY <1>7, <2>5, Zenon DEF ncds_file_unlock
      <3>2. v \in Doc
        BY <2>1, <2>2, Zenon
      <3> QED BY <3>1, <3>2, <1>r, Zenon
    <2> QED BY <2>4, <2>5, Zenon
  <1>8. CASE r.op = "copyconfig"
    <2> SUFFICES ASSUME NEW o \in ncds_file_copyconfig(d, r) PROVE o \in Outcome
      BY <1>8, Zenon
    <2>1. Copied(d, r) \subseteq SUBSET Nodes
      BY <1>0, <1>4, ZenonT(40) DEF Copied
    <2>2. \A c \in Copied(d, r) : Replaced(d, r.tg, c, r.src # "running") \in Doc
      BY <1>0, <1>2, <2>1, Zenon
    <2>3. Marked(d, r.tg, r.src # "running") \in Doc
      BY <1>0, <1>1, Zenon
    <2>4. /\ Refused(d, "denied") \subseteq Outcome
          /\ Changed(Marked(d, r.tg, r.src # "running"), "notapplicable") \subseteq Outcome
          /\ Refused(d, "error") \subseteq Outcome
      BY <2>3, <1>r, Zenon
    <2>5. \A c \in Copied(d, r) :
            Changed(Replaced(d, r.tg, c, r.src # "running"), "ok") \subseteq Outcome
      BY <2>2, <1>r, Zenon
    <2> QED BY <2>4, <2>5, CopyOutcome, Zenon
  <1>9. CASE r.op = "deleteconfig"
    <2>1. Replaced(d, r.tg, {}, TRUE) \in Doc
      BY <1>0, <1>2, Zenon
    <2> QED BY <1>9, <1>r, <2>1, Zenon DEF ncds_file_deleteconfig
  <1>10. CASE r.op = "editconfig"
    <2>1. /\ Replaced(d, r.tg, d.cfg[r.tg] \cup r.new, TRUE) \in Doc
          /\ Replaced(d, r.tg, d.cfg[r.tg] \ r.new, TRUE) \in Doc
      BY <1>0, <1>2, <1>4, Zenon
    <2>2. /\ Refused(d, "denied") \subseteq Outcome
          /\ Changed(Replaced(d, r.tg, d.cfg[r.tg] \cup r.new, TRUE), "ok") \subseteq Outcome
          /\ Changed(Replaced(d, r.tg, d.cfg[r.tg] \ r.new, TRUE), "ok") \subseteq Outcome
          /\ Refused(d, "error") \subseteq Outcome
      BY <1>r, <2>1, Zenon
    <2>3. Outcomes(d, r) \in
            {Refused(d, "denied"),
             Changed(Replaced(d, r.tg, d.cfg[r.tg] \cup r.new, TRUE), "ok")
               \cup Changed(Replaced(d, r.tg, d.cfg[r.tg] \ r.new, TRUE), "ok")
               \cup Refused(d, "error")}
      BY <1>10, Zenon DEF ncds_file_editconfig
    <2> QED BY <2>2, <2>3, Zenon
  <1> QED BY <1>0, <1>5, <1>6, <1>7, <1>8, <1>9, <1>10, Zenon DEF Ops, ReadOps, RpcOps, StoreOps

\* An operation that does not write the file was refused, or only reads.
LEMMA UnsyncedRefused ==
  ASSUME NEW d, NEW r \in AnyRequest, r.op # "rollback",
         NEW o \in Outcomes(d, r), ~o.sync
  PROVE  \/ o \in Refused(d, "denied") \/ o \in Refused(d, "error")
         \/ o \in Refused(d, "ok") /\ r.op \in ReadOps
PROOF
  <1> USE OutcomesByOp
  <1>c. ASSUME NEW e, NEW why PROVE o \notin Changed(e, why)
    BY DEF Changed
  <1>0. r.op \in Ops
    BY DEF AnyRequest, Request, NoRequest, Ops, ReadOps, RpcOps, StoreOps
  <1>1. CASE r.op \in ReadOps
    BY <1>1, Zenon
  <1>2. CASE r.op = "lock"
    <2>1. \/ o \in Refused(d, "denied")
          \/ o \in Changed([d EXCEPT !.lock[r.tg] = r.sid], "ok")
      BY <1>2, Zenon DEF ncds_file_lock
    <2> QED BY <2>1, <1>c, Zenon
  <1>3. CASE r.op \in {"unlock", "breaklocks"}
    <2> DEFINE u == [d EXCEPT !.lock[r.tg] = NoSession]
               v == IF r.tg = "candidate" THEN Replaced(u, "candidate", d.cfg["running"], FALSE)
                                          ELSE u
    <2>1. o \in Refused(d, "error") \/ o \in Changed(v, "ok")
      BY <1>3, Zenon DEF ncds_file_unlock
    <2> QED BY <2>1, <1>c, Zenon
  <1>4. CASE r.op = "copyconfig"
    <2>1. \/ o \in Refused(d, "denied") \/ o \in Refused(d, "error")
          \/ o \in Changed(Marked(d, r.tg, r.src # "running"), "notapplicable")
          \/ \E c \in Copied(d, r) : o \in Changed(Replaced(d, r.tg, c, r.src # "running"), "ok")
      BY <1>4, CopyOutcome, Zenon
    <2> QED BY <2>1, <1>c, Zenon
  <1>5. CASE r.op = "deleteconfig"
    <2>1. \/ o \in Refused(d, "denied") \/ o \in Refused(d, "error")
          \/ o \in Changed(Replaced(d, r.tg, {}, TRUE), "ok")
      BY <1>5, Zenon DEF ncds_file_deleteconfig
    <2> QED BY <2>1, <1>c, Zenon
  <1>6. CASE r.op = "editconfig"
    <2>1. \/ o \in Refused(d, "denied") \/ o \in Refused(d, "error")
          \/ o \in Changed(Replaced(d, r.tg, d.cfg[r.tg] \cup r.new, TRUE), "ok")
          \/ o \in Changed(Replaced(d, r.tg, d.cfg[r.tg] \ r.new, TRUE), "ok")
      BY <1>6, Zenon DEF ncds_file_editconfig
    <2> QED BY <2>1, <1>c, Zenon
  <1> QED BY <1>0, <1>1, <1>2, <1>3, <1>4, <1>5, <1>6, Zenon DEF Ops, ReadOps, RpcOps, StoreOps

\* It leaves the document as it was, and reports success only for a read.
LEMMA UnsyncedUnchanged ==
  ASSUME NEW d, NEW r \in AnyRequest, r.op # "rollback",
         NEW o \in Outcomes(d, r), ~o.sync
  PROVE  /\ o.doc = d
         /\ r.op \notin ReadOps => o.reply \in {"denied", "error"}
  BY UnsyncedRefused DEF Refused

LEMMA FrameType == file_create_xmlframe \in Doc
  BY DocsAssumption, Zenon DEF file_create_xmlframe, Doc

LEMMA UnlockedType == ASSUME NEW d \in Doc PROVE Unlocked(d) \in Doc
  BY DocsAssumption, Zenon DEF Unlocked, Doc

(***************************************************************************)
(* Types                                                                   *)
(***************************************************************************)
LEMMA InitType == Init => TypeOK
PROOF
  <1> SUFFICES ASSUME Init PROVE TypeOK OBVIOUS
  <1> USE ConstantsAssumption, DocsAssumption, FrameType
  <1>1. disk \in [Files -> [st : {"ok", "empty", "torn", "absent"}, doc : Doc]]
    BY Zenon DEF Init
  <1>2. /\ clock \in Nat /\ mtime \in [Files -> Nat] /\ sem \in [Files -> {0, 1}]
        /\ pstate \in [Procs -> {"down", "init", "up"}]
        /\ path \in [Procs -> Files] /\ xml \in [Procs -> Doc]
        /\ last_access \in [Procs -> Nat] /\ xml_rollback \in [Procs -> SUBSET Doc]
        /\ dsnodes \in [Procs -> BOOLEAN] /\ dirty \in [Procs -> BOOLEAN]
        /\ holding_lock \in [Procs -> BOOLEAN] /\ dslock \in [Procs -> SUBSET Threads]
        /\ saved \in [Threads -> SavedCopy]
    BY Zenon DEF Init, NothingSaved, SavedCopy
  <1>3. /\ pc \in [Threads -> Pcs] /\ req \in [Threads -> Request \cup {NoRequest}]
        /\ reply \in [Threads -> Replies]
        /\ sess \in [Sessions -> {"new", "open", "unsure", "closed", "lost"}]
        /\ raced \subseteq Files /\ {nreq, nfault, nstart} \subseteq Nat
    BY DEF Init, Pcs, Replies
  <1> QED BY <1>1, <1>2, <1>3, Zenon DEF TypeOK

\* the request a thread goes on with is a request
LEMMA FinishType ==
  ASSUME TypeOK, NEW t \in Threads, NEW rep \in Replies, Finish(t, rep)
  PROVE  /\ pc' \in [Threads -> Pcs]
         /\ req' \in [Threads -> Request \cup {NoRequest}]
         /\ reply' \in [Threads -> Replies]
         /\ dslock' \in [Procs -> SUBSET Threads]
         /\ sess' \in [Sessions -> {"new", "open", "unsure", "closed", "lost"}]
PROOF
  <1> USE ConstantsAssumption, DocsAssumption
  <1>1. pc' \in [Threads -> Pcs]
    BY Zenon DEF TypeOK, Finish, Pcs
  <1>2. reply' \in [Threads -> Replies]
    BY Zenon DEF TypeOK, Finish, Replies
  <1>3. dslock' \in [Procs -> SUBSET Threads]
    BY Zenon DEF TypeOK, Finish
  <1>4. sess' \in [Sessions -> {"new", "open", "unsure", "closed", "lost"}]
    BY Zenon DEF TypeOK, Finish
  <1>5. req' \in [Threads -> Request \cup {NoRequest}]
    <2>1. req[t] \in Request \cup {NoRequest}
      BY Zenon DEF TypeOK
    <2>2. ASSUME NEW tg \in NextTargets(req[t].tg), req[t].op = "breaklocks"
          PROVE  [req[t] EXCEPT !.tg = tg] \in Request
      <3>1. req[t] \in Request
        BY <2>1, <2>2 DEF NoRequest
      <3>2. tg \in Targets
        BY <3>1, <2>2, Zenon DEF NextTargets, Request
      <3> QED BY <3>1, <3>2, Zenon DEF Request
    <2>3. ASSUME req[t].op \in StoreOps
          PROVE  [req[t] EXCEPT !.op = "rollback"] \in Request
      <3>1. req[t] \in Request
        BY <2>1, <2>3 DEF NoRequest, StoreOps
      <3> QED BY <3>1, Zenon DEF Request, Ops
    <2>4. \/ /\ req[t].op = "breaklocks"
             /\ \E tg \in NextTargets(req[t].tg) :
                  req' = [req EXCEPT ![t] = [req[t] EXCEPT !.tg = tg]]
          \/ req[t].op \in StoreOps /\ req' = [req EXCEPT ![t] = [req[t] EXCEPT !.op = "rollback"]]
          \/ req' = [req EXCEPT ![t] = NoRequest]
      BY Zenon DEF Finish, TypeOK
    <2>5. \E r \in Request \cup {NoRequest} : req' = [req EXCEPT ![t] = r]
      BY <2>2, <2>3, <2>4, Zenon
    <2> QED BY <2>5, Zenon DEF TypeOK
  <1> QED BY <1>1, <1>2, <1>3, <1>4, <1>5, Zenon

FileState == [st : {"ok", "empty", "torn", "absent"}, doc : Doc]

LEMMA DiskType ==
  ASSUME TypeOK, NEW f \in Files, NEW x \in FileState, disk' = [disk EXCEPT ![f] = x]
  PROVE  disk' \in [Files -> FileState]
  BY Zenon DEF TypeOK, FileState

LEMMA FileStateType ==
  ASSUME TypeOK, NEW f \in Files, NEW st \in {"ok", "empty", "torn", "absent"}
  PROVE  [disk[f] EXCEPT !.st = st] \in FileState
PROOF
  <1>1. disk[f] \in FileState
    BY Zenon DEF TypeOK, FileState
  <1> QED BY <1>1, Zenon DEF FileState

LEMMA ApplyType ==
  ASSUME TypeOK, NEW t \in Threads, NEW d \in Doc, NEW valid \in BOOLEAN,
         req[t].op # "rollback", Apply(t, d, valid)
  PROVE  /\ xml' \in [Procs -> Doc]
         /\ xml_rollback' \in [Procs -> SUBSET Doc]
         /\ pc' \in [Threads -> Pcs]
         /\ reply' \in [Threads -> Replies]
PROOF
  <1> USE ConstantsAssumption
  <1>1. PICK o \in (IF valid THEN Outcomes(d, req[t]) ELSE Undefined(d)) :
          /\ xml' = [xml EXCEPT ![ProcOf[t]] = o.doc]
          /\ reply' = [reply EXCEPT ![t] = o.reply]
          /\ pc' = [pc EXCEPT ![t] = IF o.sync THEN "sync" ELSE "post"]
    BY Zenon DEF Apply
  <1>2. req[t] \in AnyRequest
    BY Zenon DEF TypeOK, AnyRequest
  <1>3. Undefined(d) \subseteq Outcome
    BY DEF Undefined, Refused, Changed, Outcome, Replies
  <1>4. o \in Outcome
    BY <1>1, <1>2, <1>3, OutcomesType, Zenon
  <1>5. o.doc \in Doc /\ o.reply \in Replies
    BY <1>4, Zenon DEF Outcome
  <1>6. xml' \in [Procs -> Doc] /\ reply' \in [Threads -> Replies]
    BY <1>1, <1>5, Zenon DEF TypeOK
  <1>7. pc' \in [Threads -> Pcs]
    BY <1>1, Zenon DEF TypeOK, Pcs
  <1>8. xml_rollback' \in [Procs -> SUBSET Doc]
    BY Zenon DEF Apply, TypeOK
  <1> QED BY <1>6, <1>7, <1>8, Zenon

\* Every step keeps the types.  Only ncds_file_free needs more than the types:
\* the flag holding_lock is clear when no thread works.
LEMMA TypeStep == IndInv /\ [Next]_vars => TypeOK'
PROOF
  <1> SUFFICES ASSUME IndInv, [Next]_vars PROVE TypeOK'
    BY Zenon
  <1> USE ConstantsAssumption, DocsAssumption
  <1>t. TypeOK
    BY Zenon DEF IndInv
  <1>1. CASE Tick
    BY <1>t, <1>1 DEF TypeOK, Tick, fileVars, copyVars, threadVars, bounds
  <1>2. ASSUME NEW t \in Threads, NEW r \in Requests, Begin(t, r) PROVE TypeOK'
    <2>1. /\ r \in Request /\ [r EXCEPT !.tg = FirstTarget] \in Request
      BY Zenon DEF Request, FirstTarget
    <2>2. req' \in [Threads -> Request \cup {NoRequest}]
      BY <1>t, <1>2, <2>1, Zenon DEF TypeOK, Begin
    <2>3. pc' \in [Threads -> Pcs] /\ reply' \in [Threads -> Replies]
      BY <1>t, <1>2, Zenon DEF TypeOK, Begin, Pcs, Replies
    <2>4. dslock' \in [Procs -> SUBSET Threads] /\ nreq' \in Nat
      <3>1. dslock' = dslock \/ dslock' = [dslock EXCEPT ![ProcOf[t]] = {t}]
        BY <1>2, Zenon DEF Begin
      <3>2. dslock' \in [Procs -> SUBSET Threads]
        <4>1. dslock \in [Procs -> SUBSET Threads]
          BY <1>t, Zenon DEF TypeOK
        <4> QED BY <3>1, <4>1
      <3> QED BY <1>t, <1>2, <3>2 DEF TypeOK, Begin
    <2>5. sess' \in [Sessions -> {"new", "open", "unsure", "closed", "lost"}]
      BY <1>t, <1>2, Zenon DEF TypeOK, Begin
    <2> QED BY <1>t, <1>2, <2>2, <2>3, <2>4, <2>5
              DEF TypeOK, Begin, fileVars, copyVars
  <1>3. ASSUME NEW t \in Threads, LOCK(t) PROVE TypeOK'
    BY <1>t, <1>3, Zenon DEF TypeOK, LOCK, Pcs, fileVars, copyVars, bounds
  <1>4. ASSUME NEW t \in Threads, LockTimeout(t) PROVE TypeOK'
    <2>1. "timeout" \in Replies
      BY Zenon DEF Replies
    <2> QED BY <1>t, <1>4, <2>1, FinishType, Zenon
              DEF TypeOK, LockTimeout, fileVars, copyVars, bounds
  <1>5. ASSUME NEW t \in Threads, UNLOCKPost(t) PROVE TypeOK'
    BY <1>t, <1>5, Zenon DEF TypeOK, UNLOCKPost, Pcs, fileVars, copyVars, bounds
  <1>6. ASSUME NEW t \in Threads, UNLOCKClear(t) PROVE TypeOK'
    <2>1. reply[t] \in Replies
      BY <1>t, Zenon DEF TypeOK
    <2> QED BY <1>t, <1>6, <2>1, FinishType, Zenon
              DEF TypeOK, UNLOCKClear, fileVars, copyVars, bounds
  <1>7. ASSUME NEW t \in Threads, OperateFails(t) PROVE TypeOK'
    <2>1. saved' \in [Threads -> SavedCopy]
      BY <1>t, <1>7, Zenon DEF TypeOK, OperateFails, NothingSaved, SavedCopy
    <2>2. pc' \in [Threads -> Pcs] /\ reply' \in [Threads -> Replies]
      BY <1>t, <1>7, Zenon DEF TypeOK, OperateFails, ToPost, Pcs, Replies
    <2> QED BY <1>t, <1>7, <2>1, <2>2, Zenon DEF TypeOK, OperateFails, fileVars, copyVars, bounds
  <1>7a. ASSUME NEW t \in Threads, ReloadCopy(t) PROVE TypeOK'
    <2>1. saved' \in [Threads -> SavedCopy]
      BY <1>t, <1>7a, Zenon DEF TypeOK, ReloadCopy, SavedCopy
    <2>2. pc' \in [Threads -> Pcs]
      BY <1>t, <1>7a, Zenon DEF TypeOK, ReloadCopy, Pcs
    <2> QED BY <1>t, <1>7a, <2>1, <2>2, Zenon DEF TypeOK, ReloadCopy, fileVars, copyVars, bounds
  <1>8. ASSUME NEW t \in Threads, OperateOnCopy(t) PROVE TypeOK'
    <2>1. xml[ProcOf[t]] \in Doc /\ dsnodes[ProcOf[t]] \in BOOLEAN
      BY <1>t, Zenon DEF TypeOK
    <2>2. req[t].op # "rollback" /\ Apply(t, xml[ProcOf[t]], dsnodes[ProcOf[t]])
      BY <1>8, Zenon DEF OperateOnCopy
    <2>3. /\ xml' \in [Procs -> Doc] /\ xml_rollback' \in [Procs -> SUBSET Doc]
          /\ pc' \in [Threads -> Pcs] /\ reply' \in [Threads -> Replies]
      BY <1>t, <2>1, <2>2, ApplyType
    <2> QED BY <1>t, <1>8, <2>3, Zenon DEF TypeOK, OperateOnCopy, Apply, fileVars, bounds
  <1>9. ASSUME NEW t \in Threads, OperateOnFile(t) PROVE TypeOK'
    <2>1. disk[path[ProcOf[t]]].doc \in Doc
      BY <1>t, Zenon DEF TypeOK
    <2>2. req[t].op # "rollback" /\ Apply(t, disk[path[ProcOf[t]]].doc, TRUE)
      BY <1>9, Zenon DEF OperateOnFile
    <2>3. /\ xml' \in [Procs -> Doc] /\ xml_rollback' \in [Procs -> SUBSET Doc]
          /\ pc' \in [Threads -> Pcs] /\ reply' \in [Threads -> Replies]
      BY <1>t, <2>1, <2>2, ApplyType, Zenon
    <2>4. /\ last_access' \in [Procs -> Nat] /\ dsnodes' \in [Procs -> BOOLEAN]
          /\ dirty' \in [Procs -> BOOLEAN] /\ holding_lock' \in [Procs -> BOOLEAN]
          /\ dslock' \in [Procs -> SUBSET Threads]
          /\ saved' \in [Threads -> SavedCopy]
      <3>1. saved[t].lock \in SUBSET Threads /\ saved[t].time \in Nat
        BY <1>t, Zenon DEF TypeOK, SavedCopy
      <3>2. NothingSaved \in SavedCopy
        BY Zenon DEF NothingSaved, SavedCopy
      <3> QED BY <1>t, <1>9, <3>1, <3>2, Zenon DEF TypeOK, OperateOnFile
    <2> QED BY <1>t, <2>2, <2>3, <2>4, Zenon DEF TypeOK, Apply, fileVars, bounds
  <1>10. ASSUME NEW t \in Threads, file_rollback_restore(t) PROVE TypeOK'
    BY <1>t, <1>10 DEF TypeOK, file_rollback_restore, Pcs, Replies, fileVars, bounds
  <1>11. ASSUME NEW t \in Threads, SyncTruncate(t) PROVE TypeOK'
    <2>1. disk' \in [Files -> FileState]
      <3>1. path[ProcOf[t]] \in Files
        BY <1>t, Zenon DEF TypeOK
      <3>2. PICK st \in {"empty", "torn"} :
              disk' = [disk EXCEPT ![path[ProcOf[t]]] = [disk[path[ProcOf[t]]] EXCEPT !.st = st]]
        BY <1>11, Zenon DEF SyncTruncate
      <3>3. [disk[path[ProcOf[t]]] EXCEPT !.st = st] \in FileState
        BY <1>t, <3>1, FileStateType, Zenon
      <3> QED BY <1>t, <3>1, <3>2, <3>3, DiskType, Zenon
    <2> QED BY <1>t, <1>11, <2>1, Zenon DEF TypeOK, SyncTruncate, SyncRest, Pcs, FileState
  <1>12. ASSUME NEW t \in Threads, SyncRefused(t) PROVE TypeOK'
    BY <1>t, <1>12 DEF TypeOK, SyncRefused, SyncRest, ToPost, Pcs, Replies
  <1>13. ASSUME NEW t \in Threads, SyncDump(t) PROVE TypeOK'
    BY <1>t, <1>13, Zenon DEF TypeOK, SyncDump, SyncRest, Pcs
  <1>14. ASSUME NEW t \in Threads, SyncDumpFails(t) PROVE TypeOK'
    <2>1. disk' \in [Files -> FileState]
      <3>1. path[ProcOf[t]] \in Files
        BY <1>t, Zenon DEF TypeOK
      <3>2. disk' = [disk EXCEPT ![path[ProcOf[t]]] = [disk[path[ProcOf[t]]] EXCEPT !.st = "torn"]]
        BY <1>14, Zenon DEF SyncDumpFails
      <3>3. [disk[path[ProcOf[t]]] EXCEPT !.st = "torn"] \in FileState
        BY <1>t, <3>1, FileStateType, Zenon
      <3> QED BY <1>t, <3>1, <3>2, <3>3, DiskType, Zenon
    <2> QED BY <1>t, <1>14, <2>1
              DEF TypeOK, SyncDumpFails, SyncRest, ToPost, Pcs, Replies, FileState
  <1>15. ASSUME NEW t \in Threads, SyncStamp(t) PROVE TypeOK'
    BY <1>t, <1>15, Zenon DEF TypeOK, SyncStamp, SyncRest, Pcs
  <1>16. ASSUME NEW p \in Procs, ncds_file_init(p) PROVE TypeOK'
    <2>1. PICK f \in Files :
            /\ path' = [path EXCEPT ![p] = f]
            /\ IF Usable(f)
               THEN /\ xml' = [xml EXCEPT ![p] = Unlocked(disk[f].doc)]
                    /\ pstate' = [pstate EXCEPT ![p] = "up"]
                    /\ UNCHANGED <<disk, mtime>>
               ELSE /\ xml' = [xml EXCEPT ![p] = file_create_xmlframe]
                    /\ pstate' = [pstate EXCEPT ![p] = "init"]
                    /\ disk' = [disk EXCEPT ![f].st = "empty"]
                    /\ mtime' = IF disk[f].st = "absent" THEN [mtime EXCEPT ![f] = clock] ELSE mtime
      BY <1>16, Zenon DEF ncds_file_init
    <2>2. Unlocked(disk[f].doc) \in Doc
      BY <1>t, UnlockedType, Zenon DEF TypeOK
    <2>3. /\ path' \in [Procs -> Files] /\ xml' \in [Procs -> Doc]
          /\ pstate' \in [Procs -> {"down", "init", "up"}] /\ mtime' \in [Files -> Nat]
      <3>1. path' \in [Procs -> Files] /\ pstate' \in [Procs -> {"down", "init", "up"}]
        BY <1>t, <2>1, Zenon DEF TypeOK
      <3>2. xml' \in [Procs -> Doc]
        <4>1. \E d \in Doc : xml' = [xml EXCEPT ![p] = d]
          BY <2>1, <2>2, FrameType, Zenon
        <4>2. xml \in [Procs -> Doc]
          BY <1>t, Zenon DEF TypeOK
        <4> QED BY <4>1, <4>2, Zenon
      <3>3. mtime' \in [Files -> Nat]
        <4>1. mtime' = mtime \/ mtime' = [mtime EXCEPT ![f] = clock]
          BY <2>1, Zenon
        <4> QED BY <1>t, <4>1, Zenon DEF TypeOK
      <3> QED BY <3>1, <3>2, <3>3, Zenon
    <2>4. disk' \in [Files -> FileState]
      <3>1. disk \in [Files -> FileState]
        BY <1>t, Zenon DEF TypeOK, FileState
      <3>2. disk' = disk \/ disk' = [disk EXCEPT ![f] = [disk[f] EXCEPT !.st = "empty"]]
        BY <2>1, Zenon
      <3>3. [disk[f] EXCEPT !.st = "empty"] \in FileState
        BY <1>t, FileStateType, Zenon
      <3> QED BY <1>t, <3>1, <3>2, <3>3, DiskType, Zenon
    <2>5. sem' \in [Files -> {0, 1}] /\ nstart' \in Nat
      BY <1>t, <1>16 DEF TypeOK, ncds_file_init
    <2>6. /\ last_access' \in [Procs -> Nat] /\ xml_rollback' \in [Procs -> SUBSET Doc]
          /\ dsnodes' \in [Procs -> BOOLEAN] /\ dirty' \in [Procs -> BOOLEAN]
          /\ holding_lock' \in [Procs -> BOOLEAN]
      BY <1>t, <1>16, Zenon DEF TypeOK, ncds_file_init
    <2> QED BY <1>t, <1>16, <2>3, <2>4, <2>5, <2>6
              DEF TypeOK, ncds_file_init, threadVars, FileState
  <1>17. ASSUME NEW p \in Procs, InitFrame(p) PROVE TypeOK'
    <2>1. disk' \in [Files -> FileState]
      <3>1. path[p] \in Files
        BY <1>t, Zenon DEF TypeOK
      <3>2. \/ disk' = [disk EXCEPT ![path[p]] = [st |-> "ok", doc |-> file_create_xmlframe]]
            \/ disk' = [disk EXCEPT ![path[p]] = [disk[path[p]] EXCEPT !.st = "torn"]]
        BY <1>17, Zenon DEF InitFrame
      <3>3. [st |-> "ok", doc |-> file_create_xmlframe] \in FileState
        BY FrameType, Zenon DEF FileState
      <3>4. [disk[path[p]] EXCEPT !.st = "torn"] \in FileState
        BY <1>t, <3>1, FileStateType, Zenon
      <3> QED BY <1>t, <3>1, <3>2, <3>3, <3>4, DiskType, Zenon
    <2> QED BY <1>t, <1>17, <2>1
              DEF TypeOK, InitFrame, copyVars, threadVars, bounds, FileState
  <1>18. ASSUME NEW p \in Procs, ncds_file_free(p) PROVE TypeOK'
    <2>1. ~holding_lock[p]
      BY <1>18, Zenon DEF IndInv, HoldingInv, ncds_file_free, InCS
    <2> QED BY <1>t, <1>18, <2>1, Zenon
              DEF TypeOK, ncds_file_free, fileVars, copyVars, threadVars, bounds
  <1>19. ASSUME NEW p \in Procs, Crash(p) PROVE TypeOK'
    <2>1. pc' \in [Threads -> Pcs]
      BY <1>t, <1>19, Zenon DEF TypeOK, Crash, Pcs
    <2>2. sess' \in [Sessions -> {"new", "open", "unsure", "closed", "lost"}]
      BY <1>t, <1>19, Zenon DEF TypeOK, Crash
    <2>3. saved' \in [Threads -> SavedCopy]
      BY <1>t, <1>19, Zenon DEF TypeOK, Crash, NothingSaved, SavedCopy
    <2>4. pstate' \in [Procs -> {"down", "init", "up"}] /\ dslock' \in [Procs -> SUBSET Threads]
      BY <1>t, <1>19, Zenon DEF TypeOK, Crash
    <2>5. nfault' \in Nat
      BY <1>t, <1>19 DEF TypeOK, Crash
    <2>6. UNCHANGED <<clock, disk, mtime, raced, sem, path, xml, last_access, xml_rollback, dsnodes,
                      dirty, holding_lock, req, reply, nreq, nstart>>
      BY <1>19, Zenon DEF Crash, fileVars, copyVars
    <2> QED BY <1>t, <2>1, <2>2, <2>3, <2>4, <2>5, <2>6, Zenon DEF TypeOK
  <1>20. CASE UNCHANGED vars
    BY <1>t, <1>20, Zenon DEF TypeOK, vars
  <1> QED
    BY <1>1, <1>2, <1>3, <1>4, <1>5, <1>6, <1>7, <1>7a, <1>8, <1>9, <1>10, <1>11, <1>12, <1>13,
       <1>14, <1>15, <1>16, <1>17, <1>18, <1>19, <1>20, Zenon
       DEF Next, ThreadStep, Operate, file_sync, ProcStep

=============================================================================
