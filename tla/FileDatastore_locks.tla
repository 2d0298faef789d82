------------------------ MODULE FileDatastore_locks -------------------------
(***************************************************************************)
(* ncds_break_locks leaves no lock of a closed session behind: the proof,  *)
(* for any number of processes, threads and sessions, with crashes, failed *)
(* writes and restarts.                                                    *)
(***************************************************************************)
EXTENDS FileDatastore_proofs

\* No change is rolled back: ncds_file_rollback restores a whole document,
\* with the locks of sessions that were closed in the meantime.
NoUndo == \A r \in Requests : r.undo = "none"

LockOps == {"lock", "unlock", "breaklocks"}

(***************************************************************************)
(* What the operations do to the locks                                     *)
(***************************************************************************)
\* ncds_file_lock: refused unless nobody holds the lock
LEMMA LockEffect ==
  ASSUME NEW d \in Doc, NEW r \in Request, r.op = "lock", NEW o \in Outcomes(d, r)
  PROVE  \/ o.doc = d /\ ~o.sync
         \/ /\ o.doc.lock = [d.lock EXCEPT ![r.tg] = r.sid] /\ o.sync
            /\ d.lock[r.tg] = NoSession
PROOF
  <1> DEFINE e == [d EXCEPT !.lock[r.tg] = r.sid]
  <1>1. \/ o \in Refused(d, "denied")
        \/ o \in Changed(e, "ok") /\ file_ds_access(d, r.tg, NoSession)
    BY OutcomesByOp, Zenon DEF ncds_file_lock
  <1>2. e.lock = [d.lock EXCEPT ![r.tg] = r.sid]
    BY Zenon DEF Doc
  <1> HIDE DEF e
  <1> QED BY <1>1, <1>2 DEF Refused, Changed, file_ds_access

\* ncds_file_unlock: refused unless the session holds the lock
LEMMA UnlockEffect ==
  ASSUME NEW d \in Doc, NEW r \in Request, r.op \in {"unlock", "breaklocks"},
         NEW o \in Outcomes(d, r)
  PROVE  \/ o.doc = d /\ ~o.sync /\ d.lock[r.tg] # r.sid
         \/ /\ o.doc.lock = [d.lock EXCEPT ![r.tg] = NoSession] /\ o.sync
            /\ d.lock[r.tg] = r.sid
PROOF
  <1> DEFINE u == [d EXCEPT !.lock[r.tg] = NoSession]
             w == Replaced(u, "candidate", d.cfg["running"], FALSE)
             v == IF r.tg = "candidate" THEN w ELSE u
  <1>1. \/ /\ o \in Refused(d, "error")
           /\ d.lock[r.tg] = NoSession \/ ~file_ds_access(d, r.tg, r.sid)
        \/ /\ o \in Changed(v, "ok")
           /\ ~(d.lock[r.tg] = NoSession \/ ~file_ds_access(d, r.tg, r.sid))
    BY OutcomesByOp, Zenon DEF ncds_file_unlock
  <1>2. r.sid # NoSession /\ r.tg \in Targets
    BY DocsAssumption, Zenon DEF Request
  <1>3. u \in Doc /\ u.lock = [d.lock EXCEPT ![r.tg] = NoSession]
    BY <1>2, Zenon DEF Doc
  <1>4. v.lock = u.lock
    <2>1. w.lock = u.lock
      BY <1>3, Zenon DEF Replaced, Marked, Doc
    <2> HIDE DEF u, w
    <2> QED BY <2>1, Zenon
  <1> HIDE DEF u, v
  <1> QED BY <1>1, <1>2, <1>3, <1>4 DEF Refused, Changed, file_ds_access

\* the other operations leave the locks alone
LEMMA OtherEffect ==
  ASSUME NEW d \in Doc, NEW r \in AnyRequest, r.op \notin LockOps, r.op # "rollback",
         NEW o \in Outcomes(d, r)
  PROVE  o.doc.lock = d.lock
PROOF
  <1>0. r.op \in ReadOps \cup {"copyconfig", "deleteconfig", "editconfig"}
    BY DEF LockOps, AnyRequest, Request, NoRequest, Ops, ReadOps, RpcOps, StoreOps
  <1>r. ASSUME NEW x, NEW why, o \in Refused(x, why) \/ o \in Changed(x, why), x.lock = d.lock
        PROVE  o.doc.lock = d.lock
    BY <1>r DEF Refused, Changed
  <1>1. CASE r.op \in ReadOps
    BY <1>1, <1>r, OutcomesByOp, Zenon
  <1>2. CASE r.op = "copyconfig"
    <2>1. \/ o \in Refused(d, "denied") \/ o \in Refused(d, "error")
          \/ o \in Changed(Marked(d, r.tg, r.src # "running"), "notapplicable")
          \/ \E c \in Copied(d, r) : o \in Changed(Replaced(d, r.tg, c, r.src # "running"), "ok")
      BY <1>2, OutcomesByOp, CopyOutcome, Zenon
    <2>2. /\ Marked(d, r.tg, r.src # "running").lock = d.lock
          /\ \A c : Replaced(d, r.tg, c, r.src # "running").lock = d.lock
      BY Zenon DEF Replaced, Marked, Doc
    <2> QED BY <1>r, <2>1, <2>2, Zenon
  <1>3. CASE r.op = "deleteconfig"
    <2> DEFINE e == Replaced(d, r.tg, {}, TRUE)
    <2>1. o \in Refused(d, "denied") \/ o \in Refused(d, "error") \/ o \in Changed(e, "ok")
      BY <1>3, OutcomesByOp, Zenon DEF ncds_file_deleteconfig
    <2>2. e.lock = d.lock
      BY Zenon DEF Replaced, Marked, Doc
    <2> HIDE DEF e
    <2> QED BY <1>r, <2>1, <2>2
  <1>4. CASE r.op = "editconfig"
    <2>1. \/ o \in Refused(d, "denied") \/ o \in Refused(d, "error")
          \/ \E c : o \in Changed(Replaced(d, r.tg, c, TRUE), "ok")
      BY <1>4, OutcomesByOp, Zenon DEF ncds_file_editconfig
    <2>2. \A c : Replaced(d, r.tg, c, TRUE).lock = d.lock
      BY Zenon DEF Replaced, Marked, Doc
    <2> QED BY <1>r, <2>1, <2>2, Zenon
  <1> QED BY <1>0, <1>1, <1>2, <1>3, <1>4, Zenon

\* An operation puts no lock in the name of another session, and takes none
\* away from it.
LEMMA ForeignLocks ==
  ASSUME NEW d \in Doc, NEW r \in Request, r.op # "rollback", NEW o \in Outcomes(d, r),
         NEW tg \in Targets, NEW s \in Sessions
  PROVE  /\ s # r.sid => (o.doc.lock[tg] = s <=> d.lock[tg] = s)
         /\ r.op # "lock" /\ o.doc.lock[tg] = s => d.lock[tg] = s
         /\ r.op \notin LockOps => (o.doc.lock[tg] = s <=> d.lock[tg] = s)
PROOF
  <1>1. r.tg \in Targets /\ r.sid \in Sessions /\ NoSession \notin Sessions
    BY DocsAssumption, Zenon DEF Request
  <1>2. d.lock \in [Targets -> Sessions \cup {NoSession}]
    BY Zenon DEF Doc
  <1>3. CASE r.op = "lock"
    <2>1. \/ o.doc.lock = d.lock
          \/ o.doc.lock = [d.lock EXCEPT ![r.tg] = r.sid] /\ d.lock[r.tg] = NoSession
      BY <1>3, LockEffect
    <2> QED BY <1>1, <1>2, <1>3, <2>1, Zenon DEF LockOps
  <1>4. CASE r.op \in {"unlock", "breaklocks"}
    <2>1. \/ o.doc.lock = d.lock
          \/ o.doc.lock = [d.lock EXCEPT ![r.tg] = NoSession] /\ d.lock[r.tg] = r.sid
      BY <1>4, UnlockEffect, Zenon
    <2> QED BY <1>1, <1>2, <1>4, <2>1, Zenon DEF LockOps
  <1>5. CASE r.op \notin LockOps
    BY <1>5, OtherEffect, Zenon DEF AnyRequest
  <1> QED BY <1>3, <1>4, <1>5, Zenon DEF LockOps

(***************************************************************************)
(* The invariant                                                           *)
(***************************************************************************)
\* Threads work for the sessions of their process, one request of a session
\* at a time.
Serves(t) ==
  /\ req[t] \in Request /\ req[t].undo = "none" /\ req[t].op # "rollback"
  /\ HomeOf[req[t].sid] = ProcOf[t]
  /\ sess[req[t].sid] \in {"open", "unsure", "lost"}

Serving ==
  /\ \A t \in Threads : pc[t] # "idle" => Serves(t)
  /\ \A t, u \in Threads :
       pc[t] # "idle" /\ pc[u] # "idle" /\ req[t].sid = req[u].sid => t = u
  /\ \A s \in Sessions : sess[s] \in {"open", "unsure"} => pstate[HomeOf[s]] = "up"
  /\ \A p \in Procs : dsnodes[p]

\* the copy of p will be used without reading the file, or will be written
Kept(p) ==
  /\ pstate[p] = "up"
  /\ \/ NotModified(p)
     \/ \E t \in Threads : ProcOf[t] = p /\ pc[t] \in {"sync", "dump", "stamp"}

HeldIn(f, tg, s) == disk[f].doc.lock[tg] = s
HeldBy(p, tg, s) == Kept(p) /\ xml[p].lock[tg] = s
Held(f, tg, s) == HeldIn(f, tg, s) \/ \E p \in Procs : path[p] = f /\ HeldBy(p, tg, s)

\* Whoever holds a lock, in a file or in a copy that counts, has not been
\* closed, and an open session holds locks in the file of its process only.
Owned ==
  \A f \in Files, tg \in Targets, s \in Sessions :
    Held(f, tg, s) =>
      /\ sess[s] \in {"open", "unsure", "lost"}
      /\ sess[s] = "open" => path[HomeOf[s]] = f

\* a change of the locks of s is in the copy and not, or not yet, in the file
Changing(s) ==
  \E t \in Threads :
    /\ req[t].sid = s /\ req[t].op \in LockOps
    /\ \/ pc[t] \in {"sync", "dump"}
       \/ pc[t] \in {"post", "clear"} /\ reply[t] = "failed"

\* As to the locks of open sessions, the copies that count agree with the
\* file, although file_sync may have refused what others changed in them.
Agree ==
  \A p \in Procs, tg \in Targets, s \in Sessions :
    Kept(p) /\ sess[s] = "open" /\ ~Changing(s) =>
      (xml[p].lock[tg] = s <=> HeldIn(path[p], tg, s))

\* the targets that ncds_break_locks unlocks before tg
Before(tg) ==
  CASE tg = "candidate" -> {}
    [] tg = "running" -> {"candidate"} \cap Targets
    [] tg = "startup" -> {"candidate", "running"} \cap Targets

\* the unlock of the present target was carried out
Past(t) == pc[t] = "stamp" \/ (pc[t] \in {"post", "clear"} /\ reply[t] # "failed")

Released(t) == Before(req[t].tg) \cup (IF Past(t) THEN {req[t].tg} ELSE {})

\* ncds_break_locks leaves no lock behind on the targets it has been to,
\* unless an unlock failed and the session is not open any more.
Breaking ==
  \A t \in Threads :
    pc[t] # "idle" /\ req[t].op = "breaklocks" /\ sess[req[t].sid] = "open" =>
      /\ \A tg \in Released(t) : ~Held(File(t), tg, req[t].sid)
      /\ pc[t] \in {"sync", "dump"} => xml[ProcOf[t]].lock[req[t].tg] # req[t].sid

LockInv == Serving /\ (raced = {} => Owned /\ Agree /\ Breaking)

(***************************************************************************)
(* The end of an operation                                                 *)
(***************************************************************************)
Bad == {"failed", "timeout", "undefined"}

\* ncds_break_locks goes on to the next target ...
GoesOn(t, rep) ==
  /\ pc'[t] = "wait" /\ req[t].op = "breaklocks"
  /\ \E tg \in NextTargets(req[t].tg) : req'[t] = [req[t] EXCEPT !.tg = tg]
  /\ IF rep \in Bad THEN sess'[req[t].sid] = "lost" ELSE sess'[req[t].sid] = sess[req[t].sid]

\* ... or is over ...
Closes(t, rep) ==
  /\ pc'[t] = "idle" /\ req[t].op = "breaklocks" /\ NextTargets(req[t].tg) = {}
  /\ \/ sess'[req[t].sid] = "lost"
     \/ sess[req[t].sid] = "open" /\ sess'[req[t].sid] = "closed" /\ rep \notin Bad

\* ... and another operation is over, having failed or not.
Ends(t, rep) ==
  /\ pc'[t] = "idle" /\ req[t].op # "breaklocks"
  /\ IF req[t].op \in LockOps /\ rep = "failed"
     THEN sess'[req[t].sid] = "unsure"
     ELSE sess'[req[t].sid] = sess[req[t].sid]

LEMMA FinishForms ==
  ASSUME TypeOK, NEW t \in Threads, Serves(t), NEW rep, Finish(t, rep)
  PROVE  /\ GoesOn(t, rep) \/ Closes(t, rep) \/ Ends(t, rep)
         /\ \A s \in Sessions \ {req[t].sid} : sess'[s] = sess[s]
PROOF
  <1> DEFINE r == req[t]
             bl == r.op = "breaklocks"
             rest == IF bl THEN NextTargets(r.tg) ELSE {}
             failed == bl /\ rep \in Bad
             over == bl /\ rest = {}
             unsure == r.op \in {"lock", "unlock"} /\ rep = "failed"
             next(x) == CASE failed -> "lost"
                          [] over /\ ~failed /\ x = "open" -> "closed"
                          [] over /\ ~failed /\ x = "unsure" -> "lost"
                          [] unsure -> "unsure"
                          [] OTHER -> x
  <1>1. r.sid \in Sessions /\ r.undo = "none" /\ sess[r.sid] \in {"open", "unsure", "lost"}
    BY Zenon DEF Serves, Request
  <1>2. sess' = [sess EXCEPT ![r.sid] = next(sess[r.sid])]
    BY Zenon DEF Finish, Bad
  <1>3. /\ \A s \in Sessions \ {r.sid} : sess'[s] = sess[s]
        /\ sess'[r.sid] = next(sess[r.sid])
    <2> HIDE DEF next
    <2> QED BY <1>1, <1>2, Zenon DEF TypeOK
  <1>4. /\ rest # {} => \E tg \in rest : req' = [req EXCEPT ![t] = [r EXCEPT !.tg = tg]]
        /\ pc' = [pc EXCEPT ![t] = IF rest # {} THEN "wait" ELSE "idle"]
    BY <1>1, Zenon DEF Finish
  <1>5. /\ rest # {} => \E tg \in rest : req'[t] = [r EXCEPT !.tg = tg]
        /\ pc'[t] = IF rest # {} THEN "wait" ELSE "idle"
    BY <1>4, Zenon DEF TypeOK
  <1>6. CASE rest # {}
    <2>1. bl /\ ~over /\ ~unsure /\ rest = NextTargets(r.tg)
      BY <1>6, Zenon
    <2>2. IF rep \in Bad THEN next(sess[r.sid]) = "lost" ELSE next(sess[r.sid]) = sess[r.sid]
      BY <2>1, Zenon
    <2> QED BY <1>3, <1>5, <1>6, <2>1, <2>2, Zenon DEF GoesOn
  <1>7. CASE rest = {} /\ bl
    <2>1. \/ next(sess[r.sid]) = "lost"
          \/ sess[r.sid] = "open" /\ next(sess[r.sid]) = "closed" /\ rep \notin Bad
      BY <1>1, <1>7, Zenon
    <2> QED BY <1>3, <1>5, <1>7, <2>1, Zenon DEF Closes
  <1>8. CASE ~bl
    <2>1. IF r.op \in LockOps /\ rep = "failed" THEN next(sess[r.sid]) = "unsure"
                                               ELSE next(sess[r.sid]) = sess[r.sid]
      BY <1>8, Zenon DEF LockOps
    <2> QED BY <1>3, <1>5, <1>8, <2>1, Zenon DEF Ends
  <1> QED BY <1>3, <1>6, <1>7, <1>8, Zenon

(***************************************************************************)
(* Sessions and their threads                                              *)
(***************************************************************************)
\* a step inside an operation
Inside(t) == LOCK(t) \/ UNLOCKPost(t) \/ Operate(t) \/ file_sync(t)

\* a step after which an operation is over
Leaving(t, rep) ==
  /\ Finish(t, rep)
  /\ \/ LockTimeout(t) /\ rep = "timeout"
     \/ UNLOCKClear(t) /\ rep = reply[t]

LEMMA StepKinds ==
  ASSUME NEW t \in Threads, ThreadStep(t)
  PROVE  Inside(t) \/ \E rep : Leaving(t, rep)
PROOF
  <1>1. CASE LockTimeout(t)
    <2>1. Leaving(t, "timeout")
      BY <1>1, Zenon DEF Leaving, LockTimeout
    <2> QED BY <2>1, Zenon
  <1>2. CASE UNLOCKClear(t)
    <2>1. Leaving(t, reply[t])
      BY <1>2, Zenon DEF Leaving, UNLOCKClear
    <2> QED BY <2>1, Zenon
  <1> QED BY <1>1, <1>2, Zenon DEF ThreadStep, Inside

LEMMA InsideKeeps ==
  ASSUME TypeOK, NEW t \in Threads, Inside(t)
  PROVE  /\ sess' = sess /\ req' = req /\ pc[t] # "idle"
         /\ req[t].op # "rollback" => \A p \in Procs : dsnodes[p] => dsnodes'[p]
PROOF
  <1> USE ConstantsAssumption
  <1>1. CASE LOCK(t) \/ UNLOCKPost(t)
    BY <1>1, Zenon DEF LOCK, UNLOCKPost, copyVars
  <1>2. CASE OperateFails(t) \/ ReloadCopy(t)
    BY <1>2, Zenon DEF OperateFails, ReloadCopy, copyVars
  <1>3. CASE file_rollback_restore(t)
    BY <1>3, Zenon DEF file_rollback_restore
  <1>4. CASE OperateOnCopy(t)
    BY <1>4, Zenon DEF OperateOnCopy, Apply
  <1>5. CASE OperateOnFile(t)
    <2>1. sess' = sess /\ req' = req /\ pc[t] = "reload"
      BY <1>5, Zenon DEF OperateOnFile, Apply
    <2>2. dsnodes' = [dsnodes EXCEPT ![ProcOf[t]] = TRUE]
      BY <1>5, Zenon DEF OperateOnFile
    <2> QED BY <2>1, <2>2, Zenon DEF TypeOK
  <1>6. CASE file_sync(t)
    BY <1>6, Zenon DEF file_sync, SyncTruncate, SyncRefused, SyncDump, SyncDumpFails, SyncStamp, SyncRest
  <1> QED BY <1>1, <1>2, <1>3, <1>4, <1>5, <1>6, Zenon DEF Inside, Operate

LEMMA ServingStep ==
  ASSUME NoUndo, IndInv, Serving, [Next]_vars
  PROVE  Serving'
PROOF
  <1> USE ConstantsAssumption
  <1>t. TypeOK /\ ActiveUp
    BY Zenon DEF IndInv
  <1>1. ASSUME NEW u \in Threads, Inside(u) PROVE Serving'
    <2>1. /\ sess' = sess /\ req' = req /\ pc[u] # "idle" /\ Serves(u)
          /\ \A p \in Procs : dsnodes'[p]
      BY <1>t, <1>1, InsideKeeps, Zenon DEF Serving, Serves
    <2>2. pstate' = pstate /\ \A t \in Threads \ {u} : pc'[t] = pc[t]
      BY <1>t, <1>1, ThreadFrame, Zenon DEF Inside, ThreadStep, Frame
    <2> QED BY <2>1, <2>2 DEF Serving, Serves
  <1>2. ASSUME NEW u \in Threads, NEW rep, Leaving(u, rep) PROVE Serving'
    <2>1. /\ pc[u] # "idle" /\ UNCHANGED <<pstate, dsnodes>> /\ Finish(u, rep)
      BY <1>2, Zenon DEF Leaving, LockTimeout, UNLOCKClear, copyVars
    <2>2. Serves(u) /\ pstate[ProcOf[u]] = "up" /\ req[u].sid \in Sessions
      BY <1>t, <2>1, Zenon DEF Serving, Serves, ActiveUp, Request
    <2>3. \A t \in Threads \ {u} : pc'[t] = pc[t] /\ req'[t] = req[t]
      BY <1>t, <2>1, FinishFrame, Zenon
    <2>4. /\ GoesOn(u, rep) \/ Closes(u, rep) \/ Ends(u, rep)
          /\ \A s \in Sessions \ {req[u].sid} : sess'[s] = sess[s]
      BY <1>t, <2>1, <2>2, FinishForms, Zenon
    <2>5. pc'[u] # "idle" => Serves(u)' /\ req'[u].sid = req[u].sid
      <3> HAVE pc'[u] # "idle"
      <3>1. GoesOn(u, rep)
        BY <2>4, Zenon DEF Closes, Ends
      <3>2. PICK tg \in NextTargets(req[u].tg) : req'[u] = [req[u] EXCEPT !.tg = tg]
        BY <3>1, Zenon DEF GoesOn
      <3>3. req[u].tg \in {"candidate", "running", "startup"}
        BY <2>2, DocsAssumption, Zenon DEF Serves, Request
      <3>4. tg \in Targets
        BY <3>3, DocsAssumption, Zenon DEF NextTargets
      <3>5. /\ req'[u] \in Request /\ req'[u].sid = req[u].sid
            /\ req'[u].undo = req[u].undo /\ req'[u].op = req[u].op
        BY <2>2, <3>2, <3>4 DEF Serves, Request
      <3>6. sess'[req[u].sid] \in {"open", "unsure", "lost"}
        BY <2>2, <3>1, Zenon DEF GoesOn, Serves
      <3> QED BY <2>2, <3>5, <3>6, Zenon DEF Serves
    <2>6. \A t \in Threads \ {u} : pc'[t] # "idle" => Serves(t)'
      <3> SUFFICES ASSUME NEW t \in Threads \ {u}, pc'[t] # "idle" PROVE Serves(t)'
        BY Zenon
      <3>1. Serves(t) /\ req[t].sid # req[u].sid /\ req[t].sid \in Sessions
        BY <2>1, <2>3 DEF Serving, Serves, Request
      <3> QED BY <2>3, <2>4, <3>1 DEF Serves
    <2>7. \A s \in Sessions : sess'[s] \in {"open", "unsure"} => pstate'[HomeOf[s]] = "up"
      BY <2>1, <2>2, <2>4 DEF Serving, Serves
    <2> QED BY <2>1, <2>3, <2>5, <2>6, <2>7 DEF Serving
  <1>3. ASSUME NEW u \in Threads, NEW r \in Requests, Begin(u, r) PROVE Serving'
    <2>1. /\ pc[u] = "idle" /\ HomeOf[r.sid] = ProcOf[u] /\ pstate[ProcOf[u]] = "up"
          /\ sess[r.sid] \in {"new", "open", "unsure"}
          /\ \A t \in Threads : pc[t] # "idle" => req[t].sid # r.sid
          /\ sess' = [sess EXCEPT ![r.sid] = IF sess[r.sid] = "new" THEN "open" ELSE sess[r.sid]]
          /\ UNCHANGED <<pstate, dsnodes>>
      BY <1>3, Zenon DEF Begin, copyVars
    <2>2. r \in Request /\ r.undo = "none" /\ r.op # "rollback" /\ r.sid \in Sessions
      BY Zenon DEF NoUndo, Request
    <2>3. /\ req'[u] \in Request /\ req'[u].sid = r.sid
          /\ req'[u].undo = r.undo /\ req'[u].op = r.op
      <3>1. FirstTarget \in Targets
        BY DocsAssumption, Zenon DEF FirstTarget
      <3>2. req'[u] = IF r.op = "breaklocks" THEN [r EXCEPT !.tg = FirstTarget] ELSE r
        BY <1>t, <1>3, Zenon DEF Begin, TypeOK
      <3> QED BY <2>2, <3>1, <3>2 DEF Request
    <2>4. /\ sess'[r.sid] \in {"open", "unsure"}
          /\ \A s \in Sessions \ {r.sid} : sess'[s] = sess[s]
      BY <1>t, <2>1, <2>2, Zenon DEF TypeOK
    <2>5. \A t \in Threads \ {u} : pc'[t] = pc[t] /\ req'[t] = req[t]
      BY <1>t, <1>3, ThreadFrame, Zenon DEF Frame
    <2>6. Serves(u)'
      BY <2>1, <2>2, <2>3, <2>4, Zenon DEF Serves
    <2>7. \A t \in Threads \ {u} : pc'[t] # "idle" => Serves(t)' /\ req'[t].sid # r.sid
      <3> SUFFICES ASSUME NEW t \in Threads \ {u}, pc'[t] # "idle"
                   PROVE  Serves(t)' /\ req'[t].sid # r.sid
        BY Zenon
      <3>1. Serves(t) /\ req[t].sid # r.sid /\ req[t].sid \in Sessions
        BY <2>1, <2>5 DEF Serving, Serves, Request
      <3> QED BY <2>4, <2>5, <3>1 DEF Serves
    <2>8. \A s \in Sessions : sess'[s] \in {"open", "unsure"} => pstate'[HomeOf[s]] = "up"
      BY <2>1, <2>4, Zenon DEF Serving
    <2> QED BY <2>1, <2>3, <2>5, <2>6, <2>7, <2>8 DEF Serving
  <1>4. ASSUME NEW p \in Procs, ncds_file_init(p) \/ InitFrame(p) \/ ncds_file_free(p)
        PROVE  Serving'
    <2>1. pc' = pc /\ req' = req /\ sess' = sess
      BY <1>4, Zenon DEF ncds_file_init, InitFrame, ncds_file_free, threadVars
    <2>2. \A q \in Procs : dsnodes'[q]
      <3>1. dsnodes' = dsnodes \/ dsnodes' = [dsnodes EXCEPT ![p] = TRUE]
        BY <1>4, Zenon DEF ncds_file_init, InitFrame, ncds_file_free, copyVars
      <3>2. \A q \in Procs : dsnodes[q] => dsnodes'[q]
        BY <1>t, <3>1, Zenon DEF TypeOK
      <3> QED BY <3>2, Zenon DEF Serving
    <2>3. \A s \in Sessions : sess[s] \in {"open", "unsure"} => pstate'[HomeOf[s]] = "up"
      <3>1. CASE ncds_file_init(p)
        <4>1. pstate[p] = "down" /\ \A q \in Procs \ {p} : pstate'[q] = pstate[q]
          BY <1>t, <3>1 DEF ncds_file_init, TypeOK
        <4> QED BY <4>1, Zenon DEF Serving
      <3>2. CASE InitFrame(p)
        <4>1. \A q \in Procs : pstate[q] = "up" => pstate'[q] = "up"
          BY <1>t, <3>2, Zenon DEF InitFrame, TypeOK
        <4> QED BY <4>1, Zenon DEF Serving
      <3>3. CASE ncds_file_free(p)
        <4>1. /\ \A q \in Procs \ {p} : pstate'[q] = pstate[q]
              /\ \A s \in Sessions : HomeOf[s] = p => sess[s] \notin {"open", "unsure"}
          BY <1>t, <3>3, Zenon DEF ncds_file_free, TypeOK
        <4> QED BY <4>1, Zenon DEF Serving
      <3> QED BY <1>4, <3>1, <3>2, <3>3, Zenon
    <2> QED BY <2>1, <2>2, <2>3 DEF Serving, Serves
  <1>5. ASSUME NEW p \in Procs, Crash(p) PROVE Serving'
    <2>1. /\ req' = req /\ dsnodes' = dsnodes
          /\ pstate' = [pstate EXCEPT ![p] = "down"]
          /\ pc' = [t \in Threads |-> IF ProcOf[t] = p THEN "idle" ELSE pc[t]]
          /\ sess' = [s \in Sessions |->
                        IF HomeOf[s] = p /\ sess[s] \in {"open", "unsure"} THEN "lost" ELSE sess[s]]
      BY <1>5, Zenon DEF Crash, copyVars
    <2>2. \A t \in Threads : pc'[t] # "idle" => pc[t] # "idle" /\ ProcOf[t] # p
      BY <2>1, Zenon
    <2>3. \A t \in Threads : pc'[t] # "idle" => Serves(t)'
      <3> SUFFICES ASSUME NEW t \in Threads, pc'[t] # "idle" PROVE Serves(t)'
        BY Zenon
      <3>1. Serves(t) /\ ProcOf[t] # p /\ req[t].sid \in Sessions
        BY <2>2, Zenon DEF Serving, Serves, Request
      <3>2. sess'[req[t].sid] = sess[req[t].sid]
        BY <2>1, <3>1, Zenon DEF Serves
      <3> QED BY <2>1, <3>1, <3>2, Zenon DEF Serves
    <2>4. \A s \in Sessions : sess'[s] \in {"open", "unsure"} => pstate'[HomeOf[s]] = "up"
      <3> SUFFICES ASSUME NEW s \in Sessions, sess'[s] \in {"open", "unsure"}
                   PROVE  pstate'[HomeOf[s]] = "up"
        BY Zenon
      <3>1. HomeOf[s] # p /\ sess[s] \in {"open", "unsure"}
        BY <2>1, Zenon
      <3> QED BY <1>t, <2>1, <3>1, Zenon DEF Serving, TypeOK
    <2> QED BY <2>1, <2>2, <2>3, <2>4, Zenon DEF Serving
  <1>6. CASE Tick \/ UNCHANGED vars
    BY <1>6 DEF Tick, vars, threadVars, copyVars, Serving, Serves
  <1>7. ASSUME NEW u \in Threads, ThreadStep(u) PROVE Serving'
    BY <1>1, <1>2, <1>7, StepKinds, Zenon
  <1> QED BY <1>3, <1>4, <1>5, <1>6, <1>7, Zenon DEF Next, ProcStep

(***************************************************************************)
(* Steps that put no lock anywhere                                         *)
(***************************************************************************)
Sound == Owned /\ Agree /\ Breaking

\* ncds_break_locks of thread t is where it was, or the unlock failed
Follows(t) ==
  /\ pc[t] # "idle" /\ req[t].op = "breaklocks" /\ req'[t].sid = req[t].sid
  /\ File(t)' = File(t)
  /\ Released(t)' \subseteq Released(t)
  /\ pc'[t] \in {"sync", "dump"} =>
       /\ pc[t] \in {"sync", "dump"} /\ req'[t].tg = req[t].tg
       /\ xml'[ProcOf[t]] = xml[ProcOf[t]]

Closing(t) == pc[t] # "idle" /\ req[t].op = "breaklocks" /\ sess[req[t].sid] = "open"

\* the file and the session of t, read in the next state
LEMMA HeldNext ==
  ASSUME NEW t \in Threads, NEW tg, NEW f, NEW s, f = path'[ProcOf[t]], s = req'[t].sid,
         ~Held(f, tg, s)'
  PROVE  ~Held(File(t), tg, req[t].sid)'
PROOF BY DEF File, Held, HeldIn, HeldBy

LEMMA ReleasedTargets ==
  ASSUME NEW t \in Threads, Serves(t)
  PROVE  Released(t) \subseteq Targets /\ req[t].sid \in Sessions /\ req[t].tg \in Targets
PROOF
  <1>1. req[t].tg \in Targets /\ req[t].sid \in Sessions
    BY Zenon DEF Serves, Request
  <1>2. req[t].tg \in {"candidate", "running", "startup"}
    BY <1>1, DocsAssumption, Zenon
  <1> QED BY <1>1, <1>2, Zenon DEF Released, Before

\* What such a step does: no lock gets into a file, a copy that counts counted
\* before and has not changed, nor has its file, ...
NoNewLocks ==
  /\ \A f \in Files, tg \in Targets, s \in Sessions : HeldIn(f, tg, s)' => HeldIn(f, tg, s)
  /\ \A p \in Procs : Kept(p)' => /\ Kept(p) /\ xml'[p] = xml[p] /\ path'[p] = path[p]
                                  /\ disk'[path[p]].doc = disk[path[p]].doc

\* ... no session that holds a lock is opened or closed, ...
NoNewOwners ==
  /\ \A s \in Sessions : \/ sess'[s] = sess[s] \/ sess'[s] \in {"unsure", "lost"}
                         \/ \A f \in Files, tg \in Targets : ~Held(f, tg, s)
  /\ \A s \in Sessions : sess'[s] = "open" => path'[HomeOf[s]] = path[HomeOf[s]]
  /\ \A s \in Sessions : sess'[s] = "open" /\ Changing(s) => Changing(s)'

\* ... and ncds_break_locks does not get on, or begins.
NoProgress ==
  \A t \in Threads : Closing(t)' => \/ Closing(t) /\ Follows(t)
                                    \/ Released(t)' = {} /\ pc'[t] = "wait"

LEMMA FewerHeld ==
  ASSUME NoNewLocks, NEW f \in Files, NEW tg \in Targets, NEW s \in Sessions, Held(f, tg, s)'
  PROVE  Held(f, tg, s)
  BY Zenon DEF NoNewLocks, Held, HeldBy

LEMMA FewerAgree ==
  ASSUME TypeOK, Agree, NoNewLocks, NoNewOwners
  PROVE  Agree'
PROOF
  <1> SUFFICES ASSUME NEW p \in Procs, NEW tg \in Targets, NEW s \in Sessions,
                      Kept(p)', sess'[s] = "open", ~Changing(s)'
               PROVE  xml'[p].lock[tg] = s <=> disk'[path'[p]].doc.lock[tg] = s
    BY DEF Agree, HeldIn
  <1>1. /\ Kept(p) /\ xml'[p] = xml[p] /\ path'[p] = path[p] /\ ~Changing(s)
        /\ disk'[path[p]].doc = disk[path[p]].doc /\ path[p] \in Files
    BY Zenon DEF TypeOK, NoNewLocks, NoNewOwners
  <1>2. CASE sess[s] = "open"
    BY <1>1, <1>2 DEF Agree, HeldIn
  <1>3. CASE \A f \in Files : ~Held(f, tg, s)
    BY <1>1, <1>3, Zenon DEF Held, HeldBy, HeldIn
  <1> QED BY <1>2, <1>3, Zenon DEF NoNewOwners

LEMMA FewerBreaking ==
  ASSUME TypeOK, Serving, Breaking, NoNewLocks, NoProgress
  PROVE  Breaking'
PROOF
  <1> SUFFICES ASSUME NEW t \in Threads, Closing(t)'
               PROVE  /\ \A tg \in Released(t)' : ~Held(File(t), tg, req[t].sid)'
                      /\ pc'[t] \in {"sync", "dump"} =>
                           xml'[ProcOf[t]].lock[req'[t].tg] # req'[t].sid
    BY Zenon DEF Breaking, Closing
  <1>1. CASE Released(t)' = {} /\ pc'[t] = "wait"
    BY <1>1, Zenon
  <1>2. CASE Closing(t) /\ Follows(t)
    <2>1. Serves(t) /\ File(t) \in Files
      BY <1>2, ConstantsAssumption DEF Follows, Serving, TypeOK, File
    <2>2. Released(t) \subseteq Targets /\ req[t].sid \in Sessions
      BY <2>1, ReleasedTargets, Zenon
    <2>3. /\ \A tg \in Released(t) : ~Held(File(t), tg, req[t].sid)
          /\ pc[t] \in {"sync", "dump"} => xml[ProcOf[t]].lock[req[t].tg] # req[t].sid
      BY <1>2, Zenon DEF Breaking, Closing
    <2>4. \A tg \in Released(t)' : ~Held(File(t), tg, req[t].sid)'
      <3> SUFFICES ASSUME NEW tg \in Released(t)', Held(File(t), tg, req[t].sid)'
                   PROVE  FALSE
        BY Zenon
      <3>1. ~Held(File(t), tg, req[t].sid) /\ tg \in Targets
        BY <1>2, <2>2, <2>3, Zenon DEF Follows
      <3>2. \A f, s : f = File(t)' /\ s = req'[t].sid => Held(f, tg, s)'
        BY Zenon
      <3>3. Held(File(t), tg, req[t].sid)
        BY <1>2, <2>1, <2>2, <3>1, <3>2, FewerHeld, Zenon DEF Follows
      <3> QED BY <3>1, <3>3, Zenon
    <2> QED BY <1>2, <2>3, <2>4, Zenon DEF Follows
  <1> QED BY <1>1, <1>2, Zenon DEF NoProgress

LEMMA FewerLocks ==
  ASSUME TypeOK, Serving, Sound, NoNewLocks, NoNewOwners, NoProgress
  PROVE  Sound'
PROOF
  <1>1. Owned'
    BY FewerHeld DEF Sound, Owned, NoNewOwners
  <1>2. Agree' /\ Breaking'
    BY FewerAgree, FewerBreaking, Zenon DEF Sound
  <1> QED BY <1>1, <1>2, Zenon DEF Sound

(***************************************************************************)
(* The steps of a thread and the copies of other processes                 *)
(***************************************************************************)
LEMMA Writes ==
  ASSUME TypeOK, NEW u \in Threads, ThreadStep(u) \/ \E r \in Requests : Begin(u, r)
  PROVE  \/ disk' = disk /\ mtime' = mtime
         \/ pc[u] \in {"sync", "dump"} /\ mtime'[File(u)] = clock
PROOF
  <1> USE ConstantsAssumption
  <1>1. CASE Operate(u)
    BY <1>1, ApplyFrame, Zenon DEF Operate, OperateFails, OperateOnCopy, ReloadCopy, OperateOnFile,
       file_rollback_restore, fileVars
  <1>2. CASE SyncRefused(u) \/ SyncStamp(u)
    BY <1>2, Zenon DEF SyncRefused, SyncStamp
  <1>3. CASE SyncTruncate(u) \/ SyncDump(u) \/ SyncDumpFails(u)
    BY <1>3, Zenon DEF SyncTruncate, SyncDump, SyncDumpFails, TypeOK, File
  <1>4. CASE \/ LOCK(u) \/ LockTimeout(u) \/ UNLOCKPost(u) \/ UNLOCKClear(u)
             \/ \E r \in Requests : Begin(u, r)
    BY <1>4, Zenon DEF LOCK, LockTimeout, UNLOCKPost, UNLOCKClear, Begin, fileVars
  <1> QED BY <1>1, <1>2, <1>3, <1>4, Zenon DEF ThreadStep, file_sync

\* A write makes the copies of all other processes of the file useless, as
\* file_reload finds them older; nobody else is about to write one.
LEMMA KeptOther ==
  ASSUME IndInv, NEW u \in Threads, ThreadStep(u) \/ \E r \in Requests : Begin(u, r),
         NEW p \in Procs \ {ProcOf[u]}, Kept(p)'
  PROVE  /\ Kept(p) /\ xml'[p] = xml[p] /\ path'[p] = path[p]
         /\ disk'[path[p]] = disk[path[p]]
         /\ pc[u] \in {"sync", "dump"} /\ mtime'[File(u)] = clock => path[p] # File(u)
PROOF
  <1> USE ConstantsAssumption
  <1>t. TypeOK /\ MutualExclusion /\ Times
    BY Zenon DEF IndInv
  <1>1. Frame(u) /\ clock' = clock
    BY <1>t, ThreadFrame, Zenon
  <1>2. \A t \in Threads : ProcOf[t] = p => pc'[t] = pc[t]
    BY <1>1, Zenon DEF Frame
  <1>3. path[p] \in Files /\ last_access[p] \in Nat /\ clock \in Nat /\ last_access[p] <= clock
    BY <1>t, Zenon DEF TypeOK, Times
  <1>4. ASSUME disk'[path[p]] = disk[path[p]], mtime'[path[p]] = mtime[path[p]]
        PROVE  Kept(p)
    BY <1>1, <1>2, <1>4, Zenon DEF Frame, Kept, NotModified
  <1>5. ASSUME path[p] = File(u), pc[u] \in {"sync", "dump"}, mtime'[File(u)] = clock
        PROVE  FALSE
    <2>1. ~NotModified(p)'
      BY <1>1, <1>3, <1>5 DEF NotModified, Frame
    <2>2. PICK t \in Threads : ProcOf[t] = p /\ pc'[t] \in {"sync", "dump", "stamp"}
      BY <2>1, Zenon DEF Kept
    <2>3. InCS(t) /\ InCS(u) /\ File(t) = File(u) /\ t # u
      BY <1>2, <1>5, <2>2, Zenon DEF InCS, File
    <2> QED BY <1>t, <2>3, Zenon DEF MutualExclusion
  <1>6. path'[p] = path[p] /\ xml'[p] = xml[p]
    BY <1>1, Zenon DEF Frame
  <1>7. CASE path[p] # File(u)
    <2>1. disk'[path[p]] = disk[path[p]] /\ mtime'[path[p]] = mtime[path[p]]
      BY <1>1, <1>3, <1>7, Zenon DEF Frame
    <2> QED BY <1>4, <1>6, <1>7, <2>1, Zenon
  <1>8. CASE path[p] = File(u)
    <2>1. \/ disk'[path[p]] = disk[path[p]] /\ mtime'[path[p]] = mtime[path[p]]
          \/ pc[u] \in {"sync", "dump"} /\ mtime'[File(u)] = clock
      BY <1>t, Writes, Zenon
    <2> QED BY <1>4, <1>5, <1>6, <1>8, <2>1, Zenon
  <1> QED BY <1>7, <1>8, Zenon

\* the part of thread t in Changing
ChangedBy(t) ==
  /\ req[t].op \in LockOps
  /\ \/ pc[t] \in {"sync", "dump"}
     \/ pc[t] \in {"post", "clear"} /\ reply[t] = "failed"

\* What a step of thread u that puts no lock anywhere does to its own part.
PutsNone(u) ==
  /\ \A f \in Files : disk'[f].doc = disk[f].doc
  /\ Kept(ProcOf[u])' => Kept(ProcOf[u]) /\ xml'[ProcOf[u]] = xml[ProcOf[u]]
  /\ \A s \in Sessions : \/ sess'[s] = sess[s] \/ sess'[s] \in {"unsure", "lost"}
                         \/ /\ sess'[s] = "closed"
                            /\ \A f \in Files, tg \in Targets : ~Held(f, tg, s)
  /\ ChangedBy(u) => \/ ChangedBy(u)' /\ req'[u].sid = req[u].sid
                     \/ sess'[req[u].sid] # "open"
  /\ Closing(u)' => Follows(u)

LEMMA FewerByThread ==
  ASSUME IndInv, Serving, Sound, NEW u \in Threads, ThreadStep(u), PutsNone(u)
  PROVE  Sound'
PROOF
  <1>t. TypeOK /\ MutualExclusion
    BY Zenon DEF IndInv
  <1>1. Frame(u)
    BY <1>t, ThreadFrame, Zenon
  <1>2. NoNewLocks
    <2>1. \A f \in Files, tg \in Targets, s \in Sessions : HeldIn(f, tg, s)' => HeldIn(f, tg, s)
      BY Zenon DEF HeldIn, PutsNone
    <2>2. ASSUME NEW p \in Procs, Kept(p)'
          PROVE  /\ Kept(p) /\ xml'[p] = xml[p] /\ path'[p] = path[p]
                 /\ disk'[path[p]].doc = disk[path[p]].doc
      <3>1. path[p] \in Files
        BY <1>t, Zenon DEF TypeOK
      <3>2. CASE p = ProcOf[u]
        BY <1>1, <2>2, <3>1, <3>2, Zenon DEF PutsNone, Frame
      <3>3. CASE p # ProcOf[u]
        BY <2>2, <3>3, KeptOther
      <3> QED BY <3>2, <3>3, Zenon
    <2> QED BY <2>1, <2>2, Zenon DEF NoNewLocks
  <1>3. NoNewOwners
    <2>1. \A s \in Sessions : sess'[s] = "open" => path'[HomeOf[s]] = path[HomeOf[s]]
      BY <1>1, Zenon DEF Frame
    <2>2. \A s \in Sessions : sess'[s] = "open" /\ Changing(s) => Changing(s)'
      <3> SUFFICES ASSUME NEW s \in Sessions, sess'[s] = "open", NEW t \in Threads,
                          req[t].sid = s, ChangedBy(t)
                   PROVE  req'[t].sid = s /\ ChangedBy(t)'
        BY DEF Changing, ChangedBy
      <3>1. CASE t = u
        BY <3>1, Zenon DEF PutsNone
      <3>2. CASE t # u
        BY <1>1, <3>2, Zenon DEF Frame, ChangedBy
      <3> QED BY <3>1, <3>2, Zenon
    <2> QED BY <2>1, <2>2, Zenon DEF NoNewOwners, PutsNone
  <1>4. ASSUME NEW t \in Threads, Closing(t)' PROVE Follows(t)
    <2>1. CASE t = u
      BY <1>4, <2>1, Zenon DEF PutsNone
    <2>2. CASE t # u
      <3>1. pc'[t] = pc[t] /\ req'[t] = req[t] /\ reply'[t] = reply[t] /\ File(t)' = File(t)
        BY <1>1, <2>2, Zenon DEF Frame, File
      <3>2. Released(t)' = Released(t)
        BY <3>1, Zenon DEF Released, Past
      <3>3. pc'[t] \in {"sync", "dump"} => xml'[ProcOf[t]] = xml[ProcOf[t]]
        BY <2>2, <3>1, OthersQuiet, Zenon DEF InCS
      <3> QED BY <1>4, <3>1, <3>2, <3>3, Zenon DEF Follows, Closing
    <2> QED BY <2>1, <2>2, Zenon
  <1>5. ASSUME NEW t \in Threads, Closing(t)' PROVE Closing(t)
    <2>1. Follows(t)
      BY <1>4, <1>5, Zenon
    <2>2. Serves(t)
      BY <2>1, Zenon DEF Follows, Serving
    <2>3. req[t].sid \in Sessions
      BY <2>2, Zenon DEF Serves, Request
    <2> QED BY <1>5, <2>1, <2>3, Zenon DEF Follows, Closing, PutsNone
  <1>6. NoProgress
    BY <1>4, <1>5, Zenon DEF NoProgress
  <1> QED BY <1>t, <1>2, <1>3, <1>6, FewerLocks, Zenon

(***************************************************************************)
(* The steps that put no lock anywhere                                     *)
(***************************************************************************)
LEMMA QuietStep ==
  ASSUME IndInv, Serving, Sound, NEW u \in Threads,
         \/ LOCK(u) \/ UNLOCKPost(u) \/ OperateFails(u) \/ ReloadCopy(u)
         \/ SyncTruncate(u) \/ SyncRefused(u) \/ SyncDumpFails(u) \/ SyncStamp(u)
  PROVE  Sound'
PROOF
  <1> USE ConstantsAssumption
  <1>t. TypeOK /\ ActiveUp
    BY Zenon DEF IndInv
  <1>s. ThreadStep(u)
    BY Zenon DEF ThreadStep, Operate, file_sync
  <1>1. pc[u] # "idle" /\ sess' = sess /\ req' = req /\ xml' = xml /\ path' = path
    BY Zenon DEF LOCK, UNLOCKPost, OperateFails, ReloadCopy, SyncTruncate, SyncRefused, SyncDumpFails,
       SyncStamp, copyVars, SyncRest
  <1>2. \A f \in Files : disk'[f].doc = disk[f].doc
    <2>1. CASE LOCK(u) \/ UNLOCKPost(u) \/ OperateFails(u) \/ ReloadCopy(u) \/ SyncRefused(u) \/ SyncStamp(u)
      BY <2>1, Zenon DEF LOCK, UNLOCKPost, OperateFails, ReloadCopy, SyncRefused, SyncStamp, fileVars
    <2>2. CASE SyncTruncate(u) \/ SyncDumpFails(u)
      <3>1. \E st : disk' = [disk EXCEPT ![File(u)].st = st]
        BY <2>2, Zenon DEF SyncTruncate, SyncDumpFails, File
      <3> QED BY <1>t, <3>1 DEF TypeOK
    <2> QED BY <2>1, <2>2, Zenon
  <1>3. /\ pstate' = pstate /\ pstate[ProcOf[u]] = "up"
        /\ \A t \in Threads \ {u} : pc'[t] = pc[t]
    BY <1>t, <1>1, <1>s, ThreadFrame, Zenon DEF Frame, ActiveUp
  <1>4. \/ pc[u] \in {"sync", "dump", "stamp"}
        \/ pc'[u] \notin {"sync", "dump", "stamp"} /\ mtime' = mtime /\ last_access' = last_access
    BY <1>t DEF LOCK, UNLOCKPost, OperateFails, ReloadCopy, SyncTruncate, SyncRefused, SyncDumpFails,
       SyncStamp, copyVars, fileVars, ToPost, TypeOK
  <1>5. Kept(ProcOf[u])' => Kept(ProcOf[u])
    BY <1>1, <1>3, <1>4, Zenon DEF Kept, NotModified
  <1>6. ChangedBy(u) => ChangedBy(u)'
    BY <1>t, <1>1, SMTT(40) DEF LOCK, UNLOCKPost, OperateFails, ReloadCopy, SyncTruncate, SyncRefused, SyncDumpFails,
       SyncStamp, SyncRest, ToPost, TypeOK, ChangedBy
  <1>7. Past(u)' => Past(u)
    BY <1>t, SMTT(40) DEF LOCK, UNLOCKPost, OperateFails, ReloadCopy, SyncTruncate, SyncRefused, SyncDumpFails,
       SyncStamp, SyncRest, ToPost, TypeOK, Past
  <1>8. pc'[u] \in {"sync", "dump"} => pc[u] \in {"sync", "dump"}
    BY <1>t DEF LOCK, UNLOCKPost, OperateFails, ReloadCopy, SyncTruncate, SyncRefused, SyncDumpFails,
       SyncStamp, ToPost, TypeOK
  <1>9. Closing(u)' => Follows(u)
    BY <1>1, <1>7, <1>8, Zenon DEF Closing, Follows, Released, File
  <1>10. PutsNone(u)
    BY <1>1, <1>2, <1>5, <1>6, <1>9, Zenon DEF PutsNone
  <1> QED BY <1>10, <1>s, FewerByThread, Zenon

\* An operation is over, or ncds_break_locks goes on.  When it closes the
\* session it has been to all targets.
LEMMA LeavingStep ==
  ASSUME IndInv, Serving, Sound, NEW u \in Threads, ThreadStep(u), NEW rep, Leaving(u, rep)
  PROVE  Sound'
PROOF
  <1> USE ConstantsAssumption
  <1>t. TypeOK /\ ActiveUp
    BY Zenon DEF IndInv
  <1>1. /\ disk' = disk /\ mtime' = mtime /\ path' = path /\ xml' = xml
        /\ last_access' = last_access /\ pc[u] \in {"wait", "clear"}
        /\ pc[u] = "wait" => rep = "timeout"
        /\ pc[u] = "clear" => rep = reply[u]
    BY Zenon DEF Leaving, LockTimeout, UNLOCKClear, fileVars, copyVars
  <1>2. Serves(u)
    BY <1>1, Zenon DEF Serving
  <1>3. req[u].tg \in Targets /\ req[u].sid \in Sessions /\ req[u] \in Request
    BY <1>2, Zenon DEF Serves, Request
  <1>4. /\ GoesOn(u, rep) \/ Closes(u, rep) \/ Ends(u, rep)
        /\ \A s \in Sessions \ {req[u].sid} : sess'[s] = sess[s]
    BY <1>t, <1>2, FinishForms, Zenon DEF Leaving
  <1>5. /\ \/ sess'[req[u].sid] = sess[req[u].sid] \/ sess'[req[u].sid] \in {"unsure", "lost"}
           \/ sess'[req[u].sid] = "closed"
        /\ rep = "failed" /\ req[u].op \in LockOps => sess'[req[u].sid] # "open"
        /\ req[u].op = "breaklocks" /\ rep \in Bad => sess'[req[u].sid] # "open"
    BY <1>4, Zenon DEF GoesOn, Closes, Ends, Bad, LockOps
  <1>6. Kept(ProcOf[u])' => Kept(ProcOf[u])
    <2>1. pc'[u] \in {"wait", "idle"}
      BY <1>4, Zenon DEF GoesOn, Closes, Ends
    <2>2. pstate' = pstate /\ \A t \in Threads \ {u} : pc'[t] = pc[t]
      BY <1>t, ThreadFrame, Zenon DEF Frame
    <2> QED BY <1>1, <2>1, <2>2, Zenon DEF Kept, NotModified
  <1>7. ChangedBy(u) => sess'[req[u].sid] # "open"
    BY <1>1, <1>5, Zenon DEF ChangedBy
  <1>8. Closing(u)' => Follows(u)
    <2> SUFFICES ASSUME Closing(u)' PROVE Follows(u)
      BY Zenon
    <2>1. GoesOn(u, rep)
      BY <1>4, Zenon DEF Closing, Closes, Ends
    <2>2. PICK tg \in NextTargets(req[u].tg) : req'[u] = [req[u] EXCEPT !.tg = tg]
      BY <2>1, Zenon DEF GoesOn
    <2>3. req'[u].sid = req[u].sid /\ req'[u].tg = tg /\ pc'[u] = "wait"
      BY <1>3, <2>1, <2>2, Zenon DEF GoesOn, Request
    <2>4. rep \notin Bad /\ sess'[req[u].sid] = "open" /\ req[u].op = "breaklocks"
      BY <1>5, <2>1, <2>3, Zenon DEF Closing, GoesOn
    <2>5. Past(u) /\ ~Past(u)'
      BY <1>1, <2>3, <2>4, Zenon DEF Past, Bad
    <2>6. req[u].tg \in {"candidate", "running", "startup"}
      BY <1>3, DocsAssumption, Zenon
    <2>7. Before(tg) = Before(req[u].tg) \cup {req[u].tg}
      BY <1>3, <2>6, <2>2, DocsAssumption, Zenon DEF Before, NextTargets
    <2>8. Released(u)' = Released(u)
      BY <2>3, <2>5, <2>7, Zenon DEF Released
    <2> QED BY <1>1, <2>3, <2>4, <2>8, Zenon DEF Follows, File
  <1>9. ASSUME sess'[req[u].sid] = "closed"
        PROVE  \/ sess'[req[u].sid] = sess[req[u].sid]
               \/ \A f \in Files, tg \in Targets : ~Held(f, tg, req[u].sid)
    <2> SUFFICES ASSUME sess'[req[u].sid] # sess[req[u].sid],
                        NEW f \in Files, NEW tg \in Targets, Held(f, tg, req[u].sid)
                 PROVE  FALSE
      BY Zenon
    <2>1. Closes(u, rep) /\ sess[req[u].sid] = "open" /\ rep \notin Bad
      BY <1>4, <1>9, Zenon DEF GoesOn, Closes, Ends
    <2>2. Past(u) /\ Closing(u)
      BY <1>1, <2>1, Zenon DEF Closes, Past, Bad, Closing
    <2>3. req[u].tg \in {"candidate", "running", "startup"}
      BY <1>3, DocsAssumption, Zenon
    <2>4. Targets \subseteq Before(req[u].tg) \cup {req[u].tg}
      BY <2>1, <2>3, DocsAssumption, Zenon DEF Closes, Before, NextTargets
    <2>5. f = File(u)
      BY <1>2, <1>3, <2>1 DEF Sound, Owned, Serves, File
    <2> QED BY <2>2, <2>4, <2>5, Zenon DEF Sound, Breaking, Closing, Released
  <1>10. \A s \in Sessions : \/ sess'[s] = sess[s] \/ sess'[s] \in {"unsure", "lost"}
                             \/ /\ sess'[s] = "closed"
                                /\ \A f \in Files, tg \in Targets : ~Held(f, tg, s)
    BY <1>3, <1>4, <1>5, <1>9, Zenon
  <1>11. PutsNone(u)
    BY <1>1, <1>6, <1>7, <1>8, <1>10, Zenon DEF PutsNone
  <1> QED BY <1>11, FewerByThread, Zenon

LEMMA BeginStep ==
  ASSUME IndInv, Serving, Sound, NEW u \in Threads, NEW r \in Requests, Begin(u, r)
  PROVE  Sound'
PROOF
  <1> USE ConstantsAssumption
  <1>t. TypeOK
    BY Zenon DEF IndInv
  <1>1. /\ disk' = disk /\ mtime' = mtime /\ path' = path /\ xml' = xml
        /\ last_access' = last_access /\ pstate' = pstate /\ pc[u] = "idle"
    BY Zenon DEF Begin, fileVars, copyVars
  <1>2. /\ pc'[u] = "wait" /\ \A t \in Threads \ {u} : pc'[t] = pc[t] /\ req'[t] = req[t]
                                                       /\ reply'[t] = reply[t]
    BY <1>t, Zenon DEF Begin, TypeOK
  <1>3. r \in Request /\ r.sid \in Sessions
    BY Zenon DEF Request
  <1>4. /\ sess'[r.sid] = sess[r.sid] \/ sess[r.sid] = "new"
        /\ \A s \in Sessions \ {r.sid} : sess'[s] = sess[s]
    BY <1>t, <1>3, Zenon DEF Begin, TypeOK
  <1>5. \A p \in Procs : Kept(p)' => Kept(p)
    BY <1>1, <1>2, Zenon DEF Kept, NotModified
  <1>6. sess[r.sid] = "new" => \A f \in Files, tg \in Targets : ~Held(f, tg, r.sid)
    BY <1>3 DEF Sound, Owned
  <1>7. \A s \in Sessions : Changing(s) => Changing(s)'
    BY <1>1, <1>2, Zenon DEF Changing
  <1>8. ASSUME NEW t \in Threads \ {u}, Closing(t)' PROVE Closing(t) /\ Follows(t)
    <2>1. pc[t] # "idle" /\ Serves(t) /\ req[t].sid # r.sid
      BY <1>2, <1>8 DEF Closing, Serving, Begin
    <2>2. req[t].sid \in Sessions
      BY <2>1, Zenon DEF Serves, Request
    <2>3. Released(t)' = Released(t) /\ File(t)' = File(t)
      BY <1>1, <1>2, Zenon DEF Released, Past, File
    <2> QED BY <1>1, <1>2, <1>4, <1>8, <2>1, <2>2, <2>3, Zenon DEF Closing, Follows
  <1>9. ASSUME Closing(u)' PROVE Released(u)' = {}
    <2>1. req'[u] = IF r.op = "breaklocks" THEN [r EXCEPT !.tg = FirstTarget] ELSE r
      BY <1>t, Zenon DEF Begin, TypeOK
    <2>2. req'[u].op = r.op
      BY <1>3, <2>1, Zenon DEF Request
    <2>3. req'[u].tg = FirstTarget
      BY <1>3, <1>9, <2>1, <2>2, Zenon DEF Closing, Request
    <2>4. Before(FirstTarget) = {}
      BY Zenon DEF Before, FirstTarget
    <2> QED BY <1>2, <2>3, <2>4, Zenon DEF Released, Past
  <1>10. \A s \in Sessions : \/ sess'[s] = sess[s] \/ sess'[s] \in {"unsure", "lost"}
                             \/ \A f \in Files, tg \in Targets : ~Held(f, tg, s)
    BY <1>4, <1>6, Zenon
  <1>11. \A f \in Files, tg \in Targets, s \in Sessions : HeldIn(f, tg, s)' => HeldIn(f, tg, s)
    BY <1>1, Zenon DEF HeldIn
  <1>12. \A t \in Threads : Closing(t)' => \/ Closing(t) /\ Follows(t)
                                           \/ Released(t)' = {} /\ pc'[t] = "wait"
    BY <1>2, <1>8, <1>9, Zenon
  <1>13. NoNewLocks /\ NoNewOwners /\ NoProgress
    BY <1>1, <1>5, <1>7, <1>10, <1>11, <1>12, Zenon DEF NoNewLocks, NoNewOwners, NoProgress
  <1> QED BY <1>t, <1>13, FewerLocks, Zenon

(***************************************************************************)
(* Processes and time                                                      *)
(***************************************************************************)
LEMMA InitStep ==
  ASSUME IndInv, Serving, Sound, NEW p \in Procs, ncds_file_init(p)
  PROVE  Sound'
PROOF
  <1> USE ConstantsAssumption
  <1>t. TypeOK /\ ActiveUp /\ Times
    BY Zenon DEF IndInv
  <1>1. /\ pc' = pc /\ req' = req /\ reply' = reply /\ sess' = sess /\ pstate[p] = "down"
    BY Zenon DEF ncds_file_init, threadVars
  <1>2. PICK f \in Files :
          /\ path' = [path EXCEPT ![p] = f]
          /\ \E d : xml' = [xml EXCEPT ![p] = d]
          /\ \E x : pstate' = [pstate EXCEPT ![p] = x]
          /\ disk' = disk \/ disk' = [disk EXCEPT ![f].st = "empty"]
          /\ mtime' = mtime \/ mtime' = [mtime EXCEPT ![f] = clock]
    BY Zenon DEF ncds_file_init
  <1>3. /\ \A g \in Files : disk'[g].doc = disk[g].doc /\ mtime'[g] \in Nat
        /\ \A g \in Files : mtime'[g] = mtime[g] \/ mtime'[g] = clock
    <2>1. \A g \in Files : disk'[g].doc = disk[g].doc
      <3>1. CASE disk' = disk
        BY <3>1, Zenon
      <3>2. CASE disk' = [disk EXCEPT ![f].st = "empty"]
        BY <1>t, <3>2 DEF TypeOK
      <3> QED BY <1>2, <3>1, <3>2, Zenon
    <2>2. \A g \in Files : mtime'[g] = mtime[g] \/ mtime'[g] = clock
      BY <1>t, <1>2, Zenon DEF TypeOK
    <2> QED BY <1>t, <2>1, <2>2, Zenon DEF TypeOK
  <1>4. /\ last_access'[p] = 0
        /\ \A q \in Procs \ {p} : /\ last_access'[q] = last_access[q] /\ pstate'[q] = pstate[q]
                                  /\ path'[q] = path[q] /\ xml'[q] = xml[q]
    BY <1>t, <1>2 DEF ncds_file_init, TypeOK
  <1>5. \A t \in Threads : pc[t] # "idle" => ProcOf[t] # p
    BY <1>t, <1>1, Zenon DEF ActiveUp
  <1>6. ~Kept(p)'
    <2>1. path'[p] \in Files
      BY <1>t, <1>2, Zenon DEF TypeOK
    <2> QED BY <1>1, <1>3, <1>4, <1>5, <2>1 DEF Kept, NotModified
  <1>7. ASSUME NEW q \in Procs \ {p}, Kept(q)' PROVE Kept(q)
    <2>1. path[q] \in Files /\ last_access[q] \in Nat /\ clock \in Nat /\ last_access[q] <= clock
      BY <1>t, Zenon DEF TypeOK, Times
    <2> QED BY <1>1, <1>3, <1>4, <1>7, <2>1 DEF Kept, NotModified
  <1>8. \A q \in Procs : Kept(q)' => /\ Kept(q) /\ xml'[q] = xml[q] /\ path'[q] = path[q]
                                     /\ disk'[path[q]].doc = disk[path[q]].doc
    BY <1>t, <1>3, <1>4, <1>6, <1>7, Zenon DEF TypeOK
  <1>9. \A s \in Sessions : sess'[s] = "open" => path'[HomeOf[s]] = path[HomeOf[s]]
    BY <1>1, <1>4, Zenon DEF Serving
  <1>10. \A f2 \in Files, tg \in Targets, s \in Sessions : HeldIn(f2, tg, s)' => HeldIn(f2, tg, s)
    BY <1>3, Zenon DEF HeldIn
  <1>11. \A s \in Sessions : Changing(s) => Changing(s)'
    BY <1>1, Zenon DEF Changing
  <1>12. \A t \in Threads : Closing(t)' => Closing(t) /\ Follows(t)
    <2> SUFFICES ASSUME NEW t \in Threads, Closing(t)' PROVE Closing(t) /\ Follows(t)
      BY Zenon
    <2>1. ProcOf[t] # p
      BY <1>1, <1>5, Zenon DEF Closing
    <2>2. Released(t)' = Released(t)
      BY <1>1, Zenon DEF Released, Past
    <2> QED BY <1>1, <1>4, <2>1, <2>2, Zenon DEF Closing, Follows, File
  <1>13. NoNewLocks /\ NoNewOwners /\ NoProgress
    BY <1>1, <1>8, <1>9, <1>10, <1>11, <1>12, Zenon DEF NoNewLocks, NoNewOwners, NoProgress
  <1> QED BY <1>t, <1>13, FewerLocks, Zenon

\* The frame that a starting process writes holds no lock, and nobody else
\* was at work on the file.
LEMMA InitFrameStep ==
  ASSUME IndInv, Serving, Sound, NEW p \in Procs, InitFrame(p), raced = {}, raced' = {}
  PROVE  Sound'
PROOF
  <1> USE ConstantsAssumption
  <1>t. TypeOK /\ ActiveUp /\ Times /\ MutualExclusion
    BY Zenon DEF IndInv
  <1> DEFINE f == path[p]
  <1>f. f \in Files
    BY <1>t, Zenon DEF TypeOK
  <1>1. /\ pc' = pc /\ req' = req /\ reply' = reply /\ sess' = sess /\ path' = path
        /\ xml' = xml /\ last_access' = last_access /\ pstate[p] = "init"
        /\ mtime' = [mtime EXCEPT ![f] = clock]
        /\ pstate' = [pstate EXCEPT ![p] = "up"]
    BY Zenon DEF InitFrame, threadVars, copyVars
  <1>2. sem[f] = 1 /\ disk' = [disk EXCEPT ![f] = [st |-> "ok", doc |-> file_create_xmlframe]]
    BY Zenon DEF InitFrame
  <1>3. /\ disk'[f].doc = file_create_xmlframe /\ mtime'[f] = clock
        /\ \A g \in Files \ {f} : disk'[g] = disk[g] /\ mtime'[g] = mtime[g]
    BY <1>t, <1>f, <1>1, <1>2, Zenon DEF TypeOK
  <1>4. \A g \in Files, tg \in Targets, s \in Sessions : HeldIn(g, tg, s)' => HeldIn(g, tg, s)
    BY <1>3, DocsAssumption DEF HeldIn, file_create_xmlframe
  <1>5. ASSUME NEW q \in Procs, Kept(q)'
        PROVE  Kept(q) /\ disk'[path[q]].doc = disk[path[q]].doc
    <2>1. path[q] \in Files /\ last_access[q] \in Nat /\ clock \in Nat /\ last_access[q] <= clock
      BY <1>t, Zenon DEF TypeOK, Times
    <2>2. path[q] # f
      <3> SUFFICES ASSUME path[q] = f PROVE FALSE
        BY Zenon
      <3>1. PICK t \in Threads : ProcOf[t] = q /\ pc[t] \in {"sync", "dump", "stamp"}
        BY <1>1, <1>3, <1>5, <2>1 DEF Kept, NotModified
      <3>2. InCS(t) /\ File(t) = f
        BY <3>1, Zenon DEF InCS, File
      <3> QED BY <1>t, <1>2, <3>2 DEF MutualExclusion
    <2>3. pstate'[q] = pstate[q]
      BY <1>t, <1>1, <2>2, Zenon DEF TypeOK
    <2> QED BY <1>1, <1>3, <1>5, <2>1, <2>2, <2>3, Zenon DEF Kept, NotModified
  <1>6. \A s \in Sessions : Changing(s) => Changing(s)'
    BY <1>1, Zenon DEF Changing
  <1>7. \A t \in Threads : Closing(t)' => Closing(t) /\ Follows(t)
    BY <1>1, Zenon DEF Closing, Follows, Released, Past, File
  <1>8. NoNewLocks /\ NoNewOwners /\ NoProgress
    BY <1>1, <1>4, <1>5, <1>6, <1>7, Zenon DEF NoNewLocks, NoNewOwners, NoProgress
  <1> QED BY <1>t, <1>8, FewerLocks, Zenon

LEMMA EndStep ==
  ASSUME IndInv, Serving, Sound, NEW p \in Procs, ncds_file_free(p) \/ Crash(p)
  PROVE  Sound'
PROOF
  <1> USE ConstantsAssumption
  <1>t. TypeOK
    BY Zenon DEF IndInv
  <1>1. /\ disk' = disk /\ mtime' = mtime /\ path' = path /\ xml' = xml
        /\ last_access' = last_access /\ req' = req /\ reply' = reply
        /\ pstate' = [pstate EXCEPT ![p] = "down"]
    BY Zenon DEF ncds_file_free, Crash, fileVars, copyVars, threadVars
  <1>2. /\ \A t \in Threads : pc'[t] = pc[t] \/ (pc'[t] = "idle" /\ ProcOf[t] = p)
        /\ \A s \in Sessions : sess'[s] = sess[s] \/ sess'[s] = "lost"
        /\ \A s \in Sessions : sess'[s] = "open" => HomeOf[s] # p
    <2>1. CASE ncds_file_free(p)
      BY <2>1, Zenon DEF ncds_file_free, threadVars
    <2>2. CASE Crash(p)
      BY <2>2, Zenon DEF Crash
    <2> QED BY <2>1, <2>2, Zenon
  <1>3. \A q \in Procs : Kept(q)' => Kept(q)
    BY <1>t, <1>1, <1>2 DEF Kept, NotModified, TypeOK
  <1>4. \A s \in Sessions : sess'[s] = "open" /\ Changing(s) => Changing(s)'
    <2> SUFFICES ASSUME NEW s \in Sessions, sess'[s] = "open", NEW t \in Threads,
                        req[t].sid = s, ChangedBy(t)
                 PROVE  pc'[t] = pc[t]
      BY <1>1, Zenon DEF Changing, ChangedBy
    <2>1. Serves(t)
      BY Zenon DEF ChangedBy, Serving
    <2> QED BY <1>2, <2>1, Zenon DEF Serves
  <1>5. ASSUME NEW t \in Threads, Closing(t)' PROVE Closing(t) /\ Follows(t)
    <2>1. pc'[t] = pc[t] /\ pc[t] # "idle"
      BY <1>2, <1>5, Zenon DEF Closing
    <2>2. req[t].sid \in Sessions
      BY <2>1, Zenon DEF Serving, Serves, Request
    <2> QED BY <1>1, <1>2, <1>5, <2>1, <2>2, Zenon DEF Closing, Follows, Released, Past, File
  <1>6. \A f \in Files, tg \in Targets, s \in Sessions : HeldIn(f, tg, s)' => HeldIn(f, tg, s)
    BY <1>1, Zenon DEF HeldIn
  <1>7. NoNewLocks /\ NoNewOwners /\ NoProgress
    BY <1>1, <1>2, <1>3, <1>4, <1>5, <1>6, Zenon DEF NoNewLocks, NoNewOwners, NoProgress
  <1> QED BY <1>t, <1>7, FewerLocks, Zenon

(***************************************************************************)
(* The operations on the copy                                              *)
(***************************************************************************)
\* What the operation of thread u starts from, the document d, holds the
\* locks that the file holds, and o is what it makes of it.
Carried(u, d, o) ==
  /\ d \in Doc /\ o \in Outcomes(d, req[u])
  /\ \A tg \in Targets, s \in Sessions : d.lock[tg] = s => Held(File(u), tg, s)
  /\ \A tg \in Targets, s \in Sessions :
       sess[s] = "open" /\ ~Changing(s) => (d.lock[tg] = s <=> HeldIn(File(u), tg, s))
  /\ xml'[ProcOf[u]] = o.doc
  /\ reply'[u] = o.reply
  /\ pc'[u] = IF o.sync THEN "sync" ELSE "post"

LEMMA OperateCarries ==
  ASSUME IndInv, Serving, Sound, NEW u \in Threads, OperateOnCopy(u) \/ OperateOnFile(u)
  PROVE  /\ \E d, o : Carried(u, d, o)
         /\ disk' = disk /\ path' = path /\ sess' = sess /\ req' = req
         /\ pc[u] \in {"body", "reload"}
PROOF
  <1> USE ConstantsAssumption
  <1>t. TypeOK /\ ActiveUp
    BY Zenon DEF IndInv
  <1>1. /\ disk' = disk /\ path' = path /\ sess' = sess /\ req' = req
        /\ pc[u] \in {"body", "reload"}
    BY Zenon DEF OperateOnCopy, OperateOnFile, Apply, fileVars
  <1>2. pstate[ProcOf[u]] = "up" /\ File(u) \in Files
    BY <1>t, <1>1, Zenon DEF ActiveUp, File, TypeOK
  <1>3. ASSUME NEW d, Apply(u, d, TRUE) PROVE \E o \in Outcomes(d, req[u]) :
                      /\ xml'[ProcOf[u]] = o.doc
                      /\ reply'[u] = o.reply
                      /\ pc'[u] = IF o.sync THEN "sync" ELSE "post"
    <2>1. PICK o \in Outcomes(d, req[u]) :
                      /\ xml' = [xml EXCEPT ![ProcOf[u]] = o.doc]
                      /\ reply' = [reply EXCEPT ![u] = o.reply]
                      /\ pc' = [pc EXCEPT ![u] = IF o.sync THEN "sync" ELSE "post"]
      BY <1>3, Zenon DEF Apply
    <2> QED BY <1>t, <2>1, Zenon DEF TypeOK
  <1>4. CASE OperateOnCopy(u)
    <2> DEFINE d == xml[ProcOf[u]]
    <2>1. dsnodes[ProcOf[u]] = TRUE
      BY <1>t, Zenon DEF Serving, TypeOK
    <2>2. PICK o \in Outcomes(d, req[u]) :
                      /\ xml'[ProcOf[u]] = o.doc
                      /\ reply'[u] = o.reply
                      /\ pc'[u] = IF o.sync THEN "sync" ELSE "post"
      BY <1>3, <1>4, <2>1, Zenon DEF OperateOnCopy
    <2>3. d \in Doc /\ Kept(ProcOf[u])
      BY <1>t, <1>2, <1>4, Zenon DEF TypeOK, Kept, OperateOnCopy
    <2>4. \A tg \in Targets, s \in Sessions : d.lock[tg] = s => Held(File(u), tg, s)
      BY <2>3, Zenon DEF Held, HeldBy, File
    <2>5. \A tg \in Targets, s \in Sessions :
            sess[s] = "open" /\ ~Changing(s) => (d.lock[tg] = s <=> HeldIn(File(u), tg, s))
      BY <2>3, Zenon DEF Sound, Agree, File
    <2>6. Carried(u, d, o)
      BY <2>2, <2>3, <2>4, <2>5, Zenon DEF Carried
    <2> QED BY <1>1, <2>6, Zenon
  <1>5. CASE OperateOnFile(u)
    <2> DEFINE d == disk[File(u)].doc
    <2>2. PICK o \in Outcomes(d, req[u]) :
                      /\ xml'[ProcOf[u]] = o.doc
                      /\ reply'[u] = o.reply
                      /\ pc'[u] = IF o.sync THEN "sync" ELSE "post"
      BY <1>3, <1>5, Zenon DEF OperateOnFile, File
    <2>3. d \in Doc
      BY <1>t, <1>2, Zenon DEF TypeOK
    <2>4. Carried(u, d, o)
      BY <2>2, <2>3, Zenon DEF Carried, Held, HeldIn
    <2> QED BY <1>1, <2>4, Zenon
  <1> QED BY <1>4, <1>5, Zenon

LEMMA OperateStep ==
  ASSUME IndInv, Serving, Sound, NEW u \in Threads, OperateOnCopy(u) \/ OperateOnFile(u)
  PROVE  Sound'
PROOF
  <1> USE ConstantsAssumption
  <1> DEFINE p == ProcOf[u]
             r == req[u]
  <1>t. TypeOK
    BY Zenon DEF IndInv
  <1>s. ThreadStep(u)
    BY Zenon DEF ThreadStep, Operate
  <1>1. PICK d, o : Carried(u, d, o)
    BY OperateCarries, Zenon
  <1>2. /\ disk' = disk /\ path' = path /\ sess' = sess /\ req' = req
        /\ pc[u] \in {"body", "reload"}
    BY OperateCarries, Zenon
  <1>3. \A t \in Threads \ {u} : pc'[t] = pc[t] /\ reply'[t] = reply[t]
    BY <1>t, <1>s, ThreadFrame, Zenon DEF Frame
  <1>4. /\ Serves(u) /\ r \in Request /\ r.op # "rollback" /\ r.sid \in Sessions
        /\ r.tg \in Targets /\ p \in Procs /\ path[p] \in Files
    BY <1>t, <1>2 DEF Serving, Serves, Request, TypeOK
  <1>5. \A q \in Procs \ {p} : Kept(q)' => /\ Kept(q) /\ xml'[q] = xml[q]
    BY <1>s, KeptOther, Zenon
  <1>6. ~Changing(r.sid)
    BY <1>2, Zenon DEF Changing, Serving
  <1>7. \A s \in Sessions : Changing(s) => Changing(s)'
    BY <1>2, <1>3, Zenon DEF Changing
  <1>8. \A s \in Sessions : s = r.sid /\ r.op \in LockOps /\ o.sync => Changing(s)'
    BY <1>1, <1>2, Zenon DEF Changing, Carried
  <1>9. ASSUME NEW tg \in Targets, NEW s \in Sessions
        PROVE  /\ s # r.sid => (o.doc.lock[tg] = s <=> d.lock[tg] = s)
               /\ r.op # "lock" /\ o.doc.lock[tg] = s => d.lock[tg] = s
               /\ r.op \notin LockOps => (o.doc.lock[tg] = s <=> d.lock[tg] = s)
    BY <1>1, <1>4, ForeignLocks DEF Carried
  \* no new lock, but for the one of a lock operation
  <1>10. ASSUME NEW f \in Files, NEW tg \in Targets, NEW s \in Sessions, Held(f, tg, s)'
         PROVE  Held(f, tg, s) \/ (r.op = "lock" /\ s = r.sid /\ f = path[p])
    <2>1. CASE HeldIn(f, tg, s)'
      BY <1>2, <2>1, Zenon DEF HeldIn, Held
    <2>2. ASSUME NEW q \in Procs, path[q] = f, HeldBy(q, tg, s)', q # p PROVE Held(f, tg, s)
      BY <1>5, <2>2, Zenon DEF HeldBy, Held
    <2>3. CASE HeldBy(p, tg, s)' /\ f = path[p]
      <3>1. o.doc.lock[tg] = s
        BY <1>1, <2>3, Zenon DEF HeldBy, Carried
      <3>2. d.lock[tg] = s \/ (r.op = "lock" /\ s = r.sid)
        BY <1>9, <3>1, Zenon
      <3> QED BY <1>1, <2>3, <3>2, Zenon DEF Carried, File
    <2> QED BY <1>2, <1>10, <2>1, <2>2, <2>3, Zenon DEF Held
  <1>11. Owned'
    BY <1>2, <1>4, <1>10 DEF Sound, Owned, Serves
  <1>12. Agree'
    <2> SUFFICES ASSUME NEW q \in Procs, NEW tg \in Targets, NEW s \in Sessions,
                        Kept(q)', sess[s] = "open", ~Changing(s)'
                 PROVE  xml'[q].lock[tg] = s <=> HeldIn(path[q], tg, s)
      BY <1>2 DEF Agree, HeldIn
    <2>1. ~Changing(s)
      BY <1>7, Zenon
    <2>2. CASE q # p
      BY <1>5, <2>1, <2>2 DEF Sound, Agree
    <2>3. CASE q = p
      <3>1. d.lock[tg] = s <=> HeldIn(path[p], tg, s)
        BY <1>1, <2>1, Zenon DEF Carried, File
      <3>2. o.doc.lock[tg] = s <=> d.lock[tg] = s
        <4>1. CASE s # r.sid \/ r.op \notin LockOps
          BY <1>9, <4>1, Zenon
        <4>2. CASE s = r.sid /\ r.op \in LockOps
          <5>1. ~o.sync
            BY <1>8, <4>2, Zenon
          <5>2. o.doc = d
            BY <1>1, <1>4, <4>2, <5>1, LockEffect, UnlockEffect, Zenon DEF LockOps, Carried
          <5> QED BY <5>2, Zenon
        <4> QED BY <4>1, <4>2, Zenon
      <3> QED BY <1>1, <2>3, <3>1, <3>2, Zenon DEF Carried
    <2> QED BY <2>2, <2>3, Zenon
  <1>13. Breaking'
    <2> SUFFICES ASSUME NEW t \in Threads, Closing(t)'
                 PROVE  /\ \A tg \in Released(t)' : ~Held(File(t), tg, req[t].sid)'
                        /\ pc'[t] \in {"sync", "dump"} =>
                             xml'[ProcOf[t]].lock[req'[t].tg] # req'[t].sid
      BY Zenon DEF Breaking, Closing
    <2>1. CASE t # u
      <3>1. Closing(t) /\ Serves(t) /\ req[t].sid # r.sid
        BY <1>2, <1>3, <2>1 DEF Closing, Serving
      <3>2. req[t].sid \in Sessions /\ Released(t) \subseteq Targets /\ File(t) \in Files
        BY <1>t, <3>1, ReleasedTargets, Zenon DEF TypeOK, File
      <3>3. Released(t)' = Released(t)
        BY <1>2, <1>3, <2>1, Zenon DEF Released, Past
      <3>4. pc'[t] \in {"sync", "dump"} => xml'[ProcOf[t]] = xml[ProcOf[t]]
        BY <1>3, <1>s, <2>1, OthersQuiet, Zenon DEF InCS
      <3>5. \A tg \in Released(t) : ~Held(File(t), tg, req[t].sid)
        BY <3>1, Zenon DEF Sound, Breaking, Closing
      <3>6. ASSUME NEW tg \in Released(t) PROVE ~Held(File(t), tg, req[t].sid)'
        <4>1. \A f \in Files, s \in Sessions : Held(f, tg, s)' => Held(f, tg, s) \/ s = r.sid
          BY <1>10, <3>2, Zenon
        <4> QED BY <1>2, <3>1, <3>2, <3>5, <4>1 DEF File, Held, HeldIn, HeldBy
      <3> QED BY <1>2, <1>3, <2>1, <3>1, <3>3, <3>4, <3>6, Zenon DEF Sound, Breaking, Closing
    <2>2. CASE t = u
      <3>1. r.op = "breaklocks" /\ sess[r.sid] = "open" /\ Closing(u)
        BY <1>2, <2>2, Zenon DEF Closing
      <3>2. /\ \A tg \in Before(r.tg) : ~Held(File(u), tg, r.sid)
            /\ Before(r.tg) \subseteq Targets
        BY <1>4, <3>1, ReleasedTargets, Zenon DEF Sound, Breaking, Closing, Released
      <3>3. \A f \in Files, tg \in Targets, s \in Sessions : Held(f, tg, s)' => Held(f, tg, s)
        BY <1>10, <3>1, Zenon
      <3>4. \/ o.doc = d /\ ~o.sync /\ d.lock[r.tg] # r.sid
            \/ /\ o.doc.lock = [d.lock EXCEPT ![r.tg] = NoSession] /\ o.sync
               /\ d.lock[r.tg] = r.sid
        BY <1>1, <1>4, <3>1, UnlockEffect, Zenon DEF Carried
      <3>5. CASE o.sync
        <4>1. pc'[u] = "sync" /\ ~Past(u)'
          BY <1>1, <3>5, Zenon DEF Carried, Past
        <4>2. o.doc.lock[r.tg] # r.sid
          <5>1. d.lock \in [Targets -> Sessions \cup {NoSession}] /\ NoSession # r.sid
            BY <1>1, <1>4, DocsAssumption, Zenon DEF Carried, Doc
          <5> QED BY <1>4, <3>4, <3>5, <5>1, Zenon
        <4>3. \A f \in Files, tg \in Before(r.tg), s \in Sessions :
                f = path[p] /\ s = r.sid => ~Held(f, tg, s)'
          BY <3>2, <3>3, Zenon DEF File
        <4>4. Released(u)' = Before(r.tg)
          BY <1>2, <4>1, Zenon DEF Released
        <4>5. \A tg \in Before(r.tg) : ~Held(File(u), tg, req[u].sid)'
          BY <1>2, <1>4, <4>3, HeldNext, Zenon
        <4> QED BY <1>1, <1>2, <2>2, <4>2, <4>4, <4>5, Zenon DEF Carried
      <3>6. CASE ~o.sync
        <4>1. o.doc = d /\ d.lock[r.tg] # r.sid /\ pc'[u] = "post"
          BY <1>1, <3>4, <3>6, Zenon DEF Carried
        <4>2. ~HeldIn(path[p], r.tg, r.sid)
          BY <1>1, <1>4, <1>6, <3>1, <4>1, Zenon DEF Carried, File
        <4>3. ASSUME NEW q \in Procs, path[q] = path[p] 
              PROVE ~(Kept(q)' /\ xml'[q].lock[r.tg] = r.sid)
          <5>1. CASE q # p
            BY <1>4, <1>5, <1>6, <3>1, <4>2, <4>3, <5>1 DEF Sound, Agree
          <5>2. CASE q = p
            BY <1>1, <4>1, <5>2, Zenon DEF Carried
          <5> QED BY <5>1, <5>2, Zenon
        <4>4. \A f \in Files, tg \in Before(r.tg), s \in Sessions :
                f = path[p] /\ s = r.sid => ~Held(f, tg, s)'
          BY <3>2, <3>3, Zenon DEF File
        <4>5. \A f \in Files, tg \in Targets, s \in Sessions :
                f = path[p] /\ tg = r.tg /\ s = r.sid => ~Held(f, tg, s)'
          BY <1>2, <4>2, <4>3, Zenon DEF Held, HeldIn, HeldBy
        <4>6. Released(u)' \subseteq Before(r.tg) \cup {r.tg}
          BY <1>2, Zenon DEF Released
        <4>7. \A tg \in Before(r.tg) \cup {r.tg} : ~Held(File(u), tg, req[u].sid)'
          BY <1>2, <1>4, <4>4, <4>5, HeldNext, Zenon
        <4> QED BY <2>2, <4>1, <4>6, <4>7
      <3> QED BY <3>5, <3>6, Zenon
    <2> QED BY <2>1, <2>2, Zenon
  <1> QED BY <1>11, <1>12, <1>13, Zenon DEF Sound

\* The dump makes the file what the copy says.
LEMMA DumpStep ==
  ASSUME IndInv, Serving, Sound, NEW u \in Threads, SyncDump(u)
  PROVE  Sound'
PROOF
  <1> USE ConstantsAssumption
  <1> DEFINE p == ProcOf[u]
             r == req[u]
  <1>t. TypeOK /\ ActiveUp
    BY Zenon DEF IndInv
  <1>s. ThreadStep(u)
    BY Zenon DEF ThreadStep, file_sync
  <1>1. /\ pc[u] = "dump" /\ xml' = xml /\ path' = path /\ sess' = sess /\ req' = req
        /\ reply' = reply /\ disk' = [disk EXCEPT ![path[p]] = [st |-> "ok", doc |-> xml[p]]]
        /\ mtime' = [mtime EXCEPT ![path[p]] = clock] /\ pc' = [pc EXCEPT ![u] = "stamp"]
    BY Zenon DEF SyncDump, SyncRest
  <1>2. /\ Serves(u) /\ r.sid \in Sessions /\ r.tg \in Targets /\ p \in Procs /\ path[p] \in Files
    BY <1>t, <1>1 DEF Serving, Serves, Request, TypeOK
  <1>3. /\ disk'[path[p]].doc = xml[p] /\ mtime'[File(u)] = clock
        /\ \A f \in Files \ {path[p]} : disk'[f] = disk[f]
        /\ pc'[u] = "stamp" /\ \A t \in Threads \ {u} : pc'[t] = pc[t]
    BY <1>t, <1>1, <1>2, Zenon DEF TypeOK, File
  <1>4. Kept(p)
    BY <1>t, <1>1, Zenon DEF Kept, ActiveUp
  <1>5. \A q \in Procs \ {p} : Kept(q)' => /\ Kept(q) /\ disk'[path[q]] = disk[path[q]]
                                           /\ path[q] # path[p]
    BY <1>s, <1>1, <1>3, KeptOther DEF File
  <1>6. ASSUME NEW f \in Files, NEW tg \in Targets, NEW s \in Sessions, Held(f, tg, s)'
        PROVE  Held(f, tg, s)
    <2>1. CASE HeldIn(f, tg, s)'
      BY <1>2, <1>3, <1>4, <2>1, Zenon DEF HeldIn, Held, HeldBy
    <2>2. ASSUME NEW q \in Procs, path[q] = f, HeldBy(q, tg, s)' PROVE Held(f, tg, s)
      BY <1>1, <1>4, <1>5, <2>2, Zenon DEF HeldBy, Held
    <2> QED BY <1>1, <1>6, <2>1, <2>2, Zenon DEF Held
  <1>7. Owned'
    BY <1>1, <1>6, Zenon DEF Sound, Owned
  <1>8. \A s \in Sessions : Changing(s) => Changing(s)' \/ s = r.sid
    BY <1>1, <1>3, Zenon DEF Changing
  <1>9. Agree'
    <2> SUFFICES ASSUME NEW q \in Procs, NEW tg \in Targets, NEW s \in Sessions,
                        Kept(q)', sess[s] = "open", ~Changing(s)'
                 PROVE  xml[q].lock[tg] = s <=> disk'[path[q]].doc.lock[tg] = s
      BY <1>1 DEF Agree, HeldIn
    <2>1. CASE q = p
      BY <1>3, <2>1, Zenon
    <2>2. CASE q # p /\ ~Changing(s)
      BY <1>5, <2>2 DEF Sound, Agree, HeldIn
    <2>3. CASE q # p /\ s = r.sid
      <3>1. path[q] \in Files /\ path[q] # path[HomeOf[s]]
        BY <1>t, <1>2, <1>5, <2>3, Zenon DEF TypeOK, Serves
      <3>2. ~Held(path[q], tg, s)
        BY <3>1, Zenon DEF Sound, Owned
      <3> QED BY <1>5, <2>3, <3>2, Zenon DEF Held, HeldIn, HeldBy
    <2> QED BY <1>8, <2>1, <2>2, <2>3, Zenon
  <1>10. Breaking'
    <2> SUFFICES ASSUME NEW t \in Threads, Closing(t)'
                 PROVE  /\ \A tg \in Released(t)' : ~Held(File(t), tg, req[t].sid)'
                        /\ pc'[t] \in {"sync", "dump"} =>
                             xml'[ProcOf[t]].lock[req'[t].tg] # req'[t].sid
      BY Zenon DEF Breaking, Closing
    <2>1. Closing(t)
      BY <1>1, <1>3, Zenon DEF Closing
    <2>2. Serves(t) /\ File(t) \in Files
      BY <1>t, <2>1, Zenon DEF Closing, Serving, TypeOK, File
    <2>3. req[t].sid \in Sessions /\ Released(t) \subseteq Targets
      BY <2>2, ReleasedTargets, Zenon
    <2>4. /\ \A tg \in Released(t) : ~Held(File(t), tg, req[t].sid)
          /\ pc[t] \in {"sync", "dump"} => xml[ProcOf[t]].lock[req[t].tg] # req[t].sid
      BY <2>1, Zenon DEF Sound, Breaking, Closing
    <2>5. \A f \in Files, tg \in Released(t), s \in Sessions :
            f = File(t) /\ s = req[t].sid => ~Held(f, tg, s)'
      BY <1>6, <2>3, <2>4, Zenon
    <2>6. CASE t # u
      <3>1. Released(t)' = Released(t)
        BY <1>1, <1>3, <2>6, Zenon DEF Released, Past
      <3>2. \A tg \in Released(t) : ~Held(File(t), tg, req[t].sid)'
        BY <1>1, <2>2, <2>3, <2>5, HeldNext, Zenon DEF File
      <3> QED BY <1>1, <1>3, <2>4, <2>6, <3>1, <3>2, Zenon
    <2>7. CASE t = u
      <3>1. Released(t)' = Released(t) \cup {r.tg}
        BY <1>1, <1>3, <2>7, Zenon DEF Released, Past
      <3>2. \A f \in Files, tg \in Targets, s \in Sessions :
              f = path[p] /\ tg = r.tg /\ s = r.sid => ~Held(f, tg, s)'
        <4>1. xml[p].lock[r.tg] # r.sid
          BY <1>1, <2>4, <2>7, Zenon
        <4>2. \A q \in Procs : Kept(q)' /\ path[q] = path[p] => q = p
          BY <1>5, Zenon
        <4> QED BY <1>1, <1>3, <4>1, <4>2, Zenon DEF Held, HeldIn, HeldBy
      <3>3. ASSUME NEW tg \in Released(t) \cup {r.tg} PROVE ~Held(File(t), tg, req[t].sid)'
        <4>1. CASE tg \in Released(t)
          BY <1>1, <2>2, <2>3, <2>5, <4>1, HeldNext, Zenon DEF File
        <4>2. CASE tg = r.tg
          BY <1>1, <1>2, <2>7, <3>2, <4>2, HeldNext, Zenon
        <4> QED BY <4>1, <4>2, Zenon
      <3>4. pc'[t] \notin {"sync", "dump"}
        BY <1>3, <2>7
      <3> QED BY <3>1, <3>3, <3>4, Zenon
    <2> QED BY <2>6, <2>7, Zenon
  <1> QED BY <1>7, <1>9, <1>10, Zenon DEF Sound

(***************************************************************************)
(* The theorem                                                             *)
(***************************************************************************)
LEMMA LockInvStep ==
  ASSUME NoUndo, IndInv, LockInv, [Next]_vars
  PROVE  LockInv'
PROOF
  <1> USE ConstantsAssumption
  <1>1. Serving /\ Serving'
    BY ServingStep, Zenon DEF LockInv
  <1>2. raced \subseteq raced'
    <2>1. ASSUME NEW u \in Threads, ThreadStep(u) \/ \E r \in Requests : Begin(u, r)
          PROVE  raced' = raced
      BY <2>1, ThreadFrame, Zenon DEF Frame, IndInv
    <2>2. ASSUME NEW p \in Procs, ProcStep(p) PROVE raced \subseteq raced'
      BY <2>2, Zenon DEF ProcStep, ncds_file_init, InitFrame, ncds_file_free, Crash, fileVars
    <2>3. CASE Tick \/ UNCHANGED vars
      BY <2>3, Zenon DEF Tick, vars, fileVars
    <2> QED BY <2>1, <2>2, <2>3, Zenon DEF Next
  <1> SUFFICES ASSUME raced' = {} PROVE Sound'
    BY <1>1, Zenon DEF LockInv, Sound
  <1>3. raced = {} /\ Sound
    BY <1>2, Zenon DEF LockInv, Sound
  <1>4. ASSUME NEW u \in Threads, ThreadStep(u) PROVE Sound'
    <2>1. CASE Inside(u)
      <3>1. req[u].op # "rollback"
        BY <1>1, <2>1, InsideKeeps, Zenon DEF Serving, Serves, IndInv
      <3>2. ~file_rollback_restore(u)
        BY <3>1, Zenon DEF file_rollback_restore
      <3> QED BY <1>1, <1>3, <2>1, <3>2, QuietStep, OperateStep, DumpStep, Zenon
              DEF Inside, Operate, file_sync
    <2>2. ASSUME NEW rep, Leaving(u, rep) PROVE Sound'
      BY <1>1, <1>3, <1>4, <2>2, LeavingStep, Zenon
    <2> QED BY <1>4, <2>1, <2>2, StepKinds, Zenon
  <1>5. ASSUME NEW u \in Threads, NEW r \in Requests, Begin(u, r) PROVE Sound'
    BY <1>1, <1>3, <1>5, BeginStep, Zenon
  <1>6. ASSUME NEW p \in Procs, ProcStep(p) PROVE Sound'
    BY <1>1, <1>3, <1>6, InitStep, InitFrameStep, EndStep, Zenon DEF ProcStep
  <1>7. CASE Tick \/ UNCHANGED vars
    <2>1. /\ disk' = disk /\ mtime' = mtime /\ path' = path /\ xml' = xml /\ pc' = pc
          /\ last_access' = last_access /\ req' = req /\ reply' = reply /\ pstate' = pstate
          /\ sess' = sess
      BY <1>7, Zenon DEF Tick, vars, fileVars, copyVars, threadVars
    <2>2. \A q \in Procs : Kept(q)' <=> Kept(q)
      BY <2>1, Zenon DEF Kept, NotModified
    <2>3. \A f \in Files, tg \in Targets, s \in Sessions : Held(f, tg, s)' <=> Held(f, tg, s)
      BY <2>1, <2>2, Zenon DEF Held, HeldIn, HeldBy
    <2>4. \A s \in Sessions : Changing(s)' <=> Changing(s)
      BY <2>1, Zenon DEF Changing
    <2>5. Owned'
      BY <1>3, <2>1, <2>3, Zenon DEF Sound, Owned
    <2>6. Agree'
      <3> SUFFICES ASSUME NEW q \in Procs, NEW tg \in Targets, NEW s \in Sessions,
                          Kept(q), sess[s] = "open", ~Changing(s)
                   PROVE  xml[q].lock[tg] = s <=> disk[path[q]].doc.lock[tg] = s
        BY <2>1, <2>2, <2>4 DEF Agree, HeldIn
      <3>1. Agree
        BY <1>3, Zenon DEF Sound
      <3>2. xml[q].lock[tg] = s <=> HeldIn(path[q], tg, s)
        BY <3>1, Zenon DEF Agree
      <3> QED BY <3>2, Zenon DEF HeldIn
    <2>7. Breaking'
      <3> SUFFICES ASSUME NEW t \in Threads, Closing(t)'
                   PROVE  /\ \A tg \in Released(t)' : ~Held(File(t), tg, req[t].sid)'
                          /\ pc'[t] \in {"sync", "dump"} =>
                               xml'[ProcOf[t]].lock[req'[t].tg] # req'[t].sid
        BY Zenon DEF Breaking, Closing
      <3>1. Closing(t) /\ Released(t)' = Released(t)
        BY <2>1, Zenon DEF Closing, Released, Past
      <3>2. Serves(t) /\ File(t) \in Files
        <4>1. Serves(t)
          BY <1>1, <3>1, Zenon DEF Closing, Serving
        <4>2. path \in [Procs -> Files]
          BY Zenon DEF IndInv, TypeOK
        <4> QED BY <4>1, <4>2, Zenon DEF File
      <3>3. /\ \A tg \in Released(t) : ~Held(File(t), tg, req[t].sid)
            /\ pc[t] \in {"sync", "dump"} => xml[ProcOf[t]].lock[req[t].tg] # req[t].sid
        BY <1>3, <3>1, Zenon DEF Sound, Breaking, Closing
      <3>4. \A f \in Files, tg \in Released(t), s \in Sessions :
              f = File(t) /\ s = req[t].sid => ~Held(f, tg, s)'
        BY <2>3, <3>2, <3>3, ReleasedTargets, Zenon
      <3>5. \A tg \in Released(t) : ~Held(File(t), tg, req[t].sid)'
        BY <2>1, <3>2, <3>4, ReleasedTargets, HeldNext, Zenon DEF File
      <3> QED BY <2>1, <3>1, <3>3, <3>5, Zenon
    <2> QED BY <2>5, <2>6, <2>7, Zenon DEF Sound
  <1> QED BY <1>4, <1>5, <1>6, <1>7, Zenon DEF Next

LEMMA LockInvInit == Init => LockInv
PROOF
  <1> USE ConstantsAssumption
  <1> SUFFICES ASSUME Init PROVE LockInv
    BY Zenon
  <1>1. /\ \A t \in Threads : pc[t] = "idle"
        /\ \A s \in Sessions : sess[s] = "new"
        /\ \A p \in Procs : dsnodes[p] /\ xml[p] = file_create_xmlframe
    BY Zenon DEF Init
  <1>2. \A f \in Files : disk[f].doc = file_create_xmlframe
    <2> SUFFICES ASSUME NEW f \in Files PROVE disk[f].doc = file_create_xmlframe
      BY Zenon
    <2>1. \E st : disk[f] = [st |-> st, doc |-> file_create_xmlframe]
      BY Zenon DEF Init
    <2> QED BY <2>1
  <1>3. \A tg \in Targets : file_create_xmlframe.lock[tg] \notin Sessions
    BY DocsAssumption, Zenon DEF file_create_xmlframe
  <1>4. Serving
    BY <1>1, Zenon DEF Serving
  <1>5. Owned
    BY <1>1, <1>2, <1>3, ZenonT(40) DEF Owned, Held, HeldIn, HeldBy
  <1>6. Agree /\ Breaking
    BY <1>1, Zenon DEF Agree, Breaking
  <1> QED BY <1>4, <1>5, <1>6, Zenon DEF LockInv

\* ncds_break_locks removes "all the locks that the given session is
\* holding": for any number of processes, threads, sessions, files and
\* requests, with crashes, failed writes, restarts and time-outs, a lock in a
\* file belongs to a session that is open, that crashed with its process, or
\* that was told of the failure of a lock or unlock - as long as no change is
\* rolled back and no starting process wrote a file during an operation.
THEOREM LocksReleased == NoUndo => (Spec => [](raced = {} => LockOwnersAreOpen))
PROOF
  <1> SUFFICES ASSUME NoUndo PROVE Spec => [](raced = {} => LockOwnersAreOpen)
    BY Zenon
  <1>1. Init => LockInv
    BY LockInvInit, Zenon
  <1>2. IndInv /\ LockInv /\ [Next]_vars => LockInv'
    BY LockInvStep, Zenon
  <1>3. IndInv /\ LockInv => (raced = {} => LockOwnersAreOpen)
    <2> SUFFICES ASSUME IndInv, LockInv, raced = {}, NEW f \in Files, NEW tg \in Targets,
                        disk[f].doc.lock[tg] # NoSession
                 PROVE  sess[disk[f].doc.lock[tg]] \in {"open", "unsure", "lost"}
      BY Zenon DEF LockOwnersAreOpen
    <2>1. disk[f].doc \in Doc
      BY Zenon DEF IndInv, TypeOK
    <2>2. disk[f].doc.lock[tg] \in Sessions
      BY <2>1, Zenon DEF Doc
    <2> QED BY <2>2 DEF LockInv, Owned, Held, HeldIn
  <1> QED BY <1>1, <1>2, <1>3, Invariance, PTL DEF Spec

=============================================================================
