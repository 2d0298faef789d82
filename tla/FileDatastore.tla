--------------------------- MODULE FileDatastore ---------------------------
(***************************************************************************)
(* The file datastore of libnetconf (src/datastore/file/datastore_file.c). *)
(*                                                                         *)
(* One XML file holds the running, startup and candidate configurations    *)
(* with the NETCONF lock of each.  Every process that serves NETCONF       *)
(* sessions keeps its own parsed copy of the file, and each operation      *)
(*   takes a named semaphore   (LOCK)                                      *)
(*   refreshes the copy if the file looks newer   (file_reload)            *)
(*   checks the NETCONF locks and changes the copy   (ncds_file_...)       *)
(*   rewrites the file from the copy   (file_sync)                         *)
(*   gives the semaphore back   (UNLOCK).                                  *)
(* Newer is decided by comparing the modification time of the file with    *)
(* the time of the last access, both in whole seconds.  The threads of a   *)
(* process share the copy and the flag holding_lock.                       *)
(***************************************************************************)
EXTENDS Naturals, DatastoreDocs

CONSTANTS
  Procs,        \* processes that use the datastore
  Threads,      \* their threads
  ProcOf,       \* the process of a thread
  HomeOf,       \* the process that serves a session
  Files,        \* the datastore file and its possible backup files
  MainFile,     \* the file passed to ncds_file_set_path
  Requests,     \* the requests that sessions make
  Start,        \* the processes that are up when the behaviour starts
  MaxTime,      \* bound on the clock
  MaxRequests,  \* bound on the number of requests
  MaxFaults,    \* bound on crashes and failed writes
  MaxStarts     \* bound on process starts

ASSUME ConstantsAssumption ==
  /\ ProcOf \in [Threads -> Procs]
  /\ HomeOf \in [Sessions -> Procs]
  /\ MainFile \in Files
  /\ Requests \subseteq Request
  /\ \A r \in Requests : r.op # "rollback"
  /\ Start \subseteq Procs
  /\ {MaxTime, MaxRequests, MaxFaults, MaxStarts} \subseteq Nat

VARIABLES
  clock,        \* time(NULL), in seconds
  disk,         \* the files: state, and last complete document
  mtime,        \* st_mtime of each file
  sem,          \* the named semaphore of each file
  pstate,       \* processes: down, in ncds_file_init, up
  path,         \* file_ds->path
  xml,          \* file_ds->xml
  last_access,  \* ds.last_access
  xml_rollback, \* file_ds->xml_rollback: {} for NULL, else a singleton
  dsnodes,      \* do running, startup and candidate point into xml?
  dirty,        \* history: xml holds a change that file_sync refused
  holding_lock, \* ds_lock.holding_lock
  dslock,       \* the mutex ds->lock: {}, or the thread that locked it
  saved,        \* what file_reload copied: the mutex, and the time
  pc,           \* where each thread is in the operation
  req,          \* the request it works on
  reply,        \* the result so far
  sess,         \* sessions: new, open, unsure (it was told that a lock or unlock
                \*   failed), closed, lost (its locks may remain)
  raced,        \* history: files a starting process wrote during an operation
  nreq, nfault, nstart  \* counters for the bounds

fileVars == <<disk, mtime, raced>>
copyVars == <<path, xml, last_access, xml_rollback, dsnodes, dirty>>
threadVars == <<saved, pc, req, reply>>
bounds == <<nreq, nfault, nstart>>
vars == <<clock, disk, mtime, sem, pstate, path, xml, last_access,
          xml_rollback, dsnodes, dirty, holding_lock, dslock, saved, pc, req, reply,
          sess, raced, nreq, nfault, nstart>>

\* The datastore nodes point into a freed document: the operation reads and
\* writes freed memory, and a file_sync that follows writes xml as it is.
Undefined(d) == Refused(d, "undefined") \cup Changed(d, "undefined")

(***************************************************************************)
(* The semaphore: LOCK and UNLOCK                                          *)
(***************************************************************************)
\* the order in which ncds_break_locks unlocks
FirstTarget == IF "candidate" \in Targets THEN "candidate" ELSE "running"

\* mutant: running is left out
SkipsRunning(tg) == IF tg = "candidate" THEN {"startup"} \cap Targets ELSE {}

\* mutant: the loop does not advance
SameTarget(tg) == {tg}

NextTargets(tg) ==
  CASE tg = "candidate" -> {"running"}
    [] tg = "running" -> {"startup"} \cap Targets
    [] tg = "startup" -> {}

\* A session makes one request at a time.
Begin(t, r) ==
  LET p == ProcOf[t] IN
  /\ pc[t] = "idle"
  /\ pstate[p] = "up"
  /\ HomeOf[r.sid] = p
  /\ sess[r.sid] \in {"new", "open", "unsure"}
  /\ \A u \in Threads : pc[u] # "idle" => req[u].sid # r.sid
  /\ nreq < MaxRequests
  /\ nreq' = nreq + 1
  /\ IF r.op \in RpcOps
     THEN dslock[p] = {} /\ dslock' = [dslock EXCEPT ![p] = {t}]
     ELSE UNCHANGED dslock
  /\ sess' = [sess EXCEPT ![r.sid] = IF @ = "new" THEN "open" ELSE @]
  /\ req' = [req EXCEPT ![t] =
               IF r.op = "breaklocks" THEN [r EXCEPT !.tg = FirstTarget] ELSE r]
  /\ pc' = [pc EXCEPT ![t] = "wait"]
  /\ reply' = [reply EXCEPT ![t] = "none"]
  /\ UNCHANGED <<clock, fileVars, sem, pstate, copyVars, holding_lock, saved, nfault, nstart>>

\* mutant: the result of sem_timedwait is not looked at
LOCKUnchecked(t) ==
  LET p == ProcOf[t] IN
  /\ pc[t] = "wait"
  /\ sem' = [sem EXCEPT ![path[p]] = 0]
  /\ holding_lock' = [holding_lock EXCEPT ![p] = TRUE]
  /\ pc' = [pc EXCEPT ![t] = "body"]
  /\ UNCHANGED <<clock, fileVars, pstate, copyVars, dslock, saved, req, reply, sess, bounds>>

LOCK(t) ==
  LET p == ProcOf[t] IN
  /\ pc[t] = "wait"
  /\ sem[path[p]] = 1
  /\ sem' = [sem EXCEPT ![path[p]] = 0]
  /\ holding_lock' = [holding_lock EXCEPT ![p] = TRUE]
  /\ pc' = [pc EXCEPT ![t] = "body"]
  /\ UNCHANGED <<clock, fileVars, pstate, copyVars, dslock, saved, req, reply, sess, bounds>>

\* What the caller does with the result: ncds_break_locks goes on to the
\* next datastore, a change that must be undone calls func.rollback, any
\* other operation is over.
Finish(t, rep) ==
  LET p == ProcOf[t]
      r == req[t]
      bl == r.op = "breaklocks"
      rest == IF bl THEN NextTargets(r.tg) ELSE {}
      undo == rep = "ok" /\ r.op \in StoreOps /\ r.undo # "none"
      over == bl /\ rest = {}
      failed == bl /\ rep \in {"failed", "timeout", "undefined"}
      unsure == r.op \in {"lock", "unlock"} /\ rep = "failed"
      unlocks == IF r.op = "rollback" THEN r.undo = "test"
                 ELSE r.op \in RpcOps /\ ~(undo /\ r.undo = "test")
  IN  /\ reply' = [reply EXCEPT ![t] = "none"]
      /\ IF rest # {}
         THEN \E tg \in rest : req' = [req EXCEPT ![t].tg = tg]
         ELSE req' = [req EXCEPT ![t] =
                        IF undo THEN [r EXCEPT !.op = "rollback"] ELSE NoRequest]
      /\ pc' = [pc EXCEPT ![t] = IF rest # {} \/ undo THEN "wait" ELSE "idle"]
      /\ dslock' = [dslock EXCEPT ![p] = IF unlocks THEN {} ELSE @]
      /\ sess' = [sess EXCEPT ![r.sid] =
                    CASE failed -> "lost"
                      [] over /\ ~failed /\ @ = "open" -> "closed"
                      [] over /\ ~failed /\ @ = "unsure" -> "lost"
                      [] unsure -> "unsure"
                      [] OTHER -> @]

\* sem_timedwait gives up after NCDS_LOCK_TIMEOUT seconds
LockTimeout(t) ==
  /\ pc[t] = "wait"
  /\ sem[path[ProcOf[t]]] = 0
  /\ Finish(t, "timeout")
  /\ UNCHANGED <<clock, fileVars, sem, pstate, copyVars, holding_lock, saved, bounds>>

\* UNLOCK posts the semaphore first ...
UNLOCKPost(t) ==
  /\ pc[t] = "post"
  /\ sem' = [sem EXCEPT ![path[ProcOf[t]]] = 1]
  /\ pc' = [pc EXCEPT ![t] = "clear"]
  /\ UNCHANGED <<clock, fileVars, pstate, copyVars, holding_lock, dslock, saved, req,
                 reply, sess, bounds>>

\* ... and clears the flag shared by the threads of the process second
UNLOCKClear(t) ==
  /\ pc[t] = "clear"
  /\ holding_lock' = [holding_lock EXCEPT ![ProcOf[t]] = FALSE]
  /\ Finish(t, reply[t])
  /\ UNCHANGED <<clock, fileVars, sem, pstate, copyVars, saved, bounds>>

(***************************************************************************)
(* The operations, between LOCK and UNLOCK                                 *)
(***************************************************************************)
NothingSaved == [lock |-> {}, time |-> 0]

Usable(f) == disk[f].st = "ok"

\* mutant: a file written in the second of the last access is not read again
NotModifiedOrEqual(p) == mtime[path[p]] <= last_access[p]

\* file_reload trusts the copy when the file is older than the last access
NotModified(p) == mtime[path[p]] < last_access[p]

ToPost(t, rep) ==
  /\ pc' = [pc EXCEPT ![t] = "post"]
  /\ reply' = [reply EXCEPT ![t] = rep]

\* mutant: an error path returns without sem_post
OperateFailsHolding(t) ==
  /\ pc[t] = "body"
  /\ ~holding_lock[ProcOf[t]]
  /\ pc' = [pc EXCEPT ![t] = "clear"]
  /\ reply' = [reply EXCEPT ![t] = "failed"]
  /\ UNCHANGED <<clock, fileVars, sem, pstate, copyVars, holding_lock, dslock, saved,
                 req, sess, bounds>>

\* file_reload or file_rollback_restore fails: nothing is changed
OperateFails(t) ==
  LET p == ProcOf[t] IN
  /\ \/ pc[t] = "body" /\ ~holding_lock[p]
     \/ pc[t] = "body" /\ req[t].op = "rollback" /\ xml_rollback[p] = {}
     \/ pc[t] = "reload" /\ ~Usable(path[p])
  /\ saved' = [saved EXCEPT ![t] = NothingSaved]
  /\ ToPost(t, "failed")
  /\ UNCHANGED <<clock, fileVars, sem, pstate, copyVars, holding_lock, dslock,
                 req, sess, bounds>>

\* the operation applied to document d, after file_reload
Apply(t, d, valid) ==
  LET p == ProcOf[t] IN
  /\ \E o \in (IF valid THEN Outcomes(d, req[t]) ELSE Undefined(d)) :
       /\ xml' = [xml EXCEPT ![p] = o.doc]
       /\ reply' = [reply EXCEPT ![t] = o.reply]
       /\ pc' = [pc EXCEPT ![t] = IF o.sync THEN "sync" ELSE "post"]
  /\ xml_rollback' =
       IF req[t].op \in StoreOps THEN [xml_rollback EXCEPT ![p] = {d}] ELSE xml_rollback
  /\ UNCHANGED <<clock, fileVars, sem, pstate, path, req, sess, bounds>>

\* file_reload keeps the copy
OperateOnCopy(t) ==
  LET p == ProcOf[t] IN
  /\ pc[t] = "body"
  /\ req[t].op # "rollback"
  /\ holding_lock[p]
  /\ NotModified(p)
  /\ Apply(t, xml[p], dsnodes[p])
  /\ UNCHANGED <<last_access, dsnodes, dirty, holding_lock, dslock, saved>>

\* file_reload finds the file newer: it copies the whole structure, the
\* mutex included ...
ReloadCopy(t) ==
  LET p == ProcOf[t] IN
  /\ pc[t] = "body"
  /\ req[t].op # "rollback"
  /\ holding_lock[p]
  /\ ~NotModified(p)
  /\ saved' = [saved EXCEPT ![t] = [lock |-> dslock[p], time |-> clock]]
  /\ pc' = [pc EXCEPT ![t] = "reload"]
  /\ UNCHANGED <<clock, fileVars, sem, pstate, copyVars, holding_lock, dslock, req,
                 reply, sess, bounds>>

\* ... reads the file into the copy and copies it back over the structure
OperateOnFile(t) ==
  LET p == ProcOf[t] IN
  /\ pc[t] = "reload"
  /\ req[t].op # "rollback"
  /\ Usable(path[p])
  /\ last_access' = [last_access EXCEPT ![p] = saved[t].time]
  /\ dslock' = [dslock EXCEPT ![p] = saved[t].lock]
  /\ saved' = [saved EXCEPT ![t] = NothingSaved]
  /\ holding_lock' = [holding_lock EXCEPT ![p] = TRUE]
  /\ dsnodes' = [dsnodes EXCEPT ![p] = TRUE]
  /\ dirty' = [dirty EXCEPT ![p] = FALSE]
  /\ Apply(t, disk[path[p]].doc, TRUE)

\* the copy kept before the last change replaces the copy; there is no
\* file_reload, and the node pointers still point into the freed document
file_rollback_restore(t) ==
  LET p == ProcOf[t] IN
  /\ pc[t] = "body"
  /\ req[t].op = "rollback"
  /\ holding_lock[p]
  /\ \E d \in xml_rollback[p] : xml' = [xml EXCEPT ![p] = d]
  /\ xml_rollback' = [xml_rollback EXCEPT ![p] = {}]
  /\ dsnodes' = [dsnodes EXCEPT ![p] = FALSE]
  /\ last_access' = [last_access EXCEPT ![p] = 0]
  /\ pc' = [pc EXCEPT ![t] = "sync"]
  /\ reply' = [reply EXCEPT ![t] = "ok"]
  /\ UNCHANGED <<clock, fileVars, sem, pstate, path, dirty, holding_lock, dslock, saved,
                 req, sess, bounds>>

(***************************************************************************)
(* file_sync                                                               *)
(***************************************************************************)
SyncRest == <<clock, sem, pstate, path, xml, xml_rollback, dsnodes,
              holding_lock, dslock, saved, req, sess, raced, nreq, nstart>>

\* ftruncate; from here on the file is empty, or cut short while a long
\* document is being written
SyncTruncate(t) ==
  LET p == ProcOf[t] IN
  /\ pc[t] = "sync"
  /\ holding_lock[p]
  /\ \E st \in {"empty", "torn"} : disk' = [disk EXCEPT ![path[p]].st = st]
  /\ mtime' = [mtime EXCEPT ![path[p]] = clock]
  /\ pc' = [pc EXCEPT ![t] = "dump"]
  /\ UNCHANGED <<SyncRest, last_access, dirty, reply, nfault>>

\* the flag was cleared by another thread, or ftruncate fails
SyncRefused(t) ==
  LET p == ProcOf[t] IN
  /\ pc[t] = "sync"
  /\ IF holding_lock[p]
     THEN nfault < MaxFaults /\ nfault' = nfault + 1
     ELSE UNCHANGED nfault
  /\ dirty' = [dirty EXCEPT ![p] = TRUE]
  /\ ToPost(t, "failed")
  /\ UNCHANGED <<SyncRest, disk, mtime, last_access>>

SyncDump(t) ==
  LET p == ProcOf[t] IN
  /\ pc[t] = "dump"
  /\ disk' = [disk EXCEPT ![path[p]] = [st |-> "ok", doc |-> xml[p]]]
  /\ mtime' = [mtime EXCEPT ![path[p]] = clock]
  /\ dirty' = [dirty EXCEPT ![p] = FALSE]
  /\ pc' = [pc EXCEPT ![t] = "stamp"]
  /\ UNCHANGED <<SyncRest, last_access, reply, nfault>>

\* mutant: the result of xmlDocFormatDump is not looked at
SyncDumpUnreported(t) ==
  LET p == ProcOf[t] IN
  /\ pc[t] = "dump"
  /\ nfault < MaxFaults
  /\ nfault' = nfault + 1
  /\ disk' = [disk EXCEPT ![path[p]].st = "torn"]
  /\ mtime' = [mtime EXCEPT ![path[p]] = clock]
  /\ ToPost(t, reply[t])
  /\ UNCHANGED <<SyncRest, last_access, dirty>>

SyncDumpFails(t) ==
  LET p == ProcOf[t] IN
  /\ pc[t] = "dump"
  /\ nfault < MaxFaults
  /\ nfault' = nfault + 1
  /\ disk' = [disk EXCEPT ![path[p]].st = "torn"]
  /\ mtime' = [mtime EXCEPT ![path[p]] = clock]
  /\ ToPost(t, "failed")
  /\ UNCHANGED <<SyncRest, last_access, dirty>>

\* the time of the last access is read after the write
SyncStamp(t) ==
  /\ pc[t] = "stamp"
  /\ last_access' = [last_access EXCEPT ![ProcOf[t]] = clock]
  /\ pc' = [pc EXCEPT ![t] = "post"]
  /\ UNCHANGED <<SyncRest, disk, mtime, dirty, reply, nfault>>

(***************************************************************************)
(* Processes                                                               *)
(***************************************************************************)
\* "unlock forgotten locks if any": in the copy only
Unlocked(d) == [d EXCEPT !.lock = [tg \in Targets |-> NoSession]]

\* Where ncds_file_init looks for its document: the main file, unless it
\* has contents that do not parse; then a usable backup file; then a new
\* backup file.
InitFile(f) ==
  \/ f = MainFile /\ disk[f].st # "torn"
  \/ /\ disk[MainFile].st = "torn"
     /\ f # MainFile
     /\ Usable(f) \/ (disk[f].st = "absent" /\ \A g \in Files : ~Usable(g))

\* nc_init found no other process (first_after_close)
FirstAfterClose == \A p \in Procs : pstate[p] = "down"

\* The file is read without the semaphore.  The semaphores are recreated
\* when no other process runs (nc_shared_cleanup).
ncds_file_init(p) ==
  /\ pstate[p] = "down"
  /\ nstart < MaxStarts
  /\ nstart' = nstart + 1
  /\ \E f \in Files :
       /\ InitFile(f)
       /\ path' = [path EXCEPT ![p] = f]
       /\ IF Usable(f)
          THEN /\ xml' = [xml EXCEPT ![p] = Unlocked(disk[f].doc)]
               /\ pstate' = [pstate EXCEPT ![p] = "up"]
               /\ UNCHANGED <<disk, mtime>>
          ELSE /\ xml' = [xml EXCEPT ![p] = file_create_xmlframe]
               /\ pstate' = [pstate EXCEPT ![p] = "init"]
               /\ disk' = [disk EXCEPT ![f].st = "empty"]
               /\ mtime' = IF disk[f].st = "absent" THEN [mtime EXCEPT ![f] = clock] ELSE mtime
  /\ sem' = IF FirstAfterClose THEN [f \in Files |-> 1] ELSE sem
  /\ last_access' = [last_access EXCEPT ![p] = 0]
  /\ xml_rollback' = [xml_rollback EXCEPT ![p] = {}]
  /\ dsnodes' = [dsnodes EXCEPT ![p] = TRUE]
  /\ dirty' = [dirty EXCEPT ![p] = FALSE]
  /\ holding_lock' = [holding_lock EXCEPT ![p] = FALSE]
  /\ UNCHANGED <<clock, raced, dslock, threadVars, sess, nreq, nfault>>

\* ncds_file_init found an empty file and writes the frame at its start,
\* still without the semaphore; a longer document written in the meantime
\* is overwritten in part
InitFrame(p) ==
  LET f == path[p]
      clean == \/ disk[f].st = "empty"
               \/ disk[f].st = "ok" /\ disk[f].doc = file_create_xmlframe
  IN  /\ pstate[p] = "init"
      /\ disk' = [disk EXCEPT ![f] = IF clean
                                     THEN [st |-> "ok", doc |-> file_create_xmlframe]
                                     ELSE [@ EXCEPT !.st = "torn"]]
      /\ mtime' = [mtime EXCEPT ![f] = clock]
      /\ raced' = IF clean /\ sem[f] = 1 THEN raced ELSE raced \cup {f}
      /\ pstate' = [pstate EXCEPT ![p] = "up"]
      /\ UNCHANGED <<clock, sem, copyVars, holding_lock, dslock, threadVars, sess, bounds>>

\* mutant: the semaphore is posted whether or not it is held
FreePosts(p) ==
  /\ pstate[p] = "up"
  /\ \A t \in Threads : ProcOf[t] = p => pc[t] = "idle"
  /\ \A s \in Sessions : HomeOf[s] = p => sess[s] \notin {"open", "unsure"}
  /\ sem' = [sem EXCEPT ![path[p]] = @ + 1]
  /\ pstate' = [pstate EXCEPT ![p] = "down"]
  /\ UNCHANGED <<clock, fileVars, copyVars, holding_lock, dslock, threadVars, sess, bounds>>

ncds_file_free(p) ==
  /\ pstate[p] = "up"
  /\ \A t \in Threads : ProcOf[t] = p => pc[t] = "idle"
  /\ \A s \in Sessions : HomeOf[s] = p => sess[s] \notin {"open", "unsure"}
  /\ sem' = IF holding_lock[p] THEN [sem EXCEPT ![path[p]] = @ + 1] ELSE sem
  /\ pstate' = [pstate EXCEPT ![p] = "down"]
  /\ UNCHANGED <<clock, fileVars, copyVars, holding_lock, dslock, threadVars, sess, bounds>>

\* the threads stop wherever they are; the semaphore stays as it is
Crash(p) ==
  /\ pstate[p] # "down"
  /\ nfault < MaxFaults
  /\ nfault' = nfault + 1
  /\ pstate' = [pstate EXCEPT ![p] = "down"]
  /\ pc' = [t \in Threads |-> IF ProcOf[t] = p THEN "idle" ELSE pc[t]]
  /\ saved' = [t \in Threads |-> IF ProcOf[t] = p THEN NothingSaved ELSE saved[t]]
  /\ dslock' = [dslock EXCEPT ![p] = {}]
  /\ sess' = [s \in Sessions |->
                IF HomeOf[s] = p /\ sess[s] \in {"open", "unsure"} THEN "lost" ELSE sess[s]]
  /\ UNCHANGED <<clock, fileVars, sem, copyVars, holding_lock, req, reply, nreq, nstart>>

Tick ==
  /\ clock < MaxTime
  /\ clock' = clock + 1
  /\ UNCHANGED <<fileVars, sem, pstate, copyVars, holding_lock, dslock, threadVars,
                 sess, bounds>>

(***************************************************************************)
(* The specification                                                       *)
(***************************************************************************)
Init ==
  /\ clock = 1
  /\ disk = [f \in Files |->
               [st |-> IF f = MainFile /\ Start # {} THEN "ok" ELSE "absent",
                doc |-> file_create_xmlframe]]
  /\ mtime = [f \in Files |-> 0]
  /\ sem = [f \in Files |-> 1]
  /\ pstate = [p \in Procs |-> IF p \in Start THEN "up" ELSE "down"]
  /\ path = [p \in Procs |-> MainFile]
  /\ xml = [p \in Procs |-> file_create_xmlframe]
  /\ last_access = [p \in Procs |-> 0]
  /\ xml_rollback = [p \in Procs |-> {}]
  /\ dsnodes = [p \in Procs |-> TRUE]
  /\ dirty = [p \in Procs |-> FALSE]
  /\ holding_lock = [p \in Procs |-> FALSE]
  /\ dslock = [p \in Procs |-> {}]
  /\ saved = [t \in Threads |-> NothingSaved]
  /\ pc = [t \in Threads |-> "idle"]
  /\ req = [t \in Threads |-> NoRequest]
  /\ reply = [t \in Threads |-> "none"]
  /\ sess = [s \in Sessions |-> "new"]
  /\ raced = {}
  /\ nreq = 0 /\ nfault = 0 /\ nstart = 0

Operate(t) ==
  \/ OperateFails(t) \/ OperateOnCopy(t) \/ ReloadCopy(t) \/ OperateOnFile(t)
  \/ file_rollback_restore(t)

file_sync(t) ==
  SyncTruncate(t) \/ SyncRefused(t) \/ SyncDump(t) \/ SyncDumpFails(t) \/ SyncStamp(t)

ThreadStep(t) ==
  \/ LOCK(t) \/ LockTimeout(t) \/ UNLOCKPost(t) \/ UNLOCKClear(t)
  \/ Operate(t)
  \/ file_sync(t)

ProcStep(p) == ncds_file_init(p) \/ InitFrame(p) \/ ncds_file_free(p) \/ Crash(p)

Next ==
  \/ Tick
  \/ \E t \in Threads : ThreadStep(t) \/ \E r \in Requests : Begin(t, r)
  \/ \E p \in Procs : ProcStep(p)

Spec == Init /\ [][Next]_vars

\* a thread that has begun an operation goes on with it
FairSpec == Spec /\ \A t \in Threads : WF_vars(ThreadStep(t))

(***************************************************************************)
(* Properties                                                              *)
(***************************************************************************)
Pcs == {"idle", "wait", "body", "reload", "sync", "dump", "stamp", "post", "clear"}
Replies == {"none", "ok", "notapplicable", "denied", "error", "failed",
            "timeout", "undefined"}

SavedCopy == [lock : SUBSET Threads, time : Nat]

\* Type invariant.
TypeOK ==
  /\ clock \in Nat
  /\ disk \in [Files -> [st : {"ok", "empty", "torn", "absent"}, doc : Doc]]
  /\ mtime \in [Files -> Nat]
  /\ sem \in [Files -> {0, 1}]
  /\ pstate \in [Procs -> {"down", "init", "up"}]
  /\ path \in [Procs -> Files]
  /\ xml \in [Procs -> Doc]
  /\ last_access \in [Procs -> Nat]
  /\ xml_rollback \in [Procs -> SUBSET Doc]
  /\ dsnodes \in [Procs -> BOOLEAN]
  /\ dirty \in [Procs -> BOOLEAN]
  /\ holding_lock \in [Procs -> BOOLEAN]
  /\ dslock \in [Procs -> SUBSET Threads]
  /\ saved \in [Threads -> SavedCopy]
  /\ pc \in [Threads -> Pcs]
  /\ req \in [Threads -> Request \cup {NoRequest}]
  /\ reply \in [Threads -> Replies]
  /\ sess \in [Sessions -> {"new", "open", "unsure", "closed", "lost"}]
  /\ raced \subseteq Files
  /\ {nreq, nfault, nstart} \subseteq Nat

File(t) == path[ProcOf[t]]

\* thread t is between LOCK and the sem_post of UNLOCK
InCS(t) == pc[t] \in {"body", "reload", "sync", "dump", "stamp", "post"}

\* LOCK and UNLOCK "serialize access to the datastore": whatever threads and
\* processes start, stop, crash and time out, no two of them are between
\* LOCK and UNLOCK on one file, and a free semaphore means nobody is.  The
\* posts of error paths, the post of ncds_file_free and the recreation of
\* the semaphores by the first process could each break it.
MutualExclusion ==
  /\ \A t, u \in Threads : InCS(t) /\ InCS(u) /\ File(t) = File(u) => t = u
  /\ \A t \in Threads : InCS(t) => sem[File(t)] = 0

\* When file_reload keeps the copy because st_mtime < last_access, the copy
\* is the document in the file, although both times are whole seconds and
\* other processes write the file: no write of another process is missed.
\* (Not so when file_sync refused a change that stays in the copy, or when a
\* starting process wrote the file during an operation.)
CopyIsCurrent ==
  \A t \in Threads :
    LET p == ProcOf[t] IN
    pc[t] = "body" /\ NotModified(p) /\ ~dirty[p] /\ path[p] \notin raced
      => Usable(path[p]) /\ xml[p] = disk[path[p]].doc

Dumps(t) == pc[t] = "dump" /\ pc'[t] = "stamp"

\* No update is lost: a document that file_sync writes is what the operation
\* makes of the document that was last in the file, whoever wrote it.  The
\* only other writers are a rollback, and ncds_file_init on an empty file.
NoLostUpdate ==
  [][\A f \in Files \ raced' :
       disk'[f].doc # disk[f].doc =>
         \/ disk[f].st = "empty" /\ disk'[f].doc = file_create_xmlframe
         \/ \E t \in Threads :
              /\ Dumps(t) /\ File(t) = f
              /\ \/ req[t].op = "rollback" \/ dirty[ProcOf[t]]
                 \/ disk'[f].doc \in Results(disk[f].doc, req[t])]_vars

\* "Lock target datastore for single session exclusive write-access": a
\* write on behalf of one session changes neither the content nor the lock
\* of a datastore another session has locked, in whichever process.
\* Rollback is exempt, and breaks it (see RollbackRespectsLocks).
LocksRespected ==
  [][\A t \in Threads : \A tg \in Targets :
       /\ Dumps(t) /\ req[t].op # "rollback" /\ ~dirty[ProcOf[t]]
       /\ File(t) \notin raced
       /\ ~file_ds_access(disk[File(t)].doc, tg, req[t].sid)
       => /\ disk'[File(t)].doc.cfg[tg] = disk[File(t)].doc.cfg[tg]
          /\ disk'[File(t)].doc.lock[tg] = disk[File(t)].doc.lock[tg]]_vars

\* "Remove all the locks that the given session is holding": a lock in the
\* file belongs to an open session, unless its process crashed, one of the
\* unlocks of ncds_break_locks could not be carried out, or the session was
\* told before that a lock or unlock of its own failed (file_sync may then
\* have refused what the copy already says).
LockOwnersAreOpen ==
  \A f \in Files, tg \in Targets :
    LET s == disk[f].doc.lock[tg] IN s # NoSession => sess[s] \in {"open", "unsure", "lost"}

\* What was reported as done is in the file: when an operation that writes
\* is about to give the semaphore back with success, the file is complete
\* and holds the copy.
AcknowledgedIsStored ==
  \A t \in Threads :
    /\ pc[t] = "post" /\ reply[t] \in {"ok", "notapplicable"}
    /\ req[t].op \notin ReadOps /\ File(t) \notin raced
    => Usable(File(t)) /\ disk[File(t)].doc = xml[ProcOf[t]]

\* Without crashes and failed writes the file is complete whenever the
\* semaphore is free (or waits for its first frame): the windows in which
\* file_sync has truncated the file are all inside LOCK and UNLOCK.
SettledFileIsComplete ==
  \A f \in Files :
    nfault = 0 /\ sem[f] = 1 /\ f \notin raced =>
      \/ disk[f].st \in {"ok", "absent"}
      \/ disk[f].st = "empty" /\ \E p \in Procs : pstate[p] = "init" /\ path[p] = f

\* Every LOCK is followed by its UNLOCK, on every error path: the semaphore
\* is given back unless a process crashed.
SemaphoreReturned ==
  \A f \in Files : sem[f] = 0 ~> (sem[f] = 1 \/ nfault > 0)

\* ncds_break_locks of a closing session ends, although it meets the
\* semaphore once per datastore and may time out each time.
CloseCompletes ==
  \A s \in Sessions :
    (\E t \in Threads : pc[t] # "idle" /\ req[t].op = "breaklocks" /\ req[t].sid = s)
      ~> (sess[s] \in {"closed", "lost"})

(***************************************************************************)
(* Statements of the documentation that the code does not keep             *)
(***************************************************************************)
\* datastore_internal.h: "Lock target datastore for single session exclusive
\* write-access", here for the writes of a rollback.
RollbackRespectsLocks ==
  [][\A t \in Threads : \A tg \in Targets :
       /\ Dumps(t) /\ req[t].op = "rollback"
       /\ ~file_ds_access(disk[File(t)].doc, tg, req[t].sid)
       => disk'[File(t)].doc.lock[tg] = disk[File(t)].doc.lock[tg]]_vars

\* the thread works under the mutex ds->lock of its process
InRpc(t) ==
  pc[t] # "idle" /\ IF req[t].op = "rollback" THEN req[t].undo = "test" ELSE req[t].op \in RpcOps

\* datastore_internal.h: ncds_ds.lock is the "Lock for serialized
\* access/modification of the datastore": no two threads of a process are in
\* ncds_apply_rpc on it, although file_reload copies the mutex back and forth.
RpcsSerialized ==
  \A t, u \in Threads : InRpc(t) /\ InRpc(u) /\ ProcOf[t] = ProcOf[u] => t = u

\* FileDatastore behaves as the single document of Datastore
AtomicDocument == INSTANCE Datastore WITH doc <- disk[MainFile].doc

\* Refinement: for the sessions of all processes the datastore is one
\* document to which each operation applies at one instant, the xml dump of
\* file_sync.
ImplementsDatastore == AtomicDocument!Spec

=============================================================================
