--------------------------- MODULE DatastoreDocs ---------------------------
(***************************************************************************)
(* The document of the file datastore, and what each operation of          *)
(* src/datastore/file/datastore_file.c does to it in memory.               *)
(***************************************************************************)

CONSTANTS
  Sessions,     \* NETCONF session ids
  NoSession,    \* the value of an empty lock attribute
  Targets,      \* datastores in the file: running, candidate, startup
  Nodes         \* configuration data nodes

ASSUME DocsAssumption ==
  /\ NoSession \notin Sessions
  /\ Targets \subseteq {"running", "candidate", "startup"}
  /\ "running" \in Targets

ReadOps == {"getconfig", "lockinfo"}
StoreOps == {"copyconfig", "deleteconfig", "editconfig"}
\* ncds_apply_rpc calls these with the mutex ds->lock held
RpcOps == StoreOps \cup {"getconfig", "lock", "unlock"}
Ops == ReadOps \cup RpcOps \cup {"breaklocks", "rollback"}

\* undo: a successful change is rolled back afterwards, by ncds_apply_rpc
\* (test-only edit, or one that fails validation) or by ncds_apply_rpc2all
\* (another datastore failed)
Request ==
  [op : Ops, sid : Sessions, tg : Targets, src : Targets \cup {"config"},
   new : SUBSET Nodes, undo : {"none", "test", "rpc2all"}]

\* of a thread that works on none
NoRequest ==
  [op |-> "getconfig", sid |-> NoSession, tg |-> "running", src |-> "config",
   new |-> {}, undo |-> "none"]

Doc ==
  [cfg : [Targets -> SUBSET Nodes],
   lock : [Targets -> Sessions \cup {NoSession}],
   modified : BOOLEAN]

\* FILEDSFRAME: empty, unlocked datastores
file_create_xmlframe ==
  [cfg |-> [tg \in Targets |-> {}],
   lock |-> [tg \in Targets |-> NoSession],
   modified |-> FALSE]

\* the test of the lock attribute; NoSession stands for the dummy session
\* with which lock and unlock ask whether anyone holds it
file_ds_access(d, tg, sid) == d.lock[tg] \in {NoSession, sid}

Marked(d, tg, m) == IF tg = "candidate" THEN [d EXCEPT !.modified = m] ELSE d

Replaced(d, tg, c, m) == Marked([d EXCEPT !.cfg[tg] = c], tg, m)

\* What an operation does to the copy: the document it leaves, whether
\* file_sync follows, and the reply.
Refused(d, why) == {[doc |-> d, sync |-> FALSE, reply |-> why]}
Changed(d, rep) == {[doc |-> d, sync |-> TRUE, reply |-> rep]}

ncds_file_lock(d, r) ==
  IF ~file_ds_access(d, r.tg, NoSession) \/ (r.tg = "candidate" /\ d.modified)
  THEN Refused(d, "denied")
  ELSE Changed([d EXCEPT !.lock[r.tg] = r.sid], "ok")

\* unlocking the candidate also discards its changes
ncds_file_unlock(d, r) ==
  IF d.lock[r.tg] = NoSession \/ ~file_ds_access(d, r.tg, r.sid)
  THEN Refused(d, "error")
  ELSE LET u == [d EXCEPT !.lock[r.tg] = NoSession]
       IN  Changed(IF r.tg = "candidate"
                   THEN Replaced(u, "candidate", d.cfg["running"], FALSE)
                   ELSE u, "ok")

\* mutant: only a commit tests a lock, and only that of its source
CopyUnchecked(d, r) ==
  LET source == IF r.src = "config" THEN r.new ELSE d.cfg[r.src]
  IN  IF r.src = "candidate" /\ ~file_ds_access(d, "candidate", r.sid)
      THEN Refused(d, "denied")
      ELSE Changed(Replaced(d, r.tg, source, r.src # "running"), "ok")

\* Nodes of a datastore that NACM does not let the session read are left out
\* without a word, except in a copy from running to startup.
Copied(d, r) ==
  IF r.src = "config" THEN {r.new}
  ELSE IF r.src = "running" /\ r.tg = "startup" THEN {d.cfg[r.src]}
  ELSE SUBSET d.cfg[r.src]

\* a permitted copy may still fail: the source does not parse, or NACM
\* denies it
ncds_file_copyconfig(d, r) ==
  LET source == IF r.src = "config" THEN r.new ELSE d.cfg[r.src]
      commit == r.src = "candidate" /\ r.tg = "running"
  IN  IF \/ ~file_ds_access(d, r.tg, r.sid)
         \/ commit /\ ~file_ds_access(d, "candidate", r.sid)
      THEN Refused(d, "denied")
      ELSE IF source = {} /\ d.cfg[r.tg] = {}
      THEN Changed(Marked(d, r.tg, r.src # "running"), "notapplicable")
      ELSE Refused(d, "error") \cup
           UNION {Changed(Replaced(d, r.tg, c, r.src # "running"), "ok") : c \in Copied(d, r)}

ncds_file_deleteconfig(d, r) ==
  IF r.tg = "running"
  THEN Refused(d, "error")
  ELSE IF ~file_ds_access(d, r.tg, r.sid)
  THEN Refused(d, "denied")
  ELSE Changed(Replaced(d, r.tg, {}, TRUE), "ok")

\* edit_config merges or deletes nodes in a copy of the target; when it
\* fails nothing changes
ncds_file_editconfig(d, r) ==
  IF ~file_ds_access(d, r.tg, r.sid)
  THEN Refused(d, "denied")
  ELSE Changed(Replaced(d, r.tg, d.cfg[r.tg] \cup r.new, TRUE), "ok")
         \cup Changed(Replaced(d, r.tg, d.cfg[r.tg] \ r.new, TRUE), "ok")
         \cup Refused(d, "error")

Outcomes(d, r) ==
  CASE r.op \in ReadOps -> Refused(d, "ok")
    [] r.op = "lock" -> ncds_file_lock(d, r)
    [] r.op \in {"unlock", "breaklocks"} -> ncds_file_unlock(d, r)
    [] r.op = "copyconfig" -> ncds_file_copyconfig(d, r)
    [] r.op = "deleteconfig" -> ncds_file_deleteconfig(d, r)
    [] r.op = "editconfig" -> ncds_file_editconfig(d, r)

\* the documents an operation may leave
Results(d, r) == {o.doc : o \in Outcomes(d, r)}

=============================================================================
