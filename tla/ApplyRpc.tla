------------------------------ MODULE ApplyRpc ------------------------------
(***************************************************************************)
(* ncds_apply_rpc2all and ncds_apply_rpc (src/datastore.c): one request is *)
(* applied to the datastores of the process one after another, the change  *)
(* of running goes through transAPI to the device, the replies are merged, *)
(* and the error-option decides what happens to the datastores that came   *)
(* before the one that failed.                                             *)
(*                                                                         *)
(* One server thread calls the library ("This function IS NOT thread       *)
(* safety", datastore.h) and no other process uses the files: what         *)
(* processes do to each other in one file is the subject of FileDatastore. *)
(* The operations on a file are those of DatastoreDocs, the callbacks those*)
(* TransApi keeps to.                                                      *)
(***************************************************************************)
EXTENDS DatastoreDocs, DeviceOutcomes, Integers, Sequences, FiniteSets

CONSTANTS
  List,                \* ids of the datastores in the order of the list
  internal_ds_count,   \* the ids below it are those of internal datastores
  Files,               \* the datastores of type FILE; the others are EMPTY
  Tapi,                \* those with transAPI callbacks
  Validators,          \* those with validators
  Implementing,        \* those whose first transAPI module has the user RPC
  Validate,            \* do the sessions have the capability :validate?
  DeviceUndoes,        \* can the device undo every change?
  Rpcs,                \* the requests of the sessions
  MaxRpcs              \* bound on the number of requests

Stores == {List[i] : i \in DOMAIN List}

WriteOps == {"lock", "unlock", "editconfig", "copyconfig", "deleteconfig", "commit",
             "discard"}
ReadOnlyOps == {"get", "getschema", "validate"}

\* for: the datastores whose data the <config> of the request has
Rpc ==
  [op : WriteOps \cup ReadOnlyOps \cup {"userrpc"}, sid : Sessions,
   tg : Targets \cup {"url"}, src : Targets \cup {"url", "config"},
   for : SUBSET Stores, new : SUBSET Nodes,
   erropt : {"notset", "stop", "continue", "rollback"},
   testopt : {"notset", "set", "test-only"}]

ASSUME ApplyRpcAssumption ==
  /\ List \in Seq(Nat) /\ \A i, j \in DOMAIN List : List[i] = List[j] => i = j
  /\ internal_ds_count \in Nat \ {0}
  /\ 0..(internal_ds_count - 1) \subseteq Stores /\ Stores \subseteq Nat
  /\ List[Len(List)] = 0                       \* ncds_init inserts at the head
  /\ Files \subseteq Stores \ {0} /\ Tapi \subseteq Files
  /\ Validators \subseteq Files /\ Implementing \subseteq Tapi
  /\ Rpcs \subseteq Rpc /\ Rpcs # {}
  /\ \A r \in Rpcs : /\ r.erropt # "notset" => r.op = "editconfig"
                     /\ r.testopt # "notset" => r.op = "editconfig"
                     /\ r.op = "editconfig" => r.src \in {"config", "url"}
                     /\ r.op = "commit" => r.tg = "running"
                     /\ r.tg = "url" => r.op \in {"copyconfig", "deleteconfig"}
                     /\ r.for = {} => r.new = {}
  /\ {Validate, DeviceUndoes} \subseteq BOOLEAN
  /\ MaxRpcs \in Nat

VARIABLES
  doc,        \* the documents of the file datastores
  saved,      \* xml_rollback: none, or the document before the last change
  device,     \* the configuration of the device, or {Mixed}
  remote,     \* the parts of the file behind the URL; {Dropped} for one that is lost
  rpc,        \* the request
  pc,         \* the place in the code
  at,         \* ds of ncds_apply_rpc2all: its place in the list
  dsid,       \* dsid of ncds_apply_rpc
  old,        \* the old running configuration, for transAPI
  rewrite,    \* the configuration transAPI has to write: none or one
  reply,      \* reply of the datastore, then of the request
  inner,      \* old_reply of ncds_apply_rpc, for the internal datastores
  outer,      \* old_reply of ncds_apply_rpc2all
  back,       \* ds_rollback: its place in the list
  count,      \* number of requests
  before,     \* history: the documents when the request came
  replies,    \* history: the replies of the datastores
  meddled,    \* history: a module changed the configuration
  refused,    \* history: the device could not undo
  strayed     \* history: datastores rolled back that the request had not changed

vars == <<doc, saved, device, remote, rpc, pc, at, dsid, old, rewrite, reply, inner, outer,
          back, count, before, replies, meddled, refused, strayed>>
stores == <<doc, saved, device, remote>>
caller == <<rpc, at, outer, back, count, before>>
history == <<replies, meddled, refused, strayed>>

\* a device that callbacks left in another configuration than they reported
Mixed == "mixed"

\* a part of the remote file that was there, or not, when the file was not read
Dropped == "dropped"

Running(ds) == doc[ds].cfg["running"]

(***************************************************************************)
(* Helpers                                                                 *)
(***************************************************************************)
\* Replies of other types than error must be of one type; "na" is
\* NCDS_RPC_NOT_APPLICABLE, which is not merged.
nc_reply_merge(a, b) ==
  IF a \in {"none", "na"} THEN b
  ELSE IF b \in {"na", a} THEN a
  ELSE "error"

\* ncds_file_rollback: there is one document to go back to, once
Restore(ds) ==
  /\ doc' = IF ds \in Files /\ saved[ds] # {}
            THEN [doc EXCEPT ![ds] = CHOOSE d \in saved[ds] : TRUE]
            ELSE doc
  /\ saved' = IF ds \in Files THEN [saved EXCEPT ![ds] = {}] ELSE saved

\* the request as an operation of the file datastore
FileRequest(op, tg, src, new) ==
  [op |-> op, sid |-> rpc.sid, tg |-> tg, src |-> src, new |-> new, undo |-> "none"]

FileReply(why) == CASE why = "ok" -> "ok" [] why = "notapplicable" -> "na" [] OTHER -> "error"

\* A call of ds->func: copyconfig, deleteconfig and editconfig keep the
\* document for the rollback before they test the lock.
Call(q) ==
  \E o \in Outcomes(doc[dsid], q) :
    /\ doc' = [doc EXCEPT ![dsid] = o.doc]
    /\ saved' = IF q.op \in StoreOps THEN [saved EXCEPT ![dsid] = {doc[dsid]}] ELSE saved
    /\ reply' = FileReply(o.reply)
    /\ UNCHANGED <<device, remote>>

CallOnly(q) == Call(q) /\ pc' = "transapi"
Answer(rep) == reply' = rep /\ pc' = "transapi" /\ UNCHANGED stores

\* the request changes running, and the callbacks have to be called
ChangesRunning(ds) ==
  /\ ds \in Tapi
  /\ rpc.op \in {"commit", "copyconfig", "editconfig"}
  /\ rpc.testopt # "test-only"
  /\ rpc.tg = "running"

\* Data of a request concern the datastores whose roots they have; an empty
\* <config> concerns all.
Concerns(ds) ==
  /\ ds \in Files
  /\ rpc.op \in {"editconfig", "copyconfig"} /\ rpc.src \in {"config", "url"} =>
       rpc.for = {} \/ ds \in rpc.for

(***************************************************************************)
(* ncds_apply_rpc                                                          *)
(***************************************************************************)
Snapshot(ds) == IF ChangesRunning(ds) THEN Running(ds) ELSE {}

Operating(ops) ==
  /\ pc = "operate"
  /\ rpc.op \in ops
  /\ UNCHANGED <<caller, dsid, old, rewrite, inner, history>>

LockUnlock ==
  /\ Operating({"lock", "unlock"})
  /\ IF dsid \in Files THEN CallOnly(FileRequest(rpc.op, rpc.tg, rpc.tg, {})) ELSE Answer("ok")

\* also <get-config>; data or an error of the datastore, of the state data
\* or of the filter
Get ==
  /\ Operating({"get"})
  /\ \E rep \in {"data", "error"} : Answer(rep)

GetSchema ==
  /\ Operating({"getschema"})
  /\ \E rep \in {"data"} \cup (IF dsid = 0 THEN {"error"} ELSE {}) : Answer(rep)

ValidateRpc ==
  /\ Operating({"validate"})
  /\ \E rep \in IF dsid \in Validators THEN {"ok", "error"} ELSE {"na"} : Answer(rep)

UserRpc ==
  /\ Operating({"userrpc"})
  /\ \E rep \in IF dsid \in Implementing THEN {"ok", "data", "error"} ELSE {"na"} : Answer(rep)

NotApplicable ==
  /\ Operating({"editconfig", "copyconfig", "deleteconfig", "commit", "discard"})
  /\ ~Concerns(dsid)
  /\ Answer("na")

\* the with-defaults attributes of the data are wrong
BadDefaults ==
  /\ Operating({"editconfig", "copyconfig"})
  /\ Concerns(dsid)
  /\ rpc.src \in {"config", "url"} /\ rpc.for # {}
  /\ Answer("error")

ToValidation(rep) ==
  IF rep = "ok" /\ Validate /\ rpc.testopt # "set" THEN "validation" ELSE "transapi"

EditConfig ==
  /\ Operating({"editconfig"})
  /\ Concerns(dsid)
  /\ Call(FileRequest("editconfig", rpc.tg, "config", rpc.new))
  /\ pc' = ToValidation(reply')

\* the result of the edit is validated; an empty configuration is valid
EditValidated ==
  /\ pc = "validation"
  /\ \E valid \in BOOLEAN :
       /\ valid \/ (dsid \in Validators /\ doc[dsid].cfg[rpc.tg] # {})
       /\ reply' = IF valid THEN "ok" ELSE "error"
       /\ IF rpc.testopt = "test-only" \/ ~valid THEN Restore(dsid) ELSE UNCHANGED <<doc, saved>>
  /\ pc' = "transapi"
  /\ UNCHANGED <<device, remote, caller, dsid, old, rewrite, inner, history>>

\* ncds_is_conflict
CopyOntoItself ==
  /\ Operating({"copyconfig"})
  /\ Concerns(dsid)
  /\ rpc.src = rpc.tg /\ rpc.src # "url"
  /\ Answer("error")

CopyConfig ==
  /\ Operating({"copyconfig"})
  /\ Concerns(dsid)
  /\ rpc.src # rpc.tg /\ rpc.tg # "url"
  /\ IF rpc.src \in {"url", "config"}
     THEN CallOnly(FileRequest("copyconfig", rpc.tg, "config", rpc.new))
     ELSE CallOnly(FileRequest("copyconfig", rpc.tg, rpc.src, {}))

Upload(file) ==
  \/ /\ remote' = file
     /\ reply' = "ok" /\ pc' = "transapi"
     /\ UNCHANGED <<doc, saved, device>>
  \/ Answer("error")

\* mutant: the file behind the URL is not read before it is written
OverwriteUrl ==
  /\ Operating({"copyconfig"})
  /\ Concerns(dsid)
  /\ rpc.src \in Targets /\ rpc.tg = "url"
  /\ Upload([ds \in Files |-> IF ds = dsid THEN doc[dsid].cfg[rpc.src] ELSE {}])

\* The part of the datastore in the remote file is replaced.  A file that
\* could not be read is taken for an empty one and written without the others.
CopyToUrl ==
  /\ Operating({"copyconfig"})
  /\ Concerns(dsid)
  /\ rpc.src \in Targets /\ rpc.tg = "url"
  /\ \/ Upload([remote EXCEPT ![dsid] = doc[dsid].cfg[rpc.src]])
     \/ Upload([ds \in Files |-> IF ds = dsid THEN doc[dsid].cfg[rpc.src] ELSE {Dropped}])

\* Data of the request: a file behind another URL is uploaded with its
\* <config>, of which only the part of this datastore is left; the content
\* of <config> itself has lost that element and is refused.
DataToUrl ==
  /\ Operating({"copyconfig"})
  /\ Concerns(dsid)
  /\ rpc.src \in {"url", "config"} /\ rpc.tg = "url"
  /\ IF rpc.src = "url"
     THEN Upload([ds \in Files |-> IF ds = dsid THEN rpc.new ELSE {}])
     ELSE Answer("error")

DeleteConfig ==
  /\ Operating({"deleteconfig"})
  /\ Concerns(dsid)
  /\ CASE rpc.tg = "running" -> Answer("error")
       [] rpc.tg = "url" -> Upload([ds \in Files |-> {}])
       [] OTHER -> CallOnly(FileRequest("deleteconfig", rpc.tg, "config", {}))

Commit ==
  /\ Operating({"commit"})
  /\ Concerns(dsid)
  /\ IF "candidate" \in Targets
     THEN CallOnly(FileRequest("copyconfig", "running", "candidate", {}))
     ELSE Answer("error")

DiscardChanges ==
  /\ Operating({"discard"})
  /\ Concerns(dsid)
  /\ IF "candidate" \in Targets
     THEN CallOnly(FileRequest("copyconfig", "candidate", "running", {}))
     ELSE Answer("error")

(***************************************************************************)
(* ncds_apply_transapi                                                     *)
(***************************************************************************)
NoTransapi ==
  /\ pc = "transapi"
  /\ ~(ChangesRunning(dsid) /\ reply = "ok")
  /\ pc' = "merge"
  /\ UNCHANGED <<stores, caller, dsid, old, rewrite, reply, inner, history>>

\* the device of datastore ds after callbacks for the change from c1 to c2
DeviceAfter(ds, o, c1, c2) ==
  CASE o.ret /\ o.dev = "old" -> device[ds]
    [] ~o.ret /\ o.dev = "new" /\ device[ds] = c1 -> c2
    [] OTHER -> {Mixed}

\* The callbacks are called for the change of datastore ds from c1 to c2,
\* and return o; the module may then ask for another configuration c.
Callbacks(ds, c1, c2, erropt, o) ==
  /\ o \in IF c1 = c2
           THEN [ret : {FALSE}, dev : {"new"}]
           ELSE CallbackOutcomes(erropt, TRUE, DeviceUndoes)
  /\ \/ /\ device' = [device EXCEPT ![ds] = DeviceAfter(ds, o, c1, c2)]
        /\ rewrite' = IF o.ret THEN {c1} ELSE {}
        /\ UNCHANGED meddled
     \/ \E c \in SUBSET Nodes :
        /\ ~o.ret /\ c1 # c2
        /\ device' = [device EXCEPT ![ds] = IF o.dev = "new" /\ @ = c1 THEN c ELSE {Mixed}]
        /\ rewrite' = {c}
        /\ meddled' = TRUE

\* commit and copy-config "try rollback to keep transactions atomic"
Erropt == IF rpc.op = "editconfig" THEN rpc.erropt ELSE "rollback"

\* mutant: the datastore is not rolled back, and the old data not written
RunningChangedOnly ==
  /\ pc = "transapi"
  /\ ChangesRunning(dsid)
  /\ reply = "ok"
  /\ \E o \in [ret : BOOLEAN, dev : DeviceStates] :
       /\ Callbacks(dsid, old, Running(dsid), Erropt, o)
       /\ reply' = IF o.ret THEN "error" ELSE "ok"
       /\ refused' = (refused \/ (o.ret /\ o.dev # "old"))
  /\ pc' = "merge"
  /\ UNCHANGED <<doc, saved, remote, caller, dsid, old, inner, replies, strayed>>

RunningChanged ==
  /\ pc = "transapi"
  /\ ChangesRunning(dsid)
  /\ reply = "ok"
  /\ \E o \in [ret : BOOLEAN, dev : DeviceStates] :
       /\ Callbacks(dsid, old, Running(dsid), Erropt, o)
       /\ reply' = IF o.ret THEN "error" ELSE "ok"
       /\ refused' = (refused \/ (o.ret /\ o.dev # "old"))
       /\ IF o.ret /\ Erropt = "rollback" THEN Restore(dsid) ELSE UNCHANGED <<doc, saved>>
  /\ pc' = IF rewrite' = {} THEN "merge" ELSE "rewrite"
  /\ UNCHANGED <<remote, caller, dsid, old, inner, replies, strayed>>

\* copyconfig of what the callbacks left, or of the old data; it has no RPC
\* for NACM to refuse, and its failure is only logged
Rewritten(ds) ==
  \E c \in rewrite :
    \E o \in ncds_file_copyconfig(doc[ds], FileRequest("copyconfig", "running", "config", c)) :
      /\ o.reply # "error"
      /\ doc' = [doc EXCEPT ![ds] = o.doc]
      /\ saved' = [saved EXCEPT ![ds] = {doc[ds]}]
      /\ rewrite' = {}

Rewrite ==
  /\ pc = "rewrite"
  /\ Rewritten(dsid)
  /\ pc' = "merge"
  /\ UNCHANGED <<device, remote, caller, dsid, old, reply, inner, history>>

\* The call for datastore 0 goes on with the next internal datastore,
\* whatever the reply; every other call returns.
Merge ==
  /\ pc = "merge"
  /\ replies' = [replies EXCEPT ![dsid] = reply]
  /\ IF List[at] = 0
     THEN /\ inner' = nc_reply_merge(inner, reply)
          /\ IF dsid + 1 < internal_ds_count
             THEN /\ dsid' = dsid + 1
                  /\ old' = Snapshot(dsid + 1)
                  /\ pc' = "operate"
                  /\ UNCHANGED reply
             ELSE reply' = inner' /\ pc' = "return" /\ UNCHANGED <<dsid, old>>
     ELSE pc' = "return" /\ UNCHANGED <<dsid, old, reply, inner>>
  /\ UNCHANGED <<stores, caller, rewrite, meddled, refused, strayed>>

(***************************************************************************)
(* ncds_apply_rpc2all                                                      *)
(***************************************************************************)
Receive(r) ==
  /\ pc = "idle"
  /\ count < MaxRpcs
  /\ count' = count + 1
  /\ rpc' = r
  /\ pc' = "next"
  /\ UNCHANGED <<stores, at, dsid, old, rewrite, reply, inner, outer, back, before, history>>

SkipInternal ==
  /\ pc = "next"
  /\ at <= Len(List)
  /\ List[at] \in 1..(internal_ds_count - 1)
  /\ at' = at + 1
  /\ UNCHANGED <<stores, rpc, pc, dsid, old, rewrite, reply, inner, outer, back, count, before, history>>

NextStore ==
  /\ pc = "next"
  /\ at <= Len(List)
  /\ List[at] \notin 1..(internal_ds_count - 1)
  /\ dsid' = List[at]
  /\ old' = Snapshot(List[at])
  /\ inner' = "none"
  /\ pc' = "operate"
  /\ UNCHANGED <<stores, caller, rewrite, reply, history>>

\* mutant: rollback-on-error is taken for stop-on-error
StopsInstead(op, erropt) ==
  \/ op \in WriteOps /\ erropt # "continue"
  \/ op \in ReadOnlyOps

Stops(op, erropt) ==
  \/ op \in WriteOps /\ erropt \in {"notset", "stop"}
  \/ op \in ReadOnlyOps

\* the replies of all datastores so far are merged
Return ==
  /\ pc = "return"
  /\ outer' = nc_reply_merge(outer, reply)
  /\ reply' = outer'
  /\ \/ /\ outer' = "error" /\ Stops(rpc.op, rpc.erropt)
        /\ pc' = "replied"
        /\ UNCHANGED <<at, back>>
     \/ /\ outer' = "error" /\ rpc.erropt = "rollback"
        /\ pc' = "rollback"
        /\ back' = 1
        /\ UNCHANGED at
     \/ /\ outer' # "error" \/ (~Stops(rpc.op, rpc.erropt) /\ rpc.erropt # "rollback")
        /\ pc' = "next"
        /\ at' = at + 1
        /\ UNCHANGED back
  /\ UNCHANGED <<stores, rpc, dsid, old, rewrite, inner, count, before, history>>

AllDone ==
  /\ pc = "next"
  /\ at > Len(List)
  /\ pc' = "replied"
  /\ UNCHANGED <<stores, caller, dsid, old, rewrite, reply, inner, history>>

\* mutant: the device is not told
RollbackFileOnly ==
  /\ pc = "rollback"
  /\ back < at
  /\ Restore(List[back])
  /\ back' = back + 1
  /\ strayed' = strayed \cup {ds \in Files : doc[ds] = before[ds] /\ doc'[ds] # doc[ds]}
  /\ UNCHANGED <<device, remote, rpc, pc, at, dsid, old, rewrite, reply, inner, outer, count,
                 before, replies, meddled, refused>>

\* "rollback previously changed datastores": the ones before the one that
\* failed, the internal ones included
RollbackStore ==
  /\ pc = "rollback"
  /\ back < at
  /\ Restore(List[back])
  /\ IF ChangesRunning(List[back])
     THEN pc' = "undo" /\ old' = Running(List[back]) /\ UNCHANGED back
     ELSE pc' = pc /\ back' = back + 1 /\ UNCHANGED old
  /\ strayed' = strayed \cup {ds \in Files : doc[ds] = before[ds] /\ doc'[ds] # doc[ds]}
  /\ UNCHANGED <<device, remote, rpc, at, dsid, rewrite, reply, inner, outer, count, before,
                 replies, meddled, refused>>

\* ncds_apply_transapi with the error reply: the datastore is not rolled back
\* again when the callbacks fail
UndoOnDevice ==
  LET ds == List[back] IN
  /\ pc = "undo"
  /\ \E o \in [ret : BOOLEAN, dev : DeviceStates] :
       /\ Callbacks(ds, old, Running(ds), "rollback", o)
       /\ refused' = (refused \/ o.ret)
       /\ pc' = IF rewrite' = {} THEN "rollback" ELSE "undone"
       /\ back' = IF rewrite' = {} THEN back + 1 ELSE back
  /\ UNCHANGED <<doc, saved, remote, rpc, at, dsid, old, reply, inner, outer, count, before, replies, strayed>>

UndoRewritten ==
  /\ pc = "undone"
  /\ Rewritten(List[back])
  /\ back' = back + 1
  /\ pc' = "rollback"
  /\ UNCHANGED <<device, remote, rpc, at, dsid, old, reply, inner, outer, count, before, history>>

RolledBack ==
  /\ pc = "rollback"
  /\ back = at
  /\ pc' = "replied"
  /\ UNCHANGED <<stores, caller, dsid, old, rewrite, reply, inner, history>>

\* what the functions hold while they work on a request
Locals ==
  [rpc |-> CHOOSE r \in Rpcs : TRUE, at |-> 1, dsid |-> 0, old |-> {}, rewrite |-> {},
   reply |-> "none", back |-> 1, replies |-> [ds \in Stores |-> "none"]]

\* the caller gets the reply, and the locals are gone
Replied ==
  /\ pc = "replied"
  /\ pc' = "idle"
  /\ rpc' = Locals.rpc /\ at' = Locals.at /\ dsid' = Locals.dsid /\ back' = Locals.back
  /\ old' = Locals.old /\ rewrite' = Locals.rewrite
  /\ reply' = Locals.reply /\ inner' = Locals.reply /\ outer' = Locals.reply
  /\ before' = doc
  /\ replies' = Locals.replies
  /\ meddled' = FALSE /\ refused' = FALSE
  /\ UNCHANGED <<stores, count, strayed>>

Done == pc = "idle" /\ count = MaxRpcs /\ UNCHANGED vars

\* The datastores are new and empty; ncds_device_init has brought the device
\* into the running configuration.
Init ==
  /\ doc = [ds \in Files |-> file_create_xmlframe]
  /\ saved = [ds \in Files |-> {}]
  /\ device = [ds \in Tapi |-> Running(ds)]
  /\ remote = [ds \in Files |-> {}]
  /\ pc = "idle"
  /\ rpc = Locals.rpc /\ at = Locals.at /\ dsid = Locals.dsid /\ back = Locals.back
  /\ old = Locals.old /\ rewrite = Locals.rewrite
  /\ reply = Locals.reply /\ inner = Locals.reply /\ outer = Locals.reply
  /\ count = 0
  /\ before = doc
  /\ replies = Locals.replies
  /\ meddled = FALSE /\ refused = FALSE /\ strayed = {}

ApplyOne ==
  \/ LockUnlock \/ Get \/ GetSchema \/ ValidateRpc \/ UserRpc \/ NotApplicable \/ BadDefaults
  \/ EditConfig \/ EditValidated \/ CopyOntoItself \/ CopyConfig \/ CopyToUrl \/ DataToUrl
  \/ DeleteConfig \/ Commit \/ DiscardChanges
  \/ NoTransapi \/ RunningChanged \/ Rewrite \/ Merge

ApplyAll ==
  \/ SkipInternal \/ NextStore \/ Return \/ AllDone
  \/ RollbackStore \/ UndoOnDevice \/ UndoRewritten \/ RolledBack \/ Replied

Next == (\E r \in Rpcs : Receive(r)) \/ ApplyOne \/ ApplyAll \/ Done

Spec == Init /\ [][Next]_vars

(***************************************************************************)
(* Properties                                                              *)
(***************************************************************************)
\* the operation of the request on one file datastore
Operation ==
  CASE rpc.op = "commit" -> FileRequest("copyconfig", "running", "candidate", {})
    [] rpc.op = "discard" -> FileRequest("copyconfig", "candidate", "running", {})
    [] rpc.op \in {"editconfig", "copyconfig"} /\ rpc.src \in {"url", "config"} ->
         FileRequest(rpc.op, rpc.tg, "config", rpc.new)
    [] OTHER -> FileRequest(rpc.op, rpc.tg, rpc.src, {})

Unchanged(ds) == doc[ds] = before[ds]
Accepted(ds) ==
  \E o \in Outcomes(before[ds], Operation) : o.reply \in {"ok", "notapplicable"} /\ doc[ds] = o.doc

StoreRequest ==
  /\ rpc.op \in WriteOps
  /\ rpc.tg # "url"

\* The reply tells what became of the change.  After <ok/> every datastore
\* the request concerns has accepted it (a test-only edit leaves no trace);
\* after an error each datastore has accepted it or is as before.  A
\* datastore that reports an error is as before, whether the edit, the
\* validation or the device failed.
ReplyTellsStores ==
  (pc = "replied" /\ StoreRequest /\ ~meddled /\ rpc.erropt # "rollback") =>
    \A ds \in Files :
      /\ outer = "ok" /\ Concerns(ds) => replies[ds] \in {"ok", "na"}
      /\ IF replies[ds] = "ok" /\ rpc.testopt # "test-only"
         THEN Accepted(ds)
         ELSE Unchanged(ds) \/ (replies[ds] = "na" /\ Accepted(ds))

\* Under rollback-on-error the datastores change together or not at all:
\* when one of them reports an error, those that had accepted the change are
\* rolled back, unless the device cannot undo it or a module has stored
\* another configuration meanwhile.  For strayed see OnlyChangedRolledBack.
AllOrNothing ==
  (pc = "replied" /\ rpc.erropt = "rollback" /\ outer = "error" /\ ~meddled /\ ~refused) =>
    \A ds \in Files \ strayed : Unchanged(ds)

\* With stop-on-error nothing is done to the datastores that come after the
\* one that failed; the internal ones are taken as one.
StopStops ==
  (pc = "replied" /\ rpc.op \in WriteOps /\ rpc.erropt \in {"notset", "stop"}) =>
    \A i, j \in DOMAIN List :
      (i < j /\ List[i] >= internal_ds_count /\ replies[List[i]] = "error") =>
        replies[List[j]] = "none"

\* ncds_apply_rpc2all does with the datastores what the error-option asks for.
ErrorOptionKept == AllOrNothing /\ StopStops

\* When the library rests, the device has the running configuration, or has
\* been left in between by callbacks that failed: no path changes running
\* behind the back of the module, except for the rollback of datastores that
\* the request had not changed, see OnlyChangedRolledBack.
DeviceFollows ==
  pc = "replied" => \A ds \in Tapi \ strayed : device[ds] \in {Running(ds), {Mixed}}

CopiedToUrl ==
  pc = "replied" /\ rpc.op = "copyconfig" /\ rpc.tg = "url" /\ rpc.src \in Targets /\ outer = "ok"

\* After a <copy-config> of a datastore to a URL that is answered <ok/> the
\* remote file has the data of every datastore, although each of them reads
\* and writes the whole file, except for the parts that went when a later
\* datastore could not read the file and took it for an empty one.
UrlHasAll ==
  CopiedToUrl => \A ds \in Files : remote[ds] \in {doc[ds].cfg[rpc.src], {Dropped}}

\* The same without that exception: it does not hold, because a download that
\* fails is not reported (ncds_apply_rpc, nc_url_check and nc_url_open).
UrlHasAllAlways ==
  CopiedToUrl => \A ds \in Files : remote[ds] = doc[ds].cfg[rpc.src]

\* "rollback previously changed datastores" (datastore.c:6585): a datastore
\* the request has not changed is left alone.
OnlyChangedRolledBack ==
  strayed = {}

=============================================================================
