--------------------------- MODULE ApplyRpc_proofs ---------------------------
(***************************************************************************)
(* What becomes of one request in all datastores: proofs for any list of   *)
(* datastores, any requests and any device.                                *)
(***************************************************************************)
EXTENDS ApplyRpc, TLAPS

(***************************************************************************)
(* The invariant                                                           *)
(***************************************************************************)
Replies == {"none", "ok", "na", "data", "error"}
Work == {"operate", "validation", "transapi", "rewrite", "merge"}
Undo == {"rollback", "undo", "undone"}
Pcs == {"idle", "next", "return", "replied"} \cup Work \cup Undo

\* what the remote file may have of one datastore
Parts == (SUBSET Nodes) \cup {{Dropped}}

Types ==
  /\ doc \in [Files -> Doc] /\ before \in [Files -> Doc]
  /\ saved \in [Files -> SUBSET Doc]
  /\ device \in [Tapi -> SUBSET (Nodes \cup {Mixed})]
  /\ remote \in [Files -> Parts]
  /\ rpc \in Rpcs /\ pc \in Pcs
  /\ at \in 1..(Len(List) + 1) /\ back \in 1..(Len(List) + 1)
  /\ dsid \in Stores /\ old \in SUBSET Nodes /\ rewrite \in SUBSET (SUBSET Nodes)
  /\ reply \in Replies /\ inner \in Replies /\ outer \in Replies
  /\ replies \in [Stores -> Replies]
  /\ count \in Nat /\ meddled \in BOOLEAN /\ refused \in BOOLEAN /\ strayed \in SUBSET Files

Internal == 0..(internal_ds_count - 1)

\* The datastores of the i-th call of ncds_apply_rpc, and of the later ones.
Group(i) ==
  CASE List[i] = 0 -> Internal
    [] List[i] \in Internal \ {0} -> {}
    [] OTHER -> {List[i]}
Rest(i) == {ds \in Stores : \E j \in DOMAIN List : j >= i /\ ds \in Group(j)}

\* the datastores that have not replied to the request
Left(ds) ==
  \/ pc \in {"idle", "next"} /\ ds \in Rest(at)
  \/ pc \in Work /\ (ds \in Rest(at + 1) \/ (ds \in Group(at) /\ ds >= dsid))
  \/ pc \notin Work \cup {"idle", "next"} /\ ds \in Rest(at + 1)

\* Where the functions are.
Places ==
  /\ pc = "idle" => /\ at = 1 /\ reply = "none" /\ inner = "none" /\ outer = "none"
                    /\ before = doc /\ ~meddled /\ ~refused
  /\ pc \in Work \cup Undo \cup {"return"} =>
       at \in DOMAIN List /\ List[at] \notin Internal \ {0}
  /\ pc \in Work => dsid \in Group(at)
  /\ pc = "operate" => old = Snapshot(dsid)
  /\ pc = "rewrite" => ChangesRunning(dsid)
  /\ IF pc \in {"rewrite", "undone"} THEN \E c \in SUBSET Nodes : rewrite = {c} ELSE rewrite = {}
  /\ pc \in Undo => rpc.erropt = "rollback" /\ outer = "error" /\ back <= at
  /\ pc \in {"undo", "undone"} => back < at /\ ChangesRunning(List[back])
  /\ pc = "replied" /\ outer # "error" => at > Len(List)
  /\ pc = "replied" /\ outer = "error" /\ rpc.erropt = "rollback" => back = at

Fine == {"none", "na", "ok"}

\* Which replies there are, and what the merged ones tell of them.
Merging ==
  /\ \A ds \in Stores : replies[ds] = "none" <=> Left(ds)
  /\ rpc.op \in WriteOps => reply # "data" /\ inner # "data" /\ outer # "data"
  /\ outer \in Fine => \A ds \in Stores :
       replies[ds] \in Fine \/ (pc \in Work \cup {"return"} /\ ds \in Group(at))
  /\ pc \in Work /\ inner \in Fine => \A ds \in Group(at) : replies[ds] \in Fine
  /\ pc \in Work \ {"operate"} => reply # "none"
  /\ pc = "return" => reply # "none" /\ (reply \in Fine => \A ds \in Group(at) : replies[ds] \in Fine)
  /\ pc = "return" /\ List[at] # 0 => reply = replies[List[at]]
  /\ pc \in Work \cup {"next", "return"} /\ (Stops(rpc.op, rpc.erropt) \/ rpc.erropt = "rollback")
       => outer # "error"
  /\ pc = "replied" /\ Stops(rpc.op, rpc.erropt) /\ outer = "error" /\ rpc.op \in WriteOps =>
       at \in DOMAIN List /\ \A ds \in Stores \ Group(at) : replies[ds] \in Fine

(***************************************************************************)
(* What is known of a datastore                                            *)
(***************************************************************************)
Old(ds) == before[ds].cfg["running"]
NewRunning(ds) == [before[ds] EXCEPT !.cfg["running"] = Running(ds)]

Ready(ds) == ds \in Tapi \ strayed => device[ds] \in {Running(ds), {Mixed}}

Tells(ds, r) ==
  /\ StoreRequest /\ r = "ok" /\ rpc.testopt # "test-only" => Accepted(ds)
  /\ StoreRequest /\ r = "na" => Unchanged(ds) \/ Accepted(ds)
  /\ ~StoreRequest \/ r \notin {"ok", "na"} \/ rpc.testopt = "test-only" => Unchanged(ds)

\* What a rollback brings back.
Undoable(ds) ==
  rpc.erropt = "rollback" /\ ~Unchanged(ds) =>
    \E d \in Doc : /\ saved[ds] = {d} /\ d.lock = doc[ds].lock
                   /\ ~meddled => d = before[ds]
                   /\ IF ChangesRunning(ds)
                      THEN file_ds_access(doc[ds], "running", rpc.sid)
                      ELSE ds \in Tapi => d.cfg["running"] = Running(ds)

After(ds, r) ==
  /\ r = "none" => Unchanged(ds)
  /\ ~meddled => Tells(ds, r)
  /\ Ready(ds)
  /\ Undoable(ds)

\* between the operation and the reply
Between(ds) ==
  /\ pc \in {"validation", "transapi"} =>
       /\ ds \in Tapi \ strayed => device[ds] \in {Old(ds), {Mixed}}
       /\ ChangesRunning(ds) => old = Old(ds)
  /\ pc = "validation" =>
       /\ rpc.op = "editconfig" /\ reply = "ok" /\ saved[ds] = {before[ds]} /\ Accepted(ds)
       /\ doc[ds].lock = before[ds].lock /\ file_ds_access(doc[ds], rpc.tg, rpc.sid)
       /\ IF rpc.tg = "running" THEN doc[ds] = NewRunning(ds) ELSE Running(ds) = Old(ds)
  /\ pc = "transapi" =>
       /\ Tells(ds, reply)
       /\ rpc.erropt = "rollback" /\ ~Unchanged(ds) =>
            saved[ds] = {before[ds]} /\ doc[ds].lock = before[ds].lock
       /\ ChangesRunning(ds) /\ reply = "ok" =>
            /\ saved[ds] = {before[ds]} /\ doc[ds] = NewRunning(ds)
            /\ file_ds_access(doc[ds], "running", rpc.sid)
       /\ ChangesRunning(ds) /\ reply # "ok" => Unchanged(ds)
       /\ ds \in Tapi /\ ~ChangesRunning(ds) => Running(ds) = Old(ds)
  /\ pc = "rewrite" =>
       /\ ChangesRunning(ds) /\ doc[ds] = NewRunning(ds)
       /\ file_ds_access(doc[ds], "running", rpc.sid)
       /\ \E c \in rewrite : /\ ds \notin strayed => device[ds] \in {c, {Mixed}}
                             /\ reply = "error" => c = Old(ds)
       /\ reply # "error" => meddled
  /\ pc = "merge" => After(ds, reply)

\* while the datastores are rolled back
Undoing(ds) == pc \in {"undo", "undone"} /\ ds = List[back]
Waiting(ds) == \E i \in back..(at - 1) : ds = List[i]

Reversed(ds) ==
  /\ ds \notin strayed =>
       /\ pc = "undo" => device[ds] \in {old, {Mixed}}
       /\ pc = "undone" => \E c \in rewrite : device[ds] \in {c, {Mixed}}
       /\ file_ds_access(doc[ds], "running", rpc.sid) \/ (pc = "undo" /\ old = Running(ds))
       /\ ~meddled /\ ~refused => Unchanged(ds)
  /\ pc = "undone" => meddled \/ refused

RollingBack(ds) ==
  /\ Undoing(ds) => Reversed(ds)
  /\ ~Undoing(ds) /\ Waiting(ds) => After(ds, replies[ds])
  /\ ~Undoing(ds) /\ ~Waiting(ds) =>
       Ready(ds) /\ (~meddled /\ ~refused /\ ds \notin strayed => Unchanged(ds))

Rolling == pc \in Undo \/ (pc = "replied" /\ outer = "error" /\ rpc.erropt = "rollback")
Busy(ds) == pc \in Work \ {"operate"} /\ ds = dsid

Known(ds) ==
  /\ Rolling => RollingBack(ds)
  /\ Busy(ds) => Between(ds)
  /\ ~Rolling /\ ~Busy(ds) => After(ds, replies[ds])

Documents == \A ds \in Files : Known(ds)

\* Copies of a datastore to a URL.
ToUrl == rpc.op = "copyconfig" /\ rpc.tg = "url" /\ rpc.src \in Targets
Stored(ds) == remote[ds] \in {doc[ds].cfg[rpc.src], {Dropped}}
Uploaded ==
  ToUrl => \A ds \in Files :
    /\ replies[ds] \in {"none", "ok", "error"}
    /\ replies[ds] = "ok" => Stored(ds)
    /\ Busy(ds) =>
         pc \in {"transapi", "merge"} /\ reply \in {"ok", "error"} /\ (reply = "ok" => Stored(ds))

ApplyInv == Types /\ Places /\ Merging /\ Documents /\ Uploaded

(***************************************************************************)
(* The list of datastores                                                  *)
(***************************************************************************)
LEMMA ListFacts ==
  /\ DOMAIN List = 1..Len(List) /\ Len(List) \in Nat /\ internal_ds_count \in Nat \ {0}
  /\ 1 \in DOMAIN List /\ Len(List) \in DOMAIN List /\ List[Len(List)] = 0
  /\ \A i \in DOMAIN List : List[i] \in Nat /\ List[i] \in Stores
  /\ \A i, j \in DOMAIN List : List[i] = List[j] => i = j
  /\ Internal \subseteq Stores /\ Stores \subseteq Nat
  /\ 0 \notin Files /\ Files \subseteq Stores /\ Tapi \subseteq Files
PROOF
  <1>1. List \in Seq(Nat) /\ DOMAIN List = 1..Len(List) /\ Len(List) \in Nat
    BY ApplyRpcAssumption
  <1>2. 0 \in Stores
    BY ApplyRpcAssumption
  <1>3. 1 \in DOMAIN List /\ Len(List) \in DOMAIN List
    BY <1>1, <1>2 DEF Stores
  <1> QED BY <1>1, <1>3, ApplyRpcAssumption, Zenon DEF Internal, Stores

\* Every datastore is in the group of one call.
LEMMA GroupFacts ==
  /\ \A i \in DOMAIN List : Group(i) \subseteq Stores
  /\ \A i \in DOMAIN List : List[i] = 0 => Group(i) = Internal /\ i = Len(List)
  /\ \A i \in DOMAIN List : List[i] \in Internal \ {0} => Group(i) = {}
  /\ \A i \in DOMAIN List : List[i] \notin Internal => Group(i) = {List[i]}
  /\ \A ds : \A i, j \in DOMAIN List : ds \in Group(i) /\ ds \in Group(j) => i = j
  /\ Rest(1) = Stores /\ Rest(Len(List) + 1) = {} /\ Rest(Len(List) + 2) = {}
  /\ \A i \in DOMAIN List : Rest(i) = Group(i) \cup Rest(i + 1) /\ Group(i) \cap Rest(i + 1) = {}
  /\ \A i, j \in DOMAIN List : i < j /\ List[i] \notin Internal => List[j] \in Rest(i + 1)
PROOF
  <1> USE ListFacts
  <1>1. \A i \in DOMAIN List : List[i] = 0 => Group(i) = Internal /\ i = Len(List)
    BY Zenon DEF Group
  <1>2. \A i \in DOMAIN List : List[i] \in Internal \ {0} => Group(i) = {}
    BY Zenon DEF Group
  <1>3. \A i \in DOMAIN List : List[i] \notin Internal => Group(i) = {List[i]}
    BY DEF Group, Internal
  <1>4. ASSUME NEW i \in DOMAIN List PROVE Group(i) \subseteq Stores
    <2>1. CASE List[i] \in Internal
      BY <1>1, <1>2, <2>1, Zenon
    <2>2. CASE List[i] \notin Internal
      BY <1>3, <2>2, Zenon
    <2> QED BY <2>1, <2>2, Zenon
  <1>5. \A ds : \A i, j \in DOMAIN List : ds \in Group(i) /\ ds \in Group(j) => i = j
    <2> SUFFICES ASSUME NEW i \in DOMAIN List, NEW j \in DOMAIN List, NEW ds,
                        ds \in Group(i), ds \in Group(j)
                 PROVE  i = j
      BY Zenon
    <2>1. CASE List[i] = 0
      BY <1>1, <1>2, <1>3, <2>1
    <2>2. CASE List[i] # 0
      BY <1>1, <1>2, <1>3, <2>2
    <2> QED BY <2>1, <2>2, Zenon
  <1>6. Rest(1) = Stores
    <2> SUFFICES ASSUME NEW ds \in Stores PROVE \E j \in DOMAIN List : j >= 1 /\ ds \in Group(j)
      BY Zenon DEF Rest
    <2>1. PICK i \in DOMAIN List : ds = List[i]
      BY Zenon DEF Stores
    <2>2. CASE ds \in Internal
      BY <1>1, <2>2
    <2>3. CASE ds \notin Internal
      BY <1>3, <2>1, <2>3
    <2> QED BY <2>2, <2>3, Zenon
  <1>7. Rest(Len(List) + 1) = {} /\ Rest(Len(List) + 2) = {}
    BY DEF Rest
  <1>8. ASSUME NEW i \in DOMAIN List
        PROVE  Rest(i) = Group(i) \cup Rest(i + 1) /\ Group(i) \cap Rest(i + 1) = {}
    <2>1. \A ds : ds \in Rest(i) <=> ds \in Group(i) \cup Rest(i + 1)
      <3>1. \A j \in DOMAIN List : j >= i <=> j = i \/ j >= i + 1
        OBVIOUS
      <3> QED BY <1>4, <3>1, Zenon DEF Rest
    <2>2. Group(i) \cap Rest(i + 1) = {}
      BY <1>5 DEF Rest
    <2> QED BY <2>1, <2>2, Zenon
  <1>9. ASSUME NEW i \in DOMAIN List, NEW j \in DOMAIN List, i < j, List[i] \notin Internal
        PROVE  List[j] \in Rest(i + 1)
    <2>1. CASE List[j] \in Internal
      <3>1. Len(List) >= i + 1 /\ List[j] \in Group(Len(List))
        BY <1>1, <1>9, <2>1
      <3> QED BY <3>1, Zenon DEF Rest
    <2>2. CASE List[j] \notin Internal
      BY <1>3, <1>9, <2>2 DEF Rest
    <2> QED BY <2>1, <2>2, Zenon
  <1> QED BY <1>1, <1>2, <1>3, <1>4, <1>5, <1>6, <1>7, <1>8, <1>9, Zenon

(***************************************************************************)
(* The documents                                                           *)
(***************************************************************************)
\* e is document d with the configuration c of target tg.
With(e, d, tg, c) ==
  /\ e \in Doc /\ e.lock = d.lock
  /\ tg = "running" => e = [d EXCEPT !.cfg["running"] = c]
  /\ tg # "running" => e.cfg["running"] = d.cfg["running"]

LEMMA MarkedFacts ==
  ASSUME NEW d \in Doc, NEW tg \in Targets, NEW m \in BOOLEAN
  PROVE  With(Marked(d, tg, m), d, tg, d.cfg["running"])
PROOF
  <1>1. d = [d EXCEPT !.cfg["running"] = d.cfg["running"]]
    BY DocsAssumption, Zenon DEF Doc
  <1>2. CASE tg = "candidate"
    BY <1>2, DocsAssumption, Zenon DEF Marked, With, Doc
  <1>3. CASE tg # "candidate"
    BY <1>1, <1>3, Zenon DEF Marked, With
  <1> QED BY <1>2, <1>3, Zenon

LEMMA ReplacedFacts ==
  ASSUME NEW d \in Doc, NEW tg \in Targets, NEW c \in SUBSET Nodes, NEW m \in BOOLEAN
  PROVE  With(Replaced(d, tg, c, m), d, tg, c)
PROOF
  <1> DEFINE r == [d EXCEPT !.cfg[tg] = c]
  <1>1. r \in Doc /\ r.lock = d.lock /\ (tg # "running" => r.cfg["running"] = d.cfg["running"])
    BY DocsAssumption, Zenon DEF Doc
  <1>2. Replaced(d, tg, c, m) = Marked(r, tg, m)
    BY Zenon DEF Replaced
  <1>3. tg = "running" => r = [d EXCEPT !.cfg["running"] = c]
    BY Zenon
  <1> HIDE DEF r
  <1>4. CASE tg = "candidate"
    <2>1. Marked(r, tg, m) = [r EXCEPT !.modified = m]
      BY <1>4, Zenon DEF Marked
    <2>2. /\ [r EXCEPT !.modified = m] \in Doc /\ [r EXCEPT !.modified = m].lock = r.lock
          /\ [r EXCEPT !.modified = m].cfg = r.cfg
      BY <1>1, Zenon DEF Doc
    <2> QED BY <1>1, <1>2, <1>4, <2>1, <2>2, Zenon DEF With
  <1>5. CASE tg # "candidate"
    BY <1>1, <1>2, <1>3, <1>5, Zenon DEF Marked, With
  <1> QED BY <1>4, <1>5, Zenon

\* the operations that keep the document for a rollback
StoreRequests ==
  [op : StoreOps, sid : Sessions, tg : Targets, src : Targets \cup {"config"},
   new : SUBSET Nodes, undo : {"none"}]

Success == {"ok", "notapplicable"}

LEMMA StoreOutcome ==
  ASSUME NEW d \in Doc, NEW q \in StoreRequests, NEW o \in Outcomes(d, q)
  PROVE  /\ o.doc \in Doc /\ o.reply \in Success \cup {"denied", "error"}
         /\ o.reply \notin Success => o.doc = d
         /\ o.reply \in Success =>
              /\ file_ds_access(d, q.tg, q.sid) /\ o.doc.lock = d.lock
              /\ IF q.tg = "running"
                 THEN \E c \in SUBSET Nodes : o.doc = [d EXCEPT !.cfg["running"] = c]
                 ELSE o.doc.cfg["running"] = d.cfg["running"]
         /\ o.reply = "notapplicable" /\ q.tg = "running" => o.doc = d
         /\ o.reply = "notapplicable" => q.op # "editconfig"
PROOF
  <1>1. /\ q.op \in StoreOps /\ q.sid \in Sessions /\ q.tg \in Targets /\ q.new \in SUBSET Nodes
        /\ q.src \in Targets \cup {"config"}
    BY Zenon DEF StoreRequests
  <1>2. d.cfg \in [Targets -> SUBSET Nodes] /\ d = [d EXCEPT !.cfg["running"] = d.cfg["running"]]
    BY Zenon DEF Doc
  <1>3. "running" \in Targets
    BY DocsAssumption, Zenon
  <1>4. ASSUME NEW c \in SUBSET Nodes, NEW m \in BOOLEAN, file_ds_access(d, q.tg, q.sid),
               o \in Changed(Replaced(d, q.tg, c, m), "ok")
        PROVE  /\ o.doc \in Doc /\ o.reply = "ok"
               /\ file_ds_access(d, q.tg, q.sid) /\ o.doc.lock = d.lock
               /\ IF q.tg = "running" THEN o.doc = [d EXCEPT !.cfg["running"] = c]
                  ELSE o.doc.cfg["running"] = d.cfg["running"]
    <2>1. o.doc = Replaced(d, q.tg, c, m) /\ o.reply = "ok"
      BY <1>4 DEF Changed
    <2>2. With(Replaced(d, q.tg, c, m), d, q.tg, c)
      BY <1>1, ReplacedFacts, Zenon
    <2> QED BY <1>4, <2>1, <2>2, Zenon DEF With
  <1>5. ASSUME NEW why \in {"denied", "error"}, o \in Refused(d, why)
        PROVE  o.doc = d /\ o.reply \in {"denied", "error"}
    BY <1>5 DEF Refused
  <1>6. CASE q.op = "editconfig"
    <2>1. o \in ncds_file_editconfig(d, q)
      BY <1>6, Zenon DEF Outcomes, ReadOps
    <2>2. d.cfg[q.tg] \cup q.new \in SUBSET Nodes /\ d.cfg[q.tg] \ q.new \in SUBSET Nodes
      BY <1>1, <1>2, Zenon
    <2>3. \/ o \in Refused(d, "denied") \/ o \in Refused(d, "error")
          \/ /\ file_ds_access(d, q.tg, q.sid)
             /\ \E c \in SUBSET Nodes : o \in Changed(Replaced(d, q.tg, c, TRUE), "ok")
      BY <2>1, <2>2, Zenon DEF ncds_file_editconfig
    <2> QED BY <1>4, <1>5, <2>3, Zenon DEF Success
  <1>7. CASE q.op = "deleteconfig"
    <2>1. o \in ncds_file_deleteconfig(d, q)
      BY <1>7, Zenon DEF Outcomes, ReadOps
    <2>2. \/ o \in Refused(d, "denied") \/ o \in Refused(d, "error")
          \/ file_ds_access(d, q.tg, q.sid) /\ o \in Changed(Replaced(d, q.tg, {}, TRUE), "ok")
      BY <2>1, Zenon DEF ncds_file_deleteconfig
    <2> QED BY <1>4, <1>5, <2>2, Zenon DEF Success
  <1>8. CASE q.op = "copyconfig"
    <2> DEFINE m == q.src # "running"
               Copy == \E c \in SUBSET Nodes : o \in Changed(Replaced(d, q.tg, c, m), "ok")
    <2>1. o \in ncds_file_copyconfig(d, q)
      BY <1>8, Zenon DEF Outcomes, ReadOps
    <2>2. Copied(d, q) \subseteq SUBSET Nodes /\ m \in BOOLEAN
      BY <1>1, <1>2, ZenonT(40) DEF Copied
    <2>3. \/ o \in Refused(d, "denied") \/ o \in Refused(d, "error")
          \/ file_ds_access(d, q.tg, q.sid) /\ Copy
          \/ file_ds_access(d, q.tg, q.sid) /\ o \in Changed(Marked(d, q.tg, m), "notapplicable")
      BY <2>1, <2>2, Zenon DEF ncds_file_copyconfig
    <2> HIDE DEF m
    <2>4. CASE file_ds_access(d, q.tg, q.sid) /\ o \in Changed(Marked(d, q.tg, m), "notapplicable")
      <3>1. o.doc = Marked(d, q.tg, m) /\ o.reply = "notapplicable"
        BY <2>4 DEF Changed
      <3>2. With(Marked(d, q.tg, m), d, q.tg, d.cfg["running"])
        BY <1>1, <2>2, MarkedFacts, Zenon
      <3>3. q.tg = "running" => \E e \in SUBSET Nodes : o.doc = [d EXCEPT !.cfg["running"] = e]
        BY <1>2, <1>3, <3>1, <3>2, Zenon DEF With
      <3> QED BY <1>2, <1>8, <2>4, <3>1, <3>2, <3>3, Zenon DEF Success, With
    <2>5. CASE \/ o \in Refused(d, "denied") \/ o \in Refused(d, "error")
               \/ file_ds_access(d, q.tg, q.sid) /\ Copy
      BY <1>4, <1>5, <2>2, <2>5, Zenon DEF Success
    <2> QED BY <2>3, <2>4, <2>5, Zenon
  <1> QED BY <1>1, <1>6, <1>7, <1>8, Zenon DEF StoreOps

LEMMA LockOutcome ==
  ASSUME NEW d \in Doc, NEW q, q.op \in {"lock", "unlock"}, q.tg \in Targets, q.sid \in Sessions,
         NEW o \in Outcomes(d, q)
  PROVE  /\ o.doc \in Doc /\ o.reply \in {"ok", "denied", "error"}
         /\ o.reply # "ok" => o.doc = d
         /\ o.doc.cfg["running"] = d.cfg["running"]
PROOF
  <1> USE DocsAssumption
  <1>1. ASSUME NEW s \in Sessions \cup {NoSession}
        PROVE  [d EXCEPT !.lock[q.tg] = s] \in Doc /\ [d EXCEPT !.lock[q.tg] = s].cfg = d.cfg
    BY Zenon DEF Doc
  <1>2. CASE q.op = "lock"
    <2>1. o \in ncds_file_lock(d, q)
      BY <1>2, Zenon DEF Outcomes, ReadOps
    <2>2. o \in Refused(d, "denied") \/ o \in Changed([d EXCEPT !.lock[q.tg] = q.sid], "ok")
      BY <2>1, Zenon DEF ncds_file_lock
    <2>3. CASE o \in Refused(d, "denied")
      BY <2>3 DEF Refused
    <2>4. CASE o \in Changed([d EXCEPT !.lock[q.tg] = q.sid], "ok")
      <3>1. o.doc = [d EXCEPT !.lock[q.tg] = q.sid] /\ o.reply = "ok"
        BY <2>4 DEF Changed
      <3> QED BY <1>1, <3>1
    <2> QED BY <2>2, <2>3, <2>4, Zenon
  <1>3. CASE q.op = "unlock"
    <2> DEFINE u == [d EXCEPT !.lock[q.tg] = NoSession]
               v == Replaced(u, "candidate", d.cfg["running"], FALSE)
    <2>1. o \in ncds_file_unlock(d, q)
      BY <1>3, Zenon DEF Outcomes, ReadOps
    <2>2. \/ o \in Refused(d, "error") \/ o \in Changed(u, "ok")
          \/ q.tg = "candidate" /\ o \in Changed(v, "ok")
      BY <2>1, Zenon DEF ncds_file_unlock
    <2>3. u \in Doc /\ u.cfg = d.cfg /\ d.cfg["running"] \in SUBSET Nodes
      BY <1>1, Zenon DEF Doc
    <2> HIDE DEF u
    <2>4. q.tg = "candidate" => v \in Doc /\ v.cfg["running"] = d.cfg["running"]
      <3>1. q.tg = "candidate" => With(v, u, "candidate", d.cfg["running"])
        BY <2>3, ReplacedFacts, Zenon
      <3> HIDE DEF v
      <3> QED BY <2>3, <3>1, Zenon DEF With
    <2> HIDE DEF v
    <2>5. CASE o \in Refused(d, "error")
      BY <2>5 DEF Refused
    <2>6. CASE o \in Changed(u, "ok")
      BY <2>3, <2>6 DEF Changed
    <2>7. CASE q.tg = "candidate" /\ o \in Changed(v, "ok")
      BY <2>4, <2>7 DEF Changed
    <2> QED BY <2>2, <2>5, <2>6, <2>7, Zenon
  <1> QED BY <1>2, <1>3, Zenon

(***************************************************************************)
(* The operation on one datastore                                          *)
(***************************************************************************)
LEMMA RpcFacts ==
  ASSUME Types
  PROVE  /\ rpc.op \in WriteOps \cup ReadOnlyOps \cup {"userrpc"} /\ rpc.sid \in Sessions
         /\ rpc.tg \in Targets \cup {"url"} /\ rpc.src \in Targets \cup {"url", "config"}
         /\ rpc.new \in SUBSET Nodes /\ rpc.testopt \in {"notset", "set", "test-only"}
         /\ rpc.erropt \in {"notset", "stop", "continue", "rollback"}
         /\ rpc.erropt # "notset" => rpc.op = "editconfig"
         /\ rpc.testopt # "notset" => rpc.op = "editconfig"
         /\ rpc.op = "editconfig" => rpc.src \in {"config", "url"}
         /\ rpc.op = "commit" => rpc.tg = "running"
         /\ rpc.tg = "url" => rpc.op \in {"copyconfig", "deleteconfig"}
         /\ "url" \notin Targets /\ "config" \notin Targets /\ "running" \in Targets
  BY ApplyRpcAssumption, DocsAssumption, Zenon DEF Types, Rpc

ApplyOperation ==
  \/ LockUnlock \/ Get \/ GetSchema \/ ValidateRpc \/ UserRpc \/ NotApplicable \/ BadDefaults
  \/ EditConfig \/ CopyOntoItself \/ CopyConfig \/ CopyToUrl \/ DataToUrl
  \/ DeleteConfig \/ Commit \/ DiscardChanges

\* The datastore is not called, or the file behind the URL is written.
Quiet ==
  /\ pc' = "transapi" /\ doc' = doc /\ saved' = saved /\ device' = device
  /\ reply' \in Replies \ {"none"} /\ (rpc.op \in WriteOps => reply' # "data")
  /\ dsid \in Files /\ StoreRequest => reply' \in {"na", "error"}
  /\ \/ remote' = remote
     \/ rpc.op \in {"copyconfig", "deleteconfig"} /\ rpc.tg = "url" /\ remote' \in [Files -> Parts]

Locking ==
  /\ dsid \in Files /\ rpc.op \in {"lock", "unlock"} /\ pc' = "transapi"
  /\ Call(FileRequest(rpc.op, rpc.tg, rpc.tg, {}))

Storing ==
  /\ dsid \in Files /\ StoreRequest
  /\ \E q \in StoreRequests :
       /\ Call(q) /\ Outcomes(doc[dsid], q) = Outcomes(doc[dsid], Operation)
       /\ q.sid = rpc.sid /\ (q.op = "editconfig" <=> rpc.op = "editconfig")
       /\ rpc.op = "editconfig" => q.tg = rpc.tg
       /\ q.tg = "running" <=> rpc.tg = "running" /\ rpc.op \in {"commit", "copyconfig", "editconfig"}
  /\ pc' = IF rpc.op = "editconfig" THEN ToValidation(reply') ELSE "transapi"

LEMMA AnswerQuiet ==
  ASSUME Types, NEW rep \in Replies \ {"none"}, Answer(rep), rpc.op \in WriteOps => rep # "data",
         dsid \in Files /\ StoreRequest => rep \in {"na", "error"}
  PROVE  Quiet
  BY Zenon DEF Answer, Quiet, stores

LEMMA UploadQuiet ==
  ASSUME Types, NEW file \in [Files -> Parts], Upload(file), rpc.tg = "url",
         rpc.op \in {"copyconfig", "deleteconfig"}
  PROVE  Quiet
  BY Zenon DEF Upload, Answer, Quiet, stores, Replies, StoreRequest, WriteOps

LEMMA OperationKinds ==
  ASSUME Types, ApplyOperation
  PROVE  /\ Quiet \/ Locking \/ Storing
         /\ UNCHANGED <<caller, dsid, old, rewrite, inner, history>> /\ pc = "operate"
PROOF
  <1> USE RpcFacts
  <1>0. UNCHANGED <<caller, dsid, old, rewrite, inner, history>> /\ pc = "operate"
    BY Zenon DEF ApplyOperation, LockUnlock, Get, GetSchema, ValidateRpc, UserRpc, NotApplicable, BadDefaults,
       EditConfig, CopyOntoItself, CopyConfig, CopyToUrl, DataToUrl, DeleteConfig, Commit,
       DiscardChanges, Operating
  <1>1. CASE LockUnlock
    <2>1. CASE dsid \in Files
      BY <1>1, <2>1, Zenon DEF LockUnlock, Operating, CallOnly, Locking
    <2>2. CASE dsid \notin Files
      <3>1. Answer("ok")
        BY <1>1, <2>2, Zenon DEF LockUnlock
      <3> QED BY <1>0, <2>2, <3>1, AnswerQuiet, Zenon DEF Replies
    <2> QED BY <1>0, <2>1, <2>2, Zenon
  <1>2. CASE Get \/ GetSchema \/ ValidateRpc \/ UserRpc
    <2>1. rpc.op \notin WriteOps
      BY <1>2, Zenon DEF Get, GetSchema, ValidateRpc, UserRpc, Operating, WriteOps
    <2>2. \E rep \in {"ok", "na", "data", "error"} : Answer(rep)
      BY <1>2, Zenon DEF Get, GetSchema, ValidateRpc, UserRpc
    <2> QED BY <1>0, <2>1, <2>2, AnswerQuiet, Zenon DEF Replies, StoreRequest
  <1>3. CASE NotApplicable \/ BadDefaults \/ CopyOntoItself
    <2>1. Answer("na") \/ Answer("error")
      BY <1>3, Zenon DEF NotApplicable, BadDefaults, CopyOntoItself
    <2> QED BY <1>0, <2>1, AnswerQuiet, Zenon DEF Replies
  <1>4. CASE EditConfig
    <2> DEFINE q == FileRequest("editconfig", rpc.tg, "config", rpc.new)
    <2>1. rpc.op = "editconfig" /\ dsid \in Files /\ Call(q) /\ pc' = ToValidation(reply')
      BY <1>4, Zenon DEF EditConfig, Operating, Concerns
    <2>2. Operation = q
      BY <2>1, Zenon DEF Operation
    <2>3. q \in StoreRequests /\ q.sid = rpc.sid /\ q.op = "editconfig" /\ q.tg = rpc.tg
      BY <2>1, Zenon DEF StoreRequests, StoreOps, FileRequest
    <2> HIDE DEF q
    <2> QED BY <1>0, <2>1, <2>2, <2>3, Zenon DEF Storing, StoreRequest, WriteOps
  <1>5. CASE CopyConfig
    <2> DEFINE q == IF rpc.src \in {"url", "config"}
                    THEN FileRequest("copyconfig", rpc.tg, "config", rpc.new)
                    ELSE FileRequest("copyconfig", rpc.tg, rpc.src, {})
    <2>1. rpc.op = "copyconfig" /\ dsid \in Files /\ Call(q) /\ pc' = "transapi" /\ rpc.tg # "url"
      BY <1>5, Zenon DEF CopyConfig, Operating, Concerns, CallOnly
    <2>2. Operation = q
      BY <2>1, Zenon DEF Operation
    <2>3. q \in StoreRequests /\ q.sid = rpc.sid /\ q.op = "copyconfig" /\ q.tg = rpc.tg
      BY <2>1, Zenon DEF StoreRequests, StoreOps, FileRequest
    <2> HIDE DEF q
    <2> QED BY <1>0, <2>1, <2>2, <2>3, Zenon DEF Storing, StoreRequest, WriteOps
  <1>6. CASE CopyToUrl \/ DataToUrl
    <2>1. rpc.op = "copyconfig" /\ rpc.tg = "url" /\ dsid \in Files
      BY <1>6, Zenon DEF CopyToUrl, DataToUrl, Operating, Concerns
    <2>2. (\E file \in [Files -> Parts] : Upload(file)) \/ Answer("error")
      <3>1. CASE CopyToUrl
        <4> DEFINE c == doc[dsid].cfg[rpc.src]
        <4>1. c \in Parts
          BY <2>1, <3>1 DEF CopyToUrl, Types, Doc, Parts
        <4>2. \/ Upload([remote EXCEPT ![dsid] = c])
              \/ Upload([ds \in Files |-> IF ds = dsid THEN c ELSE {Dropped}])
          BY <3>1, Zenon DEF CopyToUrl
        <4> HIDE DEF c
        <4>3. [remote EXCEPT ![dsid] = c] \in [Files -> Parts]
          BY <4>1, Zenon DEF Types
        <4>4. [ds \in Files |-> IF ds = dsid THEN c ELSE {Dropped}] \in [Files -> Parts]
          <5>1. {Dropped} \in Parts
            BY DEF Parts
          <5> QED BY <4>1, <5>1, Zenon
        <4> QED BY <4>2, <4>3, <4>4, Zenon
      <3>2. CASE DataToUrl
        <4>1. [ds \in Files |-> IF ds = dsid THEN rpc.new ELSE {}] \in [Files -> Parts]
          BY Zenon DEF Parts
        <4>2. Upload([ds \in Files |-> IF ds = dsid THEN rpc.new ELSE {}]) \/ Answer("error")
          BY <3>2, Zenon DEF DataToUrl
        <4> QED BY <4>1, <4>2, Zenon
      <3> QED BY <1>6, <3>1, <3>2, Zenon
    <2> QED BY <1>0, <2>1, <2>2, UploadQuiet, AnswerQuiet, Zenon DEF Replies
  <1>7. CASE DeleteConfig
    <2> DEFINE q == FileRequest("deleteconfig", rpc.tg, "config", {})
    <2>1. rpc.op = "deleteconfig" /\ dsid \in Files
      BY <1>7, Zenon DEF DeleteConfig, Operating, Concerns
    <2>2. \/ rpc.tg = "running" /\ Answer("error")
          \/ rpc.tg = "url" /\ Upload([ds \in Files |-> {}])
          \/ rpc.tg \notin {"running", "url"} /\ Call(q) /\ pc' = "transapi"
      BY <1>7, Zenon DEF DeleteConfig, CallOnly
    <2>3. CASE rpc.tg = "running" /\ Answer("error")
      BY <1>0, <2>3, AnswerQuiet, Zenon DEF Replies
    <2>4. CASE rpc.tg = "url" /\ Upload([ds \in Files |-> {}])
      <3>1. [ds \in Files |-> {}] \in [Files -> Parts]
        BY Zenon DEF Parts
      <3> QED BY <1>0, <2>1, <2>4, <3>1, UploadQuiet, Zenon
    <2>5. CASE rpc.tg \notin {"running", "url"} /\ Call(q) /\ pc' = "transapi"
      <3>1. Operation = FileRequest("deleteconfig", rpc.tg, rpc.src, {})
        BY <2>1, Zenon DEF Operation
      <3>2. Outcomes(doc[dsid], q) = Outcomes(doc[dsid], Operation)
        BY <3>1, Zenon DEF Outcomes, ReadOps, FileRequest, ncds_file_deleteconfig
      <3>3. q \in StoreRequests /\ q.sid = rpc.sid /\ q.op = "deleteconfig" /\ q.tg = rpc.tg
        BY <2>5, Zenon DEF StoreRequests, StoreOps, FileRequest
      <3> HIDE DEF q
      <3> QED BY <1>0, <2>1, <2>5, <3>2, <3>3, Zenon DEF Storing, StoreRequest, WriteOps
    <2> QED BY <2>2, <2>3, <2>4, <2>5, Zenon
  <1>8. CASE Commit \/ DiscardChanges
    <2> DEFINE q == IF rpc.op = "commit" THEN FileRequest("copyconfig", "running", "candidate", {})
                    ELSE FileRequest("copyconfig", "candidate", "running", {})
    <2>1. rpc.op \in {"commit", "discard"} /\ dsid \in Files
      BY <1>8, Zenon DEF Commit, DiscardChanges, Operating, Concerns
    <2>2. Answer("error") \/ ("candidate" \in Targets /\ Call(q) /\ pc' = "transapi")
      BY <1>8, Zenon DEF Commit, DiscardChanges, CallOnly, Operating
    <2>3. CASE Answer("error")
      BY <1>0, <2>3, AnswerQuiet, Zenon DEF Replies
    <2>4. CASE "candidate" \in Targets /\ Call(q) /\ pc' = "transapi"
      <3>1. Operation = q
        BY <2>1, Zenon DEF Operation
      <3>2. q \in StoreRequests /\ q.sid = rpc.sid /\ q.op = "copyconfig"
            /\ q.tg = (IF rpc.op = "commit" THEN "running" ELSE "candidate")
        BY <2>1, <2>4, Zenon DEF StoreRequests, StoreOps, FileRequest
      <3> HIDE DEF q
      <3> QED BY <1>0, <2>1, <2>4, <3>1, <3>2, Zenon DEF Storing, StoreRequest, WriteOps
    <2> QED BY <2>2, <2>3, <2>4, Zenon
  <1> QED BY <1>0, <1>1, <1>2, <1>3, <1>4, <1>5, <1>6, <1>7, <1>8, Zenon DEF ApplyOperation

LEMMA MergeFacts ==
  ASSUME NEW a \in Replies, NEW b \in Replies
  PROVE  /\ nc_reply_merge(a, b) \in Replies
         /\ nc_reply_merge(a, b) \in Fine => a \in Fine /\ b \in Fine
         /\ b # "none" => nc_reply_merge(a, b) # "none"
         /\ a # "data" /\ b # "data" => nc_reply_merge(a, b) # "data"
         /\ a \in Fine /\ b \in Fine => nc_reply_merge(a, b) # "error" \/ b = "none"
         /\ a \in Fine /\ b # "data" /\ nc_reply_merge(a, b) = "error" => b \in {"none", "error"}
PROOF
  <1>1. CASE a \in {"none", "na"}
    <2>1. nc_reply_merge(a, b) = b
      BY <1>1, Zenon DEF nc_reply_merge
    <2> QED BY <1>1, <2>1, Zenon DEF Replies, Fine
  <1>2. CASE a \notin {"none", "na"} /\ b = "na"
    <2>1. nc_reply_merge(a, b) = a
      BY <1>2, Zenon DEF nc_reply_merge
    <2> QED BY <1>2, <2>1, Zenon DEF Replies, Fine
  <1>3. CASE a \notin {"none", "na"} /\ b # "na"
    <2>1. nc_reply_merge(a, b) = IF a = b THEN a ELSE "error"
      BY <1>3, Zenon DEF nc_reply_merge
    <2> QED BY <1>3, <2>1, Zenon DEF Replies, Fine
  <1> QED BY <1>1, <1>2, <1>3, Zenon

LEMMA CallEffect ==
  ASSUME Types, dsid \in Files, NEW q, NEW o \in Outcomes(doc[dsid], q), o.doc \in Doc,
         doc' = [doc EXCEPT ![dsid] = o.doc],
         saved' = IF q.op \in StoreOps THEN [saved EXCEPT ![dsid] = {doc[dsid]}] ELSE saved
  PROVE  /\ doc' \in [Files -> Doc] /\ saved' \in [Files -> SUBSET Doc]
         /\ doc'[dsid] = o.doc /\ (q.op \in StoreOps => saved'[dsid] = {doc[dsid]})
         /\ \A ds \in Files \ {dsid} : doc'[ds] = doc[ds] /\ saved'[ds] = saved[ds]
PROOF
  <1>1. doc[dsid] \in Doc /\ doc \in [Files -> Doc] /\ saved \in [Files -> SUBSET Doc]
    BY Zenon DEF Types
  <1>2. CASE q.op \in StoreOps
    BY <1>1, <1>2, Zenon
  <1>3. CASE q.op \notin StoreOps
    BY <1>1, <1>3, Zenon
  <1> QED BY <1>2, <1>3, Zenon

LEMMA RestoreEffect ==
  ASSUME Types, NEW ds, Restore(ds)
  PROVE  /\ doc' \in [Files -> Doc] /\ saved' \in [Files -> SUBSET Doc]
         /\ \A e \in Files \ {ds} : doc'[e] = doc[e] /\ saved'[e] = saved[e]
         /\ ds \notin Files => doc' = doc /\ saved' = saved
         /\ ds \in Files /\ saved[ds] = {} => doc' = doc
         /\ \A d : ds \in Files /\ saved[ds] = {d} => doc'[ds] = d
PROOF
  <1>1. doc \in [Files -> Doc] /\ saved \in [Files -> SUBSET Doc]
    BY Zenon DEF Types
  <1>2. CASE ds \notin Files
    BY <1>1, <1>2, Zenon DEF Restore
  <1>3. CASE ds \in Files /\ saved[ds] = {}
    BY <1>1, <1>3, Zenon DEF Restore
  <1>4. CASE ds \in Files /\ saved[ds] # {}
    <2> DEFINE d == CHOOSE e \in saved[ds] : TRUE
    <2>1. d \in saved[ds]
      BY <1>4, Zenon
    <2>2. doc' = [doc EXCEPT ![ds] = d] /\ saved' = [saved EXCEPT ![ds] = {}]
      BY <1>4, Zenon DEF Restore
    <2> HIDE DEF d
    <2> QED BY <1>1, <1>4, <2>1, <2>2, Zenon
  <1> QED BY <1>2, <1>3, <1>4, Zenon

\* The callbacks bring the device into the new configuration, or fail and the
\* old one is written, or the module asks for another one.
LEMMA CallbacksEffect ==
  ASSUME Types, NEW ds \in Tapi, NEW c1 \in SUBSET Nodes, NEW c2 \in SUBSET Nodes, NEW erropt,
         NEW o, Callbacks(ds, c1, c2, erropt, o)
  PROVE  /\ device' \in [Tapi -> SUBSET (Nodes \cup {Mixed})]
         /\ \A e \in Tapi \ {ds} : device'[e] = device[e]
         /\ \/ /\ ~o.ret /\ rewrite' = {} /\ meddled' = meddled
               /\ device'[ds] \in {c2, {Mixed}}
            \/ /\ o.ret /\ c1 # c2 /\ rewrite' = {c1} /\ meddled' = meddled
               /\ device'[ds] \in {device[ds], {Mixed}}
            \/ /\ ~o.ret /\ c1 # c2 /\ meddled' = TRUE
               /\ \E c \in SUBSET Nodes : rewrite' = {c} /\ device'[ds] \in {c, {Mixed}}
PROOF
  <1>1. /\ o.ret \in BOOLEAN /\ o.dev \in DeviceStates /\ (o.ret => c1 # c2)
        /\ o.ret = FALSE \/ o.ret = TRUE
    <2>1. CASE c1 = c2
      <3>1. o \in [ret : {FALSE}, dev : {"new"}]
        BY <2>1, Zenon DEF Callbacks
      <3> QED BY <3>1, Zenon DEF DeviceStates
    <2>2. CASE c1 # c2
      <3>1. o \in CallbackOutcomes(erropt, TRUE, DeviceUndoes)
        BY <2>2, Zenon DEF Callbacks
      <3>2. CallbackOutcomes(erropt, TRUE, DeviceUndoes) \subseteq [ret : BOOLEAN, dev : DeviceStates]
        BY Zenon DEF CallbackOutcomes, DeviceStates
      <3>3. o \in [ret : BOOLEAN, dev : DeviceStates]
        BY <3>1, <3>2, Zenon
      <3> QED BY <2>2, <3>3, Zenon
    <2> QED BY <2>1, <2>2, Zenon
  <1>2. device \in [Tapi -> SUBSET (Nodes \cup {Mixed})] /\ {Mixed} \in SUBSET (Nodes \cup {Mixed})
    BY Zenon DEF Types
  <1>3. /\ ~o.ret => DeviceAfter(ds, o, c1, c2) \in {c2, {Mixed}}
        /\ o.ret => DeviceAfter(ds, o, c1, c2) \in {device[ds], {Mixed}}
    BY <1>1, Zenon DEF DeviceAfter
  <1>4. CASE /\ device' = [device EXCEPT ![ds] = DeviceAfter(ds, o, c1, c2)]
             /\ rewrite' = IF o.ret THEN {c1} ELSE {}
             /\ meddled' = meddled
    <2> DEFINE v == DeviceAfter(ds, o, c1, c2)
    <2>1. v \in SUBSET (Nodes \cup {Mixed})
      BY <1>2, <1>3
    <2> HIDE DEF v
    <2>2. /\ device' \in [Tapi -> SUBSET (Nodes \cup {Mixed})] /\ device'[ds] = v
          /\ \A e \in Tapi \ {ds} : device'[e] = device[e]
      BY <1>2, <1>4, <2>1, Zenon DEF v
    <2>3. CASE o.ret
      BY <1>1, <1>3, <1>4, <2>2, <2>3, Zenon DEF v
    <2>4. CASE ~o.ret
      BY <1>1, <1>3, <1>4, <2>2, <2>4, Zenon DEF v
    <2> QED BY <2>3, <2>4, Zenon
  <1>5. CASE \E c \in SUBSET Nodes :
               /\ ~o.ret /\ c1 # c2
               /\ device' = [device EXCEPT ![ds] = IF o.dev = "new" /\ @ = c1 THEN c ELSE {Mixed}]
               /\ rewrite' = {c}
               /\ meddled' = TRUE
    <2>1. PICK c \in SUBSET Nodes :
               /\ ~o.ret /\ c1 # c2
               /\ device' = [device EXCEPT ![ds] = IF o.dev = "new" /\ @ = c1 THEN c ELSE {Mixed}]
               /\ rewrite' = {c}
               /\ meddled' = TRUE
      BY <1>5, Zenon
    <2>2. c \in SUBSET (Nodes \cup {Mixed})
      BY Zenon
    <2> QED BY <1>2, <2>1, <2>2, Zenon
  <1> QED BY <1>4, <1>5, Zenon DEF Callbacks

\* The configuration is written over running, unless the datastore is locked.
LEMMA RewrittenEffect ==
  ASSUME Types, NEW ds \in Files, NEW c \in SUBSET Nodes, rewrite = {c}, Rewritten(ds)
  PROVE  /\ doc' \in [Files -> Doc] /\ saved' \in [Files -> SUBSET Doc] /\ rewrite' = {}
         /\ \A e \in Files \ {ds} : doc'[e] = doc[e] /\ saved'[e] = saved[e]
         /\ saved'[ds] = {doc[ds]}
         /\ file_ds_access(doc[ds], "running", rpc.sid) =>
              doc'[ds] = [doc[ds] EXCEPT !.cfg["running"] = c]
PROOF
  <1> DEFINE q == FileRequest("copyconfig", "running", "config", c)
             d == doc[ds]
  <1>1. d \in Doc /\ doc \in [Files -> Doc] /\ saved \in [Files -> SUBSET Doc]
    BY Zenon DEF Types
  <1>2. q \in StoreRequests /\ q.op = "copyconfig" /\ q.tg = "running" /\ q.src = "config"
        /\ q.new = c /\ q.sid = rpc.sid
    BY RpcFacts, Zenon DEF FileRequest, StoreRequests, StoreOps
  <1>3. PICK o \in ncds_file_copyconfig(d, q) :
          /\ o.reply # "error" /\ doc' = [doc EXCEPT ![ds] = o.doc]
          /\ saved' = [saved EXCEPT ![ds] = {d}] /\ rewrite' = {}
    BY Zenon DEF Rewritten
  <1> HIDE DEF q, d
  <1>4. o \in Outcomes(d, q)
    BY <1>2, <1>3, Zenon DEF Outcomes, ReadOps
  <1>5. o.doc \in Doc
    BY <1>1, <1>2, <1>4, StoreOutcome, Zenon
  <1>6. ASSUME file_ds_access(d, "running", rpc.sid) PROVE o.doc = [d EXCEPT !.cfg["running"] = c]
    <2>1. \/ c = {} /\ d.cfg["running"] = {} /\ o \in Changed(Marked(d, "running", TRUE), "notapplicable")
          \/ o \in Changed(Replaced(d, "running", c, TRUE), "ok")
          \/ o \in Refused(d, "error")
      <3>1. Copied(d, q) = {c}
        BY <1>2, Zenon DEF Copied
      <3> QED BY <1>2, <1>3, <1>6, <3>1, Zenon DEF ncds_file_copyconfig
    <2>2. o \notin Refused(d, "error")
      BY <1>3 DEF Refused
    <2>3. Marked(d, "running", TRUE) = d /\ Replaced(d, "running", c, TRUE) = [d EXCEPT !.cfg["running"] = c]
      BY Zenon DEF Marked, Replaced
    <2>4. c = {} /\ d.cfg["running"] = {} => d = [d EXCEPT !.cfg["running"] = c]
      BY <1>1, Zenon DEF Doc
    <2>5. CASE c = {} /\ d.cfg["running"] = {} /\ o \in Changed(d, "notapplicable")
      BY <2>4, <2>5 DEF Changed
    <2>6. CASE o \in Changed([d EXCEPT !.cfg["running"] = c], "ok")
      BY <2>6 DEF Changed
    <2> QED BY <2>1, <2>2, <2>3, <2>5, <2>6, Zenon
  <1> QED BY <1>1, <1>3, <1>5, <1>6, Zenon DEF d

\* the call of one operation: the datastore changes as it says
LEMMA OperationEffect ==
  ASSUME Types, ApplyOperation
  PROVE  /\ doc' \in [Files -> Doc] /\ saved' \in [Files -> SUBSET Doc] /\ device' = device
         /\ remote' \in [Files -> Parts]
         /\ \A ds \in Files \ {dsid} : doc'[ds] = doc[ds] /\ saved'[ds] = saved[ds]
         /\ pc' \in {"validation", "transapi"}
         /\ reply' \in Replies \ {"none"} /\ (rpc.op \in WriteOps => reply' # "data")
PROOF
  <1>1. CASE Quiet
    BY <1>1, Zenon DEF Quiet, Types
  <1>2. CASE Locking
    <2> DEFINE q == FileRequest(rpc.op, rpc.tg, rpc.tg, {})
    <2>1. rpc.tg \in Targets /\ rpc.sid \in Sessions /\ dsid \in Files /\ doc[dsid] \in Doc
      BY <1>2, RpcFacts, Zenon DEF Locking, Types
    <2>2. q.op \in {"lock", "unlock"} /\ q.tg = rpc.tg /\ q.sid = rpc.sid
      BY <1>2, Zenon DEF Locking, FileRequest
    <2>3. PICK o \in Outcomes(doc[dsid], q) :
            /\ doc' = [doc EXCEPT ![dsid] = o.doc]
            /\ saved' = IF q.op \in StoreOps THEN [saved EXCEPT ![dsid] = {doc[dsid]}] ELSE saved
            /\ reply' = FileReply(o.reply) /\ device' = device /\ remote' = remote
      BY <1>2, Zenon DEF Locking, Call
    <2> HIDE DEF q
    <2>4. o.doc \in Doc
      BY <2>1, <2>2, LockOutcome
    <2>5. reply' \in Replies \ {"none", "data"}
      BY <2>3, Zenon DEF FileReply, Replies
    <2>6. /\ doc' \in [Files -> Doc] /\ saved' \in [Files -> SUBSET Doc]
          /\ \A ds \in Files \ {dsid} : doc'[ds] = doc[ds] /\ saved'[ds] = saved[ds]
      BY <2>1, <2>3, <2>4, CallEffect, Zenon
    <2> QED BY <1>2, <2>3, <2>5, <2>6, Zenon DEF Locking, Types
  <1>3. CASE Storing
    <2>1. PICK q \in StoreRequests : Call(q)
      BY <1>3, Zenon DEF Storing
    <2>2. PICK o \in Outcomes(doc[dsid], q) :
            /\ doc' = [doc EXCEPT ![dsid] = o.doc]
            /\ saved' = IF q.op \in StoreOps THEN [saved EXCEPT ![dsid] = {doc[dsid]}] ELSE saved
            /\ reply' = FileReply(o.reply) /\ device' = device /\ remote' = remote
      BY <2>1, Zenon DEF Call
    <2>3. dsid \in Files /\ doc[dsid] \in Doc
      BY <1>3, Zenon DEF Storing, Types
    <2>4. o.doc \in Doc
      BY <2>3, StoreOutcome, Zenon
    <2>5. reply' \in Replies \ {"none", "data"}
      BY <2>2, Zenon DEF FileReply, Replies
    <2>6. /\ doc' \in [Files -> Doc] /\ saved' \in [Files -> SUBSET Doc]
          /\ \A ds \in Files \ {dsid} : doc'[ds] = doc[ds] /\ saved'[ds] = saved[ds]
      BY <2>2, <2>3, <2>4, CallEffect, Zenon
    <2>7. pc' \in {"validation", "transapi"}
      BY <1>3, Zenon DEF Storing, ToValidation
    <2> QED BY <2>2, <2>5, <2>6, <2>7, Zenon DEF Types
  <1> QED BY <1>1, <1>2, <1>3, OperationKinds, Zenon

(***************************************************************************)
(* Types and places                                                        *)
(***************************************************************************)
LEMMA SnapshotType ==
  ASSUME Types, NEW ds \in Stores
  PROVE  Snapshot(ds) \in SUBSET Nodes
PROOF
  <1>1. CASE ChangesRunning(ds)
    <2>1. ds \in Files /\ doc[ds].cfg["running"] \in SUBSET Nodes
      BY <1>1, ListFacts, DocsAssumption DEF ChangesRunning, Types, Doc
    <2> QED BY <1>1, <2>1, Zenon DEF Snapshot, Running
  <1>2. CASE ~ChangesRunning(ds)
    BY <1>2, Zenon DEF Snapshot
  <1> QED BY <1>1, <1>2, Zenon

LEMMA RunningType ==
  ASSUME Types, NEW ds \in Files
  PROVE  Running(ds) \in SUBSET Nodes /\ Old(ds) \in SUBSET Nodes /\ doc[ds] \in Doc /\ before[ds] \in Doc
  BY DocsAssumption DEF Types, Doc, Running, Old

LEMMA LocalsType ==
  /\ Locals.rpc \in Rpcs /\ Locals.at = 1 /\ Locals.back = 1 /\ Locals.dsid \in Stores
  /\ Locals.old = {} /\ Locals.rewrite = {} /\ Locals.reply = "none"
  /\ Locals.replies = [ds \in Stores |-> "none"]
PROOF
  <1>1. (CHOOSE r \in Rpcs : TRUE) \in Rpcs
    BY ApplyRpcAssumption, Zenon
  <1>2. 0 \in Stores
    BY ListFacts, Zenon DEF Internal
  <1> QED BY <1>1, <1>2, Zenon DEF Locals

LEMMA TypesPlacesInit == Init => Types /\ Places
PROOF
  <1> SUFFICES ASSUME Init PROVE Types /\ Places
    BY Zenon
  <1>1. file_create_xmlframe \in Doc /\ Len(List) \in Nat
    BY ListFacts, Zenon DEF file_create_xmlframe, Doc
  <1>2. doc \in [Files -> Doc] /\ before \in [Files -> Doc] /\ saved \in [Files -> SUBSET Doc]
    BY <1>1, Zenon DEF Init
  <1>3. device \in [Tapi -> SUBSET (Nodes \cup {Mixed})]
    BY <1>2, ListFacts, DocsAssumption DEF Init, Running, Doc
  <1>4. Types
    <2>1. remote \in [Files -> Parts]
      BY Zenon DEF Init, Parts
    <2>2. replies \in [Stores -> Replies]
      BY LocalsType, Zenon DEF Init, Replies
    <2>3. at \in 1..(Len(List) + 1) /\ back \in 1..(Len(List) + 1) /\ count \in Nat
      BY <1>1, LocalsType DEF Init
    <2>4. rewrite \in SUBSET (SUBSET Nodes) /\ old \in SUBSET Nodes /\ strayed \in SUBSET Files
      BY LocalsType, Zenon DEF Init
    <2> QED BY <1>2, <1>3, <2>1, <2>2, <2>3, <2>4, LocalsType, Zenon DEF Init, Types, Pcs, Replies
  <1>5. Places
    BY <1>1, LocalsType, Zenon DEF Init, Places, Work, Undo
  <1> QED BY <1>4, <1>5, Zenon

LEMMA TypesStep ==
  ASSUME Types, Places, [Next]_vars
  PROVE  Types'
PROOF
  <1> USE ListFacts
  <1> DEFINE Kept == UNCHANGED <<rpc, at, back, dsid, old, rewrite, inner, outer, count, before,
                                 replies, meddled, refused, strayed>>
             Where == UNCHANGED <<doc, saved, device, remote, before>>
  <1>1. CASE ApplyOperation
    <2>1. Kept
      BY <1>1, OperationKinds, Zenon DEF caller, history
    <2> QED BY <1>1, <2>1, OperationEffect, Zenon DEF Types, Pcs, Work
  <1>2. CASE EditValidated
    <2>1. Kept /\ UNCHANGED <<device, remote>> /\ pc' = "transapi" /\ reply' \in {"ok", "error"}
      BY <1>2, Zenon DEF EditValidated, caller, history
    <2>2. Restore(dsid) \/ UNCHANGED <<doc, saved>>
      BY <1>2, Zenon DEF EditValidated
    <2>3. doc' \in [Files -> Doc] /\ saved' \in [Files -> SUBSET Doc]
      BY <2>2, RestoreEffect, Zenon DEF Types
    <2> QED BY <2>1, <2>3, Zenon DEF Types, Pcs, Work, Replies
  <1>3. CASE NoTransapi
    BY <1>3, Zenon DEF NoTransapi, caller, history, stores, Types, Pcs, Work
  <1>4. CASE RunningChanged
    <2>1. PICK o \in [ret : BOOLEAN, dev : DeviceStates] :
            /\ Callbacks(dsid, old, Running(dsid), Erropt, o)
            /\ reply' = IF o.ret THEN "error" ELSE "ok"
            /\ refused' = (refused \/ (o.ret /\ o.dev # "old"))
            /\ IF o.ret /\ Erropt = "rollback" THEN Restore(dsid) ELSE UNCHANGED <<doc, saved>>
      BY <1>4, Zenon DEF RunningChanged
    <2>2. dsid \in Tapi /\ dsid \in Files
      BY <1>4, Zenon DEF RunningChanged, ChangesRunning
    <2>3. old \in SUBSET Nodes /\ Running(dsid) \in SUBSET Nodes
      BY <2>2, RunningType, Zenon DEF Types
    <2>4. /\ device' \in [Tapi -> SUBSET (Nodes \cup {Mixed})]
          /\ rewrite' \in SUBSET (SUBSET Nodes) /\ meddled' \in BOOLEAN
      <3> DEFINE now == Running(dsid)
      <3>1. Callbacks(dsid, old, now, Erropt, o) /\ now \in SUBSET Nodes
        BY <2>1, <2>3, Zenon
      <3> HIDE DEF now
      <3>2. /\ device' \in [Tapi -> SUBSET (Nodes \cup {Mixed})]
            /\ \/ rewrite' = {} /\ meddled' = meddled
               \/ rewrite' = {old} /\ meddled' = meddled
               \/ meddled' = TRUE /\ \E c \in SUBSET Nodes : rewrite' = {c}
        BY <2>2, <2>3, <3>1, CallbacksEffect, Zenon
      <3>3. meddled \in BOOLEAN
        BY Zenon DEF Types
      <3>4. rewrite' \in SUBSET (SUBSET Nodes)
        BY <2>3, <3>2, Zenon
      <3>5. meddled' \in BOOLEAN
        BY <3>2, <3>3, Zenon
      <3> QED BY <3>2, <3>4, <3>5, Zenon
    <2>5. doc' \in [Files -> Doc] /\ saved' \in [Files -> SUBSET Doc]
      BY <2>1, RestoreEffect, Zenon DEF Types
    <2>6. reply' \in {"error", "ok"} /\ refused' \in BOOLEAN
      BY <2>1, Zenon
    <2>7. UNCHANGED <<remote, caller, dsid, old, inner, replies, strayed>> /\ pc' \in {"merge", "rewrite"}
      BY <1>4, Zenon DEF RunningChanged
    <2> QED BY <2>4, <2>5, <2>6, <2>7, Zenon DEF Types, caller, Pcs, Work, Replies
  <1>5. CASE Rewrite
    <2>1. PICK c \in SUBSET Nodes : rewrite = {c}
      BY <1>5, Zenon DEF Rewrite, Places
    <2>2. UNCHANGED <<device, remote, caller, dsid, old, reply, inner, history>> /\ pc' = "merge"
      BY <1>5, Zenon DEF Rewrite
    <2>3. doc' \in [Files -> Doc] /\ saved' \in [Files -> SUBSET Doc] /\ rewrite' = {}
      BY <1>5, <2>1, RewrittenEffect, Zenon DEF Rewrite, Places, ChangesRunning
    <2> QED BY <2>2, <2>3, Zenon DEF Types, caller, history, Pcs, Work
  <1>6. CASE Merge
    <2>1. /\ UNCHANGED <<stores, caller, rewrite, meddled, refused, strayed>>
          /\ replies' = [replies EXCEPT ![dsid] = reply]
      BY <1>6, Zenon DEF Merge
    <2>2. replies' \in [Stores -> Replies]
      BY <2>1, Zenon DEF Types
    <2>3. nc_reply_merge(inner, reply) \in Replies
      BY MergeFacts, Zenon DEF Types
    <2>4. inner' \in Replies /\ reply' \in Replies
      BY <1>6, <2>3, Zenon DEF Merge, Types
    <2>5. pc' \in {"operate", "return"}
      BY <1>6, Zenon DEF Merge
    <2>6. dsid' \in Stores /\ old' \in SUBSET Nodes
      <3>1. CASE List[at] = 0 /\ dsid + 1 < internal_ds_count
        <4>1. dsid + 1 \in Stores /\ dsid' = dsid + 1 /\ old' = Snapshot(dsid + 1)
          BY <1>6, <3>1 DEF Merge, Types, Internal
        <4> QED BY <4>1, SnapshotType, Zenon
      <3>2. CASE ~(List[at] = 0 /\ dsid + 1 < internal_ds_count)
        BY <1>6, <3>2, Zenon DEF Merge, Types
      <3> QED BY <3>1, <3>2, Zenon
    <2> QED BY <2>1, <2>2, <2>4, <2>5, <2>6, Zenon DEF Types, stores, caller, Pcs, Work
  <1>7. ASSUME NEW r \in Rpcs, Receive(r) PROVE Types'
    <2>1. UNCHANGED <<stores, at, dsid, old, rewrite, reply, inner, outer, back, before, history>>
      BY <1>7, Zenon DEF Receive
    <2>2. rpc' \in Rpcs /\ pc' = "next" /\ count' \in Nat
      BY <1>7 DEF Receive, Types
    <2> QED BY <2>1, <2>2, Zenon DEF Types, stores, history, Pcs
  <1>8. CASE SkipInternal
    <2>1. at' \in 1..(Len(List) + 1)
      BY <1>8 DEF SkipInternal, Types
    <2> QED BY <1>8, <2>1, Zenon DEF SkipInternal, Types, stores, history
  <1>9. CASE NextStore
    <2>1. at \in DOMAIN List /\ dsid' = List[at] /\ old' = Snapshot(List[at]) /\ List[at] \in Stores
      BY <1>9 DEF NextStore, Types
    <2>2. old' \in SUBSET Nodes
      BY <2>1, SnapshotType, Zenon
    <2>3. UNCHANGED <<stores, caller, rewrite, reply, history>> /\ inner' = "none" /\ pc' = "operate"
      BY <1>9, Zenon DEF NextStore
    <2> QED BY <2>1, <2>2, <2>3, Zenon DEF Types, stores, caller, history, Pcs, Work, Replies
  <1>10. CASE Return
    <2>1. nc_reply_merge(outer, reply) \in Replies
      BY MergeFacts, Zenon DEF Types
    <2>2. outer' \in Replies /\ reply' \in Replies
      BY <1>10, <2>1, Zenon DEF Return
    <2>3. at' \in 1..(Len(List) + 1) /\ back' \in 1..(Len(List) + 1) /\ pc' \in {"replied", "rollback", "next"}
      BY <1>10 DEF Return, Places, Types
    <2> QED BY <1>10, <2>2, <2>3, Zenon DEF Return, Types, stores, history, Pcs, Undo
  <1>11. CASE AllDone
    BY <1>11, Zenon DEF AllDone, Types, stores, caller, history, Pcs
  <1>12. CASE RollbackStore
    <2>1. doc' \in [Files -> Doc] /\ saved' \in [Files -> SUBSET Doc]
      BY <1>12, RestoreEffect, Zenon DEF RollbackStore
    <2>2. ChangesRunning(List[back]) => Running(List[back]) \in SUBSET Nodes
      BY RunningType, Zenon DEF ChangesRunning
    <2>3. old' \in SUBSET Nodes /\ back' \in 1..(Len(List) + 1) /\ pc' \in Undo
      BY <1>12, <2>2 DEF RollbackStore, Types, Undo
    <2>4. strayed' \in SUBSET Files
      BY <1>12, Zenon DEF RollbackStore, Types
    <2>5. UNCHANGED <<device, remote, rpc, at, dsid, rewrite, reply, inner, outer, count, before,
                 replies, meddled, refused>>
      BY <1>12, Zenon DEF RollbackStore
    <2> QED BY <2>1, <2>3, <2>4, <2>5, Zenon DEF Types, Pcs
  <1>13. CASE UndoOnDevice
    <2> DEFINE ds == List[back]
    <2>1. PICK o \in [ret : BOOLEAN, dev : DeviceStates] :
            /\ Callbacks(ds, old, Running(ds), "rollback", o)
            /\ refused' = (refused \/ o.ret)
            /\ pc' = IF rewrite' = {} THEN "rollback" ELSE "undone"
            /\ back' = IF rewrite' = {} THEN back + 1 ELSE back
      BY <1>13, Zenon DEF UndoOnDevice
    <2>2. ds \in Tapi /\ ds \in Files /\ back < at /\ pc = "undo"
      BY <1>13, Zenon DEF UndoOnDevice, Places, ChangesRunning
    <2> HIDE DEF ds
    <2>3. old \in SUBSET Nodes /\ Running(ds) \in SUBSET Nodes
      BY <2>2, RunningType, Zenon DEF Types
    <2>4. /\ device' \in [Tapi -> SUBSET (Nodes \cup {Mixed})]
          /\ rewrite' \in SUBSET (SUBSET Nodes) /\ meddled' \in BOOLEAN
      <3>1. Callbacks(ds, old, Running(ds), "rollback", o)
        BY <2>1, Zenon
      <3>2. /\ device' \in [Tapi -> SUBSET (Nodes \cup {Mixed})]
            /\ \/ rewrite' = {} \/ rewrite' = {old} \/ \E c \in SUBSET Nodes : rewrite' = {c}
            /\ meddled' \in {meddled, TRUE}
        BY <2>2, <2>3, <3>1, CallbacksEffect, Zenon
      <3> QED BY <2>3, <3>2, Zenon DEF Types
    <2>5. refused' \in BOOLEAN /\ pc' \in Undo /\ back' \in 1..(Len(List) + 1)
      BY <2>1, <2>2 DEF Types, Undo
    <2>6. UNCHANGED <<doc, saved, remote, rpc, at, dsid, old, reply, inner, outer, count, before, replies, strayed>>
      BY <1>13, Zenon DEF UndoOnDevice
    <2> QED BY <2>4, <2>5, <2>6, Zenon DEF Types, Pcs
  <1>14. CASE UndoRewritten
    <2>1. PICK c \in SUBSET Nodes : rewrite = {c}
      BY <1>14, Zenon DEF UndoRewritten, Places
    <2>2. List[back] \in Files /\ back < at
      BY <1>14, Zenon DEF UndoRewritten, Places, ChangesRunning
    <2>3. doc' \in [Files -> Doc] /\ saved' \in [Files -> SUBSET Doc] /\ rewrite' = {}
      BY <1>14, <2>1, <2>2, RewrittenEffect, Zenon DEF UndoRewritten
    <2>4. back' \in 1..(Len(List) + 1) /\ pc' = "rollback"
      BY <1>14, <2>2 DEF UndoRewritten, Types
    <2> QED BY <1>14, <2>3, <2>4, Zenon DEF UndoRewritten, Types, history, Pcs, Undo
  <1>15. CASE RolledBack
    BY <1>15, Zenon DEF RolledBack, Types, stores, caller, history, Pcs
  <1>16. CASE Replied
    <2>1. replies' \in [Stores -> Replies] /\ old' \in SUBSET Nodes /\ rewrite' \in SUBSET (SUBSET Nodes)
      BY <1>16, LocalsType, Zenon DEF Replied, Replies
    <2>2. at' \in 1..(Len(List) + 1) /\ back' \in 1..(Len(List) + 1) /\ dsid' \in Stores /\ rpc' \in Rpcs
      BY <1>16, LocalsType DEF Replied
    <2>3. reply' = "none" /\ inner' = "none" /\ outer' = "none"
      BY <1>16, LocalsType, Zenon DEF Replied
    <2> QED BY <1>16, <2>1, <2>2, <2>3, Zenon DEF Replied, Types, stores, Pcs, Replies
  <1>17. CASE UNCHANGED vars
    BY <1>17, Zenon DEF vars, Types
  <1> QED BY <1>1, <1>2, <1>3, <1>4, <1>5, <1>6, <1>7, <1>8, <1>9, <1>10, <1>11, <1>12, <1>13, <1>14,
             <1>15, <1>16, <1>17, Zenon
          DEF Next, ApplyOne, ApplyAll, ApplyOperation, Done

LEMMA PlacesStep ==
  ASSUME Types, Places, Merging, [Next]_vars
  PROVE  Places'
PROOF
  <1> USE ListFacts
  <1>1. CASE ApplyOperation
    <2>1. /\ UNCHANGED <<caller, dsid, old, rewrite, inner, history>> /\ pc = "operate"
          /\ pc' \in {"validation", "transapi"}
      BY <1>1, OperationKinds, OperationEffect, Zenon
    <2> QED BY <2>1, Zenon DEF Places, caller, Work, Undo
  <1>2. CASE EditValidated
    BY <1>2, Zenon DEF EditValidated, Places, caller, Work, Undo
  <1>3. CASE NoTransapi
    BY <1>3, Zenon DEF NoTransapi, Places, caller, Work, Undo
  <1>4. CASE RunningChanged
    <2>1. PICK o \in [ret : BOOLEAN, dev : DeviceStates] :
            Callbacks(dsid, old, Running(dsid), Erropt, o)
      BY <1>4, Zenon DEF RunningChanged
    <2>2. dsid \in Tapi /\ dsid \in Files /\ ChangesRunning(dsid) /\ pc = "transapi"
      BY <1>4, Zenon DEF RunningChanged, ChangesRunning
    <2>3. old \in SUBSET Nodes /\ Running(dsid) \in SUBSET Nodes
      BY <2>2, RunningType, Zenon DEF Types
    <2>4. rewrite' = {} \/ \E c \in SUBSET Nodes : rewrite' = {c}
      BY <2>1, <2>2, <2>3, CallbacksEffect, Zenon
    <2>5. UNCHANGED <<caller, dsid>> /\ pc' = IF rewrite' = {} THEN "merge" ELSE "rewrite"
      BY <1>4, Zenon DEF RunningChanged
    <2>6. ChangesRunning(dsid)'
      BY <2>2, <2>5, Zenon DEF ChangesRunning, caller
    <2> QED BY <2>2, <2>4, <2>5, <2>6, Zenon DEF Places, caller, Work, Undo
  <1>5. CASE Rewrite
    <2>1. rewrite' = {}
      BY <1>5, Zenon DEF Rewrite, Rewritten
    <2> QED BY <1>5, <2>1, Zenon DEF Rewrite, Places, caller, Work, Undo
  <1>6. CASE Merge
    <2>1. /\ UNCHANGED <<stores, caller, rewrite, meddled, refused, strayed>> /\ pc = "merge"
          /\ pc' \in {"operate", "return"}
      BY <1>6, Zenon DEF Merge
    <2>2. CASE pc' = "operate"
      <3>1. List[at] = 0 /\ dsid' = dsid + 1 /\ dsid + 1 < internal_ds_count /\ old' = Snapshot(dsid + 1)
        BY <1>6, <2>2, Zenon DEF Merge
      <3>2. dsid \in Internal /\ Group(at) = Internal
        BY <2>1, <3>1, GroupFacts DEF Places, Work
      <3>3. dsid' \in Group(at')
        BY <2>1, <3>1, <3>2 DEF Internal, caller
      <3>4. \A ds : Snapshot(ds)' = Snapshot(ds)
        BY <2>1, Zenon DEF Snapshot, ChangesRunning, Running, stores, caller
      <3>5. old' = Snapshot(dsid)'
        <4>1. \A ds : dsid' = ds => Snapshot(dsid)' = Snapshot(ds)'
          BY Zenon
        <4> QED BY <3>1, <3>4, <4>1, Zenon
      <3> QED BY <2>1, <2>2, <3>3, <3>5, Zenon DEF Places, caller, Work, Undo
    <2>3. CASE pc' = "return"
      BY <2>1, <2>3, Zenon DEF Places, caller, Work, Undo
    <2> QED BY <2>1, <2>2, <2>3, Zenon
  <1>7. ASSUME NEW r \in Rpcs, Receive(r) PROVE Places'
    BY <1>7, Zenon DEF Receive, Places, Work, Undo
  <1>8. CASE SkipInternal
    BY <1>8, Zenon DEF SkipInternal, Places, Work, Undo
  <1>9. CASE NextStore
    <2>1. /\ UNCHANGED <<stores, caller, rewrite, reply, history>> /\ pc' = "operate" /\ pc = "next"
          /\ dsid' = List[at] /\ old' = Snapshot(List[at]) /\ at \in DOMAIN List
          /\ List[at] \notin Internal \ {0}
      BY <1>9 DEF NextStore, Types, Internal
    <2>2. List[at] \in Group(at)
      BY <2>1 DEF Group, Internal
    <2>3. \A ds : Snapshot(ds)' = Snapshot(ds)
      BY <2>1, Zenon DEF Snapshot, ChangesRunning, Running, stores, caller
    <2>4. \A ds : dsid' = ds => Snapshot(dsid)' = Snapshot(ds)'
      BY Zenon
    <2>5. old' = Snapshot(dsid)'
      BY <2>1, <2>3, <2>4, Zenon
    <2> QED BY <2>1, <2>2, <2>5, Zenon DEF Places, caller, Work, Undo
  <1>10. CASE Return
    <2>1. pc = "return" /\ UNCHANGED <<rpc, rewrite>>
      BY <1>10, Zenon DEF Return
    <2>2. CASE pc' = "replied"
      BY <1>10, <2>1, <2>2, RpcFacts, Zenon DEF Return, Places, Work, Undo, Stops, ReadOnlyOps
    <2>3. CASE pc' = "rollback"
      BY <1>10, <2>1, <2>3 DEF Return, Places, Work, Undo
    <2>4. CASE pc' = "next"
      BY <1>10, <2>1, <2>4, Zenon DEF Return, Places, Work, Undo
    <2> QED BY <1>10, <2>2, <2>3, <2>4, Zenon DEF Return
  <1>11. CASE AllDone
    BY <1>11, Zenon DEF AllDone, Places, Merging, caller, Work, Undo
  <1>12. CASE RollbackStore
    <2>1. /\ pc = "rollback" /\ UNCHANGED <<rpc, at, outer, rewrite>> /\ back < at
          /\ IF ChangesRunning(List[back])
             THEN pc' = "undo" /\ UNCHANGED back
             ELSE pc' = pc /\ back' = back + 1
      BY <1>12, Zenon DEF RollbackStore
    <2>2. \A ds : ChangesRunning(ds)' = ChangesRunning(ds)
      BY <2>1, Zenon DEF ChangesRunning
    <2>3. CASE ChangesRunning(List[back])
      <3>1. \A ds : List[back] = ds => (List[back'] = ds /\ ChangesRunning(List[back])' = ChangesRunning(ds)')
        BY <2>1, <2>3, Zenon
      <3> QED BY <2>1, <2>2, <2>3, <3>1, Zenon DEF Places, Work, Undo
    <2>4. CASE ~ChangesRunning(List[back])
      BY <2>1, <2>4 DEF Places, Types, Work, Undo
    <2> QED BY <2>3, <2>4, Zenon
  <1>13. CASE UndoOnDevice
    <2> DEFINE ds == List[back]
    <2>1. PICK o \in [ret : BOOLEAN, dev : DeviceStates] :
            /\ Callbacks(ds, old, Running(ds), "rollback", o)
            /\ pc' = IF rewrite' = {} THEN "rollback" ELSE "undone"
            /\ back' = IF rewrite' = {} THEN back + 1 ELSE back
      BY <1>13, Zenon DEF UndoOnDevice
    <2>2. ds \in Tapi /\ ds \in Files /\ back < at /\ pc = "undo" /\ ChangesRunning(List[back])
      BY <1>13, Zenon DEF UndoOnDevice, Places, ChangesRunning
    <2> HIDE DEF ds
    <2>3. old \in SUBSET Nodes /\ Running(ds) \in SUBSET Nodes
      BY <2>2, RunningType, Zenon DEF Types
    <2>4. rewrite' = {} \/ \E c \in SUBSET Nodes : rewrite' = {c}
      <3>1. Callbacks(ds, old, Running(ds), "rollback", o)
        BY <2>1, Zenon
      <3> QED BY <2>2, <2>3, <3>1, CallbacksEffect, Zenon
    <2>5. UNCHANGED <<rpc, at, dsid, outer>>
      BY <1>13, Zenon DEF UndoOnDevice
    <2>6. CASE rewrite' = {}
      BY <2>1, <2>2, <2>5, <2>6 DEF Places, Types, Work, Undo
    <2>7. CASE rewrite' # {}
      <3>1. ChangesRunning(List[back])'
        BY <2>1, <2>2, <2>5, <2>7, Zenon DEF ChangesRunning
      <3> QED BY <2>1, <2>2, <2>4, <2>5, <2>7, <3>1, Zenon DEF Places, Work, Undo
    <2> QED BY <2>6, <2>7, Zenon
  <1>14. CASE UndoRewritten
    <2>1. rewrite' = {}
      BY <1>14, Zenon DEF UndoRewritten, Rewritten
    <2> QED BY <1>14, <2>1 DEF UndoRewritten, Places, Types, Work, Undo
  <1>15. CASE RolledBack
    BY <1>15, Zenon DEF RolledBack, Places, caller, Work, Undo
  <1>16. CASE Replied
    BY <1>16, LocalsType, Zenon DEF Replied, stores, Places, Work, Undo
  <1>17. CASE UNCHANGED vars
    <2>1. Snapshot(dsid)' = Snapshot(dsid) /\ ChangesRunning(List[back])' = ChangesRunning(List[back])
          /\ ChangesRunning(dsid)' = ChangesRunning(dsid)
      BY <1>17, Zenon DEF vars, Snapshot, ChangesRunning, Running
    <2> QED BY <1>17, <2>1, Zenon DEF vars, Places
  <1> QED BY <1>1, <1>2, <1>3, <1>4, <1>5, <1>6, <1>7, <1>8, <1>9, <1>10, <1>11, <1>12, <1>13, <1>14,
             <1>15, <1>16, <1>17, Zenon
          DEF Next, ApplyOne, ApplyAll, ApplyOperation, Done

(***************************************************************************)
(* The replies                                                             *)
(***************************************************************************)
LEMMA RestFacts ==
  /\ \A ds \in Stores : ds \in Rest(1)
  /\ \A ds : \A i \in DOMAIN List : ds \in Rest(i) <=> ds \in Group(i) \/ ds \in Rest(i + 1)
  /\ \A ds : \A i \in DOMAIN List : ds \in Group(i) => ds \notin Rest(i + 1)
  /\ \A ds : ds \notin Rest(Len(List) + 1) /\ ds \notin Rest(Len(List) + 2)
  BY GroupFacts

LEMMA MergingInit == Init => Merging
PROOF
  <1> SUFFICES ASSUME Init PROVE Merging
    BY Zenon
  <1>1. /\ pc = "idle" /\ at = 1 /\ reply = "none" /\ inner = "none" /\ outer = "none"
        /\ \A ds \in Stores : replies[ds] = "none"
    BY LocalsType, Zenon DEF Init
  <1> QED BY <1>1, RestFacts, Zenon DEF Merging, Left, Work, Fine

LEMMA MergingStep ==
  ASSUME Types, Places, Merging, [Next]_vars
  PROVE  Merging'
PROOF
  <1> USE ListFacts
  <1>w. ASSUME pc \in Work, pc' \in Work \ {"operate"}, reply' # "none",
               rpc.op \in WriteOps => reply' # "data",
               UNCHANGED <<rpc, at, dsid, inner, outer, replies>>
        PROVE  Merging'
    BY <1>w DEF Merging, Left, Work
  <1>1. CASE ApplyOperation
    <2>1. /\ UNCHANGED <<caller, dsid, old, rewrite, inner, history>> /\ pc = "operate"
      BY <1>1, OperationKinds, Zenon
    <2>2. /\ pc' \in {"validation", "transapi"} /\ reply' # "none"
          /\ rpc.op \in WriteOps => reply' # "data"
      BY <1>1, OperationEffect, Zenon
    <2> QED BY <1>w, <2>1, <2>2, Zenon DEF caller, history, Work
  <1>2. CASE EditValidated
    <2>1. /\ UNCHANGED <<caller, dsid, inner, history>> /\ pc = "validation" /\ pc' = "transapi"
          /\ reply' \in {"ok", "error"}
      BY <1>2, Zenon DEF EditValidated
    <2> QED BY <1>w, <2>1, Zenon DEF caller, history, Work
  <1>3. CASE NoTransapi
    <2>1. /\ UNCHANGED <<caller, dsid, reply, inner, history>> /\ pc = "transapi" /\ pc' = "merge"
      BY <1>3, Zenon DEF NoTransapi
    <2> QED BY <1>w, <2>1, Zenon DEF Merging, caller, history, Work
  <1>4. CASE RunningChanged
    <2>1. /\ UNCHANGED <<caller, dsid, inner, replies>> /\ pc = "transapi"
          /\ pc' \in {"merge", "rewrite"} /\ reply' \in {"ok", "error"}
      BY <1>4, Zenon DEF RunningChanged
    <2> QED BY <1>w, <2>1, Zenon DEF caller, Work
  <1>5. CASE Rewrite
    <2>1. /\ UNCHANGED <<caller, dsid, reply, inner, history>> /\ pc = "rewrite" /\ pc' = "merge"
      BY <1>5, Zenon DEF Rewrite
    <2> QED BY <1>w, <2>1, Zenon DEF Merging, caller, history, Work
  <1>6. CASE Merge
    <2>1. /\ pc = "merge" /\ UNCHANGED <<rpc, at, outer>> /\ dsid \in Stores
          /\ replies' = [replies EXCEPT ![dsid] = reply]
      BY <1>6, Zenon DEF Merge, caller, Types
    <2>2. /\ replies'[dsid] = reply /\ \A ds \in Stores \ {dsid} : replies'[ds] = replies[ds]
      BY <2>1, Zenon DEF Types
    <2>3. reply # "none" /\ dsid \in Group(at) /\ at \in DOMAIN List
      BY <2>1, Zenon DEF Merging, Places, Work
    <2>4. \A ds \in Stores : replies[ds] = "none" <=>
                 ds \in Rest(at + 1) \/ (ds \in Group(at) /\ ds >= dsid)
      BY <2>1, Zenon DEF Merging, Left, Work
    <2>5. dsid \notin Rest(at + 1)
      BY <2>3, RestFacts, Zenon
    <2>6. /\ outer \in Fine => \A ds \in Stores : replies'[ds] \in Fine \/ ds \in Group(at)
          /\ (Stops(rpc.op, rpc.erropt) \/ rpc.erropt = "rollback" => outer # "error")
      BY <2>1, <2>2, <2>3, Zenon DEF Merging, Work
    <2>7. inner \in Fine /\ reply \in Fine => \A ds \in Group(at) : replies'[ds] \in Fine
      BY <2>1, <2>2, <2>3, GroupFacts DEF Merging, Work
    <2>8. CASE List[at] = 0
      <3>1. /\ inner' = nc_reply_merge(inner, reply) /\ inner \in Replies /\ reply \in Replies
            /\ Group(at) = Internal
        BY <1>6, <2>3, <2>8, GroupFacts, Zenon DEF Merge, Types
      <3>2. /\ inner' # "none" /\ (inner' \in Fine => inner \in Fine /\ reply \in Fine)
            /\ (rpc.op \in WriteOps => inner' # "data" /\ reply # "data" /\ outer # "data")
        BY <2>3, <3>1, MergeFacts, Zenon DEF Merging
      <3>3. CASE dsid + 1 < internal_ds_count
        <4>1. dsid' = dsid + 1 /\ pc' = "operate" /\ reply' = reply
          BY <1>6, <2>8, <3>3, Zenon DEF Merge
        <4>2. \A ds \in Stores : replies'[ds] = "none" <=>
                 ds \in Rest(at + 1) \/ (ds \in Group(at) /\ ds >= dsid + 1)
          <5> SUFFICES ASSUME NEW ds \in Stores
                       PROVE  replies'[ds] = "none" <=>
                                ds \in Rest(at + 1) \/ (ds \in Group(at) /\ ds >= dsid + 1)
            BY Zenon
          <5>1. ds \in Int /\ dsid \in Int
            BY <2>1, ListFacts
          <5>2. CASE ds = dsid
            <6>1. ~(ds >= dsid + 1)
              BY <5>1, <5>2
            <6> QED BY <2>2, <2>3, <2>5, <5>2, <6>1, Zenon
          <5>3. CASE ds # dsid
            <6>1. ds >= dsid + 1 <=> ds >= dsid
              BY <5>1, <5>3
            <6>2. replies'[ds] = replies[ds]
              BY <2>2, <5>3, Zenon
            <6> QED BY <2>4, <6>1, <6>2, Zenon
          <5> QED BY <5>2, <5>3, Zenon
        <4> QED BY <2>1, <2>6, <2>7, <3>2, <4>1, <4>2, Zenon DEF Merging, Left, Work
      <3>4. CASE ~(dsid + 1 < internal_ds_count)
        <4>1. reply' = inner' /\ pc' = "return"
          BY <1>6, <2>8, <3>4, Zenon DEF Merge
        <4>2. \A ds \in Stores : replies'[ds] = "none" <=> ds \in Rest(at + 1)
          BY <2>1, <2>2, <2>3, <2>4, <2>5, <3>1, <3>4 DEF Internal
        <4> QED BY <2>1, <2>6, <2>7, <2>8, <3>2, <4>1, <4>2, Zenon DEF Merging, Left, Work
      <3> QED BY <3>3, <3>4, Zenon
    <2>9. CASE List[at] # 0
      <3>1. pc' = "return" /\ UNCHANGED <<dsid, reply, inner>>
        BY <1>6, <2>9, Zenon DEF Merge
      <3>2. Group(at) = {dsid} /\ List[at] = dsid
        <4>1. List[at] \notin Internal
          BY <2>1, <2>9, Zenon DEF Places, Work
        <4> QED BY <2>3, <4>1, GroupFacts
      <3>3. \A ds \in Stores : replies'[ds] = "none" <=> ds \in Rest(at + 1)
        BY <2>1, <2>2, <2>3, <2>4, <2>5, <3>2
      <3> QED BY <2>1, <2>2, <2>3, <2>6, <3>1, <3>2, <3>3 DEF Merging, Left, Work
    <2> QED BY <2>8, <2>9, Zenon
  <1>7. ASSUME NEW r \in Rpcs, Receive(r) PROVE Merging'
    <2>1. /\ pc = "idle" /\ pc' = "next" /\ reply' = "none" /\ inner' = "none" /\ outer' = "none"
          /\ UNCHANGED <<at, dsid, replies, outer>>
      BY <1>7, Zenon DEF Receive, Places, history
    <2> QED BY <2>1, Zenon DEF Merging, Left, Work, Fine
  <1>8. CASE SkipInternal
    <2>1. /\ pc = "next" /\ pc' = "next" /\ at' = at + 1 /\ at \in DOMAIN List /\ List[at] \in Internal \ {0}
          /\ UNCHANGED <<rpc, reply, inner, outer, replies>>
      BY <1>8 DEF SkipInternal, Types, Internal, history
    <2>2. \A ds : ds \in Rest(at) <=> ds \in Rest(at + 1)
      BY <2>1, RestFacts, GroupFacts, Zenon
    <2> QED BY <2>1, <2>2, Zenon DEF Merging, Left, Work
  <1>9. CASE NextStore
    <2>1. /\ pc = "next" /\ pc' = "operate" /\ at' = at /\ at \in DOMAIN List /\ List[at] \notin Internal \ {0}
          /\ dsid' = List[at] /\ inner' = "none" /\ UNCHANGED <<rpc, reply, outer, replies>>
      BY <1>9 DEF NextStore, Types, Internal, caller, history
    <2>2. \A ds \in Group(at) : ds \in Stores /\ ds >= List[at]
      BY <2>1, GroupFacts DEF Internal
    <2>3. \A ds : ds \in Rest(at) <=> ds \in Rest(at + 1) \/ (ds \in Group(at) /\ ds >= List[at])
      BY <2>1, <2>2, RestFacts, Zenon
    <2>4. \A ds \in Group(at) : replies[ds] = "none"
      BY <2>1, <2>2, <2>3, Zenon DEF Merging, Left
    <2> QED BY <2>1, <2>3, <2>4, Zenon DEF Merging, Left, Work, Fine
  <1>10. CASE Return
    <2>1. /\ pc = "return" /\ pc' \in {"replied", "rollback", "next"} /\ UNCHANGED <<rpc, inner, replies>>
          /\ outer' = nc_reply_merge(outer, reply) /\ reply' = outer' /\ at \in DOMAIN List
          /\ outer \in Replies /\ reply \in Replies
      BY <1>10, Zenon DEF Return, history, Places, Types
    <2>2. at' = IF pc' = "next" THEN at + 1 ELSE at
      BY <1>10, Zenon DEF Return
    <2>3. /\ outer' \in Fine => outer \in Fine /\ reply \in Fine
          /\ rpc.op \in WriteOps => outer' # "data" /\ inner # "data" /\ outer # "data"
      BY <2>1, MergeFacts, Zenon DEF Merging
    <2>4. \A ds \in Stores : replies[ds] = "none" <=> ds \in Rest(at + 1)
      BY <2>1, Zenon DEF Merging, Left, Work
    <2>5. outer' \in Fine => \A ds \in Stores : replies[ds] \in Fine
      BY <2>1, <2>3, Zenon DEF Merging, Work
    <2>6. pc' = "next" /\ (Stops(rpc.op, rpc.erropt) \/ rpc.erropt = "rollback") => outer' # "error"
      BY <1>10, <2>1, Zenon DEF Return
    <2>7. Stops(rpc.op, rpc.erropt) /\ rpc.op \in WriteOps =>
            \A ds \in Stores \ Group(at) : replies[ds] \in Fine
      BY <2>1, <2>3, Zenon DEF Merging, Work, Replies, Fine
    <2> QED BY <2>1, <2>2, <2>3, <2>4, <2>5, <2>6, <2>7, Zenon DEF Merging, Left, Work
  <1>11. CASE AllDone
    <2>1. /\ pc = "next" /\ pc' = "replied" /\ at = Len(List) + 1
          /\ UNCHANGED <<rpc, at, reply, inner, outer, replies>>
      BY <1>11 DEF AllDone, Types, caller, history
    <2>2. \A ds : ds \notin Rest(at) /\ ds \notin Rest(at + 1)
      BY <2>1, RestFacts
    <2> QED BY <2>1, <2>2, Zenon DEF Merging, Left, Work
  <1>12. CASE RollbackStore \/ UndoOnDevice \/ UndoRewritten
    <2>1. pc \in Undo /\ pc' \in Undo
      BY <1>12, Zenon DEF RollbackStore, UndoOnDevice, UndoRewritten, Undo
    <2>2. UNCHANGED <<rpc, at, reply, inner, outer, replies>>
      BY <1>12, Zenon DEF RollbackStore, UndoOnDevice, UndoRewritten, history
    <2> QED BY <2>1, <2>2, Zenon DEF Merging, Left, Work, Undo
  <1>13. CASE RolledBack
    <2>1. /\ pc = "rollback" /\ pc' = "replied" /\ rpc.erropt = "rollback"
          /\ UNCHANGED <<rpc, at, reply, inner, outer, replies>>
      BY <1>13, Zenon DEF RolledBack, Places, Undo, caller, history
    <2>2. ~(Stops(rpc.op, rpc.erropt) /\ rpc.op \in WriteOps)
      BY <2>1, Zenon DEF Stops, WriteOps, ReadOnlyOps
    <2> QED BY <2>1, <2>2, Zenon DEF Merging, Left, Work
  <1>14. CASE Replied
    <2>1. /\ pc' = "idle" /\ at' = 1 /\ reply' = "none" /\ inner' = "none" /\ outer' = "none"
          /\ \A ds \in Stores : replies'[ds] = "none"
      BY <1>14, LocalsType, Zenon DEF Replied
    <2> QED BY <2>1, RestFacts, Zenon DEF Merging, Left, Work, Fine
  <1>15. CASE UNCHANGED vars
    BY <1>15, Zenon DEF vars, Merging, Left
  <1> QED BY <1>1, <1>2, <1>3, <1>4, <1>5, <1>6, <1>7, <1>8, <1>9, <1>10, <1>11, <1>12, <1>13, <1>14,
             <1>15, ZenonT(40)
          DEF Next, ApplyOne, ApplyAll, ApplyOperation, Done

(***************************************************************************)
(* The documents                                                           *)
(***************************************************************************)
LEMMA SameRequest ==
  ASSUME rpc' = rpc
  PROVE  /\ Operation' = Operation /\ (StoreRequest' <=> StoreRequest)
         /\ \A ds : ChangesRunning(ds)' <=> ChangesRunning(ds)
  BY Zenon DEF Operation, FileRequest, StoreRequest, ChangesRunning

\* nothing happens to datastore ds
Same(ds) ==
  /\ rpc' = rpc /\ before' = before /\ doc'[ds] = doc[ds] /\ saved'[ds] = saved[ds]
  /\ ds \in Tapi => device'[ds] = device[ds]
  /\ ds \in strayed => ds \in strayed'
  /\ meddled => meddled'

LEMMA TellsKept ==
  ASSUME NEW ds \in Files, rpc' = rpc, before' = before, doc'[ds] = doc[ds]
  PROVE  /\ Unchanged(ds)' <=> Unchanged(ds)
         /\ Accepted(ds)' <=> Accepted(ds)
         /\ \A r : Tells(ds, r)' <=> Tells(ds, r)
         /\ Running(ds)' = Running(ds) /\ Old(ds)' = Old(ds)
PROOF
  <1>1. Unchanged(ds)' <=> Unchanged(ds)
    BY Zenon DEF Unchanged
  <1>2. Accepted(ds)' <=> Accepted(ds)
    BY SameRequest, Zenon DEF Accepted
  <1>3. \A r : Tells(ds, r)' <=> Tells(ds, r)
    BY <1>1, <1>2, SameRequest, Zenon DEF Tells
  <1> QED BY <1>1, <1>2, <1>3, Zenon DEF Running, Old

LEMMA AfterKept ==
  ASSUME NEW ds \in Files, Same(ds), NEW r, After(ds, r)
  PROVE  After(ds, r)'
PROOF
  <1>1. /\ Unchanged(ds)' <=> Unchanged(ds)
        /\ Tells(ds, r)' <=> Tells(ds, r)
        /\ Running(ds)' = Running(ds)
    BY TellsKept, Zenon DEF Same
  <1>2. Ready(ds)'
    BY <1>1, Zenon DEF Same, After, Ready
  <1>3. Undoable(ds)'
    BY <1>1, SameRequest, Zenon DEF Same, After, Undoable
  <1> QED BY <1>1, <1>2, <1>3, Zenon DEF Same, After

LEMMA OtherKept ==
  ASSUME NEW ds \in Files, Known(ds), Same(ds), replies'[ds] = replies[ds],
         ~Rolling, ~Rolling', ~Busy(ds), ~Busy(ds)'
  PROVE  Known(ds)'
PROOF
  <1>1. After(ds, replies[ds])
    BY Zenon DEF Known
  <1>2. \A r : replies[ds] = r => After(ds, r)'
    BY <1>1, AfterKept, Zenon
  <1>3. After(ds, replies[ds])'
    BY <1>2, Zenon
  <1> QED BY <1>3, Zenon DEF Known

\* Without :validate the library does not look at test-option, which then is no
\* part of the protocol either.
NoBlindTests == Validate \/ \A r \in Rpcs : r.testopt # "test-only"

LEMMA BetweenKnown ==
  ASSUME NEW ds \in Files, pc' \in Work \ {"operate"}, ds = dsid', Between(ds)'
  PROVE  Known(ds)'
  BY Zenon DEF Known, Busy, Rolling, Work, Undo

\* before the operation the datastore is as it was when the request came
LEMMA Untouched ==
  ASSUME Types, Places, Merging, Documents, pc = "operate", dsid \in Files
  PROVE  /\ Unchanged(dsid) /\ Running(dsid) = Old(dsid)
         /\ dsid \in Tapi \ strayed => device[dsid] \in {Old(dsid), {Mixed}}
         /\ ChangesRunning(dsid) => old = Old(dsid)
PROOF
  <1>1. After(dsid, replies[dsid])
    BY Zenon DEF Documents, Known, Rolling, Busy, Work, Undo
  <1>2. replies[dsid] = "none"
    <2>1. dsid \in Stores /\ dsid \in Nat /\ dsid \in Group(at)
      BY ListFacts, Zenon DEF Types, Places, Work
    <2> QED BY <2>1 DEF Merging, Left, Work
  <1>3. Unchanged(dsid) /\ Running(dsid) = Old(dsid)
    BY <1>1, <1>2, Zenon DEF After, Unchanged, Running, Old
  <1> QED BY <1>1, <1>3, Zenon DEF After, Ready, Places, Snapshot

LEMMA DocumentsQuiet ==
  ASSUME Types, Places, Merging, Documents, ApplyOperation, Quiet, dsid \in Files
  PROVE  Between(dsid)'
PROOF
  <1>1. UNCHANGED <<caller, dsid, old, rewrite, inner, history>> /\ pc = "operate"
    BY OperationKinds, Zenon
  <1>2. rpc' = rpc /\ before' = before /\ dsid' = dsid /\ strayed' = strayed /\ old' = old
    BY <1>1, Zenon DEF caller, history
  <1> DEFINE ds == dsid
  <1>3. /\ Unchanged(ds) /\ Running(ds) = Old(ds)
        /\ ds \in Tapi \ strayed => device[ds] \in {Old(ds), {Mixed}}
        /\ ChangesRunning(ds) => old = Old(ds)
    BY <1>1, Untouched, Zenon
  <1>4. /\ (Unchanged(ds)' <=> Unchanged(ds)) /\ Running(ds)' = Running(ds) /\ Old(ds)' = Old(ds)
        /\ (StoreRequest' <=> StoreRequest) /\ (ChangesRunning(ds)' <=> ChangesRunning(ds))
    BY <1>2, SameRequest, TellsKept, Zenon DEF Quiet
  <1>5. ChangesRunning(ds) => StoreRequest
    BY RpcFacts, Zenon DEF ChangesRunning, StoreRequest, WriteOps
  <1>6. StoreRequest => reply' \in {"na", "error"}
    BY Zenon DEF Quiet
  <1>7. Tells(ds, reply)'
    BY <1>3, <1>4, <1>6, Zenon DEF Tells
  <1>8. pc' = "transapi" /\ device' = device
    BY Zenon DEF Quiet
  <1> QED BY <1>2, <1>3, <1>4, <1>5, <1>6, <1>7, <1>8, Zenon DEF Between

LEMMA DocumentsLocking ==
  ASSUME Types, Places, Merging, Documents, ApplyOperation, Locking
  PROVE  Between(dsid)'
PROOF
  <1>1. UNCHANGED <<caller, dsid, old, rewrite, inner, history>> /\ pc = "operate"
    BY OperationKinds, Zenon
  <1>2. rpc' = rpc /\ before' = before /\ dsid' = dsid /\ strayed' = strayed /\ old' = old
    BY <1>1, Zenon DEF caller, history
  <1> DEFINE ds == dsid
             q == FileRequest(rpc.op, rpc.tg, rpc.tg, {})
  <1>3. /\ doc[ds] = before[ds] /\ Running(ds) = Old(ds)
        /\ ds \in Tapi \ strayed => device[ds] \in {Old(ds), {Mixed}}
    BY <1>1, Untouched, Zenon DEF Locking, Unchanged
  <1>4. ds \in Files /\ rpc.op \in {"lock", "unlock"} /\ pc' = "transapi" /\ Call(q)
    BY Zenon DEF Locking
  <1>5. PICK o \in Outcomes(doc[ds], q) :
          /\ doc' = [doc EXCEPT ![ds] = o.doc]
          /\ saved' = IF q.op \in StoreOps THEN [saved EXCEPT ![ds] = {doc[ds]}] ELSE saved
          /\ reply' = FileReply(o.reply) /\ device' = device
    BY <1>4, Zenon DEF Call
  <1>6. q.op \in {"lock", "unlock"} /\ q.tg \in Targets /\ q.sid \in Sessions
    BY <1>4, RpcFacts, Zenon DEF FileRequest
  <1>7. doc[ds] \in Doc
    BY <1>4, Zenon DEF Types
  <1>8. Outcomes(before[ds], Operation) = Outcomes(doc[ds], q)
    <2>1. Operation = FileRequest(rpc.op, rpc.tg, rpc.src, {})
      BY <1>4, Zenon DEF Operation
    <2>2. CASE rpc.op = "lock"
      BY <1>3, <2>1, <2>2, Zenon DEF Outcomes, ReadOps, FileRequest, ncds_file_lock
    <2>3. CASE rpc.op = "unlock"
      BY <1>3, <2>1, <2>3, Zenon DEF Outcomes, ReadOps, FileRequest, ncds_file_unlock
    <2> QED BY <1>4, <2>2, <2>3, Zenon
  <1> HIDE DEF q
  <1>9. /\ o.doc \in Doc /\ o.reply \in {"ok", "denied", "error"}
        /\ (o.reply # "ok" => o.doc = doc[ds]) /\ o.doc.cfg["running"] = doc[ds].cfg["running"]
    BY <1>5, <1>6, <1>7, LockOutcome
  <1>10. doc'[ds] = o.doc
    BY <1>4, <1>5, Zenon DEF Types
  <1>11. reply' = (IF o.reply = "ok" THEN "ok" ELSE "error")
    BY <1>5, <1>9, Zenon DEF FileReply
  <1>12. /\ Old(ds)' = Old(ds) /\ Running(ds)' = Old(ds)
         /\ Unchanged(ds)' <=> doc'[ds] = before[ds]
    BY <1>2, <1>3, <1>9, <1>10, Zenon DEF Old, Running, Unchanged
  <1>13. /\ o.reply = "ok" => Accepted(ds)'
         /\ o.reply # "ok" => Unchanged(ds)'
    BY <1>2, <1>3, <1>5, <1>8, <1>9, <1>10, <1>12, SameRequest, Zenon DEF Accepted
  <1>14. rpc.testopt = "notset" /\ rpc.erropt = "notset" /\ rpc.tg # "url"
    BY <1>4, RpcFacts, Zenon
  <1>15. StoreRequest' /\ ~ChangesRunning(ds)'
    BY <1>2, <1>4, <1>14, Zenon DEF StoreRequest, ChangesRunning, WriteOps
  <1>16. Tells(ds, reply)'
    BY <1>2, <1>11, <1>13, <1>14, <1>15, Zenon DEF Tells
  <1> QED BY <1>2, <1>3, <1>4, <1>5, <1>12, <1>14, <1>15, <1>16, Zenon DEF Between

LEMMA DocumentsStoring ==
  ASSUME NoBlindTests, Types, Places, Merging, Documents, ApplyOperation, Storing
  PROVE  Between(dsid)'
PROOF
  <1>1. UNCHANGED <<caller, dsid, old, rewrite, inner, history>> /\ pc = "operate"
    BY OperationKinds, Zenon
  <1>2. rpc' = rpc /\ before' = before /\ dsid' = dsid /\ strayed' = strayed /\ old' = old
    BY <1>1, Zenon DEF caller, history
  <1> DEFINE ds == dsid
  <1>3. /\ doc[ds] = before[ds] /\ Running(ds) = Old(ds)
        /\ ds \in Tapi \ strayed => device[ds] \in {Old(ds), {Mixed}}
        /\ ChangesRunning(ds) => old = Old(ds)
    BY <1>1, Untouched, Zenon DEF Storing, Unchanged
  <1>4. PICK q \in StoreRequests :
          /\ Call(q) /\ Outcomes(doc[dsid], q) = Outcomes(doc[dsid], Operation)
          /\ q.sid = rpc.sid /\ (q.op = "editconfig" <=> rpc.op = "editconfig")
          /\ rpc.op = "editconfig" => q.tg = rpc.tg
          /\ q.tg = "running" <=> rpc.tg = "running" /\ rpc.op \in {"commit", "copyconfig", "editconfig"}
    BY Zenon DEF Storing
  <1>5. PICK o \in Outcomes(doc[ds], q) :
          /\ doc' = [doc EXCEPT ![ds] = o.doc]
          /\ saved' = IF q.op \in StoreOps THEN [saved EXCEPT ![ds] = {doc[ds]}] ELSE saved
          /\ reply' = FileReply(o.reply) /\ device' = device
    BY <1>4, Zenon DEF Call
  <1>6. /\ ds \in Files /\ StoreRequest /\ doc[ds] \in Doc /\ q.op \in StoreOps
        /\ pc' = IF rpc.op = "editconfig" THEN ToValidation(reply') ELSE "transapi"
    BY Zenon DEF Storing, Types, StoreRequests
  <1>7. /\ o.doc \in Doc /\ o.reply \in Success \cup {"denied", "error"}
        /\ o.reply \notin Success => o.doc = doc[ds]
        /\ o.reply \in Success =>
             /\ file_ds_access(doc[ds], q.tg, q.sid) /\ o.doc.lock = doc[ds].lock
             /\ IF q.tg = "running"
                THEN \E c \in SUBSET Nodes : o.doc = [doc[ds] EXCEPT !.cfg["running"] = c]
                ELSE o.doc.cfg["running"] = doc[ds].cfg["running"]
        /\ o.reply = "notapplicable" /\ q.tg = "running" => o.doc = doc[ds]
        /\ o.reply = "notapplicable" => q.op # "editconfig"
    BY <1>6, StoreOutcome, Zenon
  <1>8. doc'[ds] = o.doc /\ saved'[ds] = {before[ds]}
    BY <1>3, <1>5, <1>6, <1>7, CallEffect, Zenon
  <1>9. reply' = CASE o.reply = "ok" -> "ok" [] o.reply = "notapplicable" -> "na" [] OTHER -> "error"
    BY <1>5, Zenon DEF FileReply
  <1>10. /\ Old(ds)' = Old(ds) /\ before'[ds] = before[ds]
         /\ Unchanged(ds)' <=> doc'[ds] = before[ds]
         /\ (StoreRequest' <=> StoreRequest) /\ (ChangesRunning(ds)' <=> ChangesRunning(ds))
    BY <1>2, SameRequest, Zenon DEF Old, Unchanged
  <1>11. o.reply \in Success => Accepted(ds)'
    BY <1>2, <1>3, <1>4, <1>5, <1>8, SameRequest, Zenon DEF Accepted, Success
  <1>12. o.reply \notin Success => Unchanged(ds)'
    BY <1>3, <1>7, <1>8, <1>10, Zenon
  <1>13. o.reply \in Success =>
           /\ doc'[ds].lock = before[ds].lock /\ file_ds_access(doc'[ds], q.tg, rpc.sid)
           /\ IF q.tg = "running" THEN NewRunning(ds)' = doc'[ds] ELSE Running(ds)' = Old(ds)
    <2>1. ASSUME o.reply \in Success PROVE doc'[ds].lock = before[ds].lock /\ file_ds_access(doc'[ds], q.tg, rpc.sid)
      BY <1>3, <1>4, <1>7, <1>8, <2>1, Zenon DEF file_ds_access
    <2>2. ASSUME o.reply \in Success, q.tg # "running" PROVE Running(ds)' = Old(ds)
      BY <1>2, <1>3, <1>7, <1>8, <2>2, Zenon DEF Running, Old
    <2>3. ASSUME o.reply \in Success, q.tg = "running" PROVE NewRunning(ds)' = doc'[ds]
      <3>1. PICK c \in SUBSET Nodes : o.doc = [doc[ds] EXCEPT !.cfg["running"] = c]
        BY <1>7, <2>3, Zenon
      <3>2. doc[ds].cfg \in [Targets -> SUBSET Nodes] /\ "running" \in Targets
        BY <1>6, DocsAssumption, Zenon DEF Doc
      <3>3. o.doc.cfg["running"] = c
        BY <1>6, <3>1, <3>2, Zenon DEF Doc
      <3>4. NewRunning(ds)' = [before[ds] EXCEPT !.cfg["running"] = o.doc.cfg["running"]]
        BY <1>2, <1>8, <1>10, Zenon DEF NewRunning, Running
      <3> QED BY <1>3, <1>8, <3>1, <3>3, <3>4, Zenon
    <2> QED BY <2>1, <2>2, <2>3, Zenon
  <1>14. CASE pc' = "validation"
    <2>1. rpc.op = "editconfig" /\ reply' = "ok"
      BY <1>6, <1>14, Zenon DEF ToValidation
    <2>2. o.reply = "ok" /\ q.tg = rpc.tg
      BY <1>4, <1>7, <1>9, <2>1, Zenon DEF Success
    <2> QED BY <1>2, <1>3, <1>5, <1>8, <1>10, <1>11, <1>13, <1>14, <2>1, <2>2, Zenon DEF Between, Success
  <1>15. CASE pc' # "validation"
    <2>1. pc' = "transapi"
      BY <1>6, <1>15, Zenon DEF ToValidation
    <2>2. rpc.testopt = "test-only" => rpc.op = "editconfig" /\ o.reply \notin Success
      <3>1. rpc.testopt = "test-only" => rpc.op = "editconfig" /\ Validate
        BY RpcFacts, Zenon DEF NoBlindTests, Types
      <3>2. rpc.testopt = "test-only" => reply' # "ok"
        BY <1>6, <1>15, <3>1, Zenon DEF ToValidation
      <3> QED BY <1>4, <1>7, <1>9, <3>1, <3>2, Zenon DEF Success
    <2>3. Tells(ds, reply)'
      <3>1. reply' = "ok" \/ reply' = "na" <=> o.reply \in Success
        BY <1>9, Zenon DEF Success
      <3> QED BY <1>2, <1>6, <1>10, <1>11, <1>12, <2>2, <3>1, Zenon DEF Tells
    <2>4. ~Unchanged(ds)' => saved'[ds] = {before[ds]} /\ doc'[ds].lock = before[ds].lock
      BY <1>8, <1>12, <1>13, Zenon
    <2>5. ChangesRunning(ds) => q.tg = "running"
      BY <1>4, Zenon DEF ChangesRunning
    <2>6. ChangesRunning(ds) /\ reply' = "ok" =>
            doc'[ds] = NewRunning(ds)' /\ file_ds_access(doc'[ds], "running", rpc.sid)
      BY <1>9, <1>13, <2>5, Zenon DEF Success
    <2>7. ChangesRunning(ds) /\ reply' # "ok" => Unchanged(ds)'
      BY <1>3, <1>7, <1>8, <1>9, <1>10, <2>5, Zenon DEF Success
    <2>8. ds \in Tapi /\ ~ChangesRunning(ds) => Running(ds)' = Old(ds)
      <3>1. CASE o.reply \notin Success
        BY <1>12, <3>1, <1>10, Zenon DEF Running, Old, Unchanged
      <3>2. CASE o.reply \in Success
        BY <1>4, <1>13, <2>2, <3>2, Zenon DEF ChangesRunning
      <3> QED BY <3>1, <3>2, Zenon
    <2> HIDE DEF ds
    <2> QED BY <1>2, <1>3, <1>5, <1>8, <1>10, <2>1, <2>3, <2>4, <2>6, <2>7, <2>8, Zenon DEF Between, ds
  <1> QED BY <1>14, <1>15, Zenon

LEMMA DocumentsOperation ==
  ASSUME NoBlindTests, Types, Places, Merging, Documents, ApplyOperation
  PROVE  Documents'
PROOF
  <1> SUFFICES ASSUME NEW ds \in Files PROVE Known(ds)'
    BY Zenon DEF Documents
  <1>1. UNCHANGED <<caller, dsid, old, rewrite, inner, history>> /\ pc = "operate"
    BY OperationKinds, Zenon
  <1>2. pc' \in {"validation", "transapi"}
    BY OperationEffect, Zenon
  <1>3. CASE ds = dsid
    <2>1. Between(dsid)'
      BY <1>3, OperationKinds, DocumentsQuiet, DocumentsLocking, DocumentsStoring, Zenon
    <2>2. Between(ds)'
      BY <1>1, <1>3, <2>1, Zenon
    <2> QED BY <1>1, <1>2, <1>3, <2>2, BetweenKnown, Zenon DEF Work
  <1>4. CASE ds # dsid
    <2>1. Same(ds) /\ replies' = replies
      BY <1>1, <1>4, OperationEffect, Zenon DEF Same, caller, history
    <2>2. ~Rolling /\ ~Rolling' /\ ~Busy(ds) /\ ~Busy(ds)'
      BY <1>1, <1>2, <1>4, Zenon DEF Rolling, Busy, Work, Undo
    <2> QED BY <2>1, <2>2, OtherKept, Zenon DEF Documents
  <1> QED BY <1>3, <1>4, Zenon

LEMMA BusyBetween ==
  ASSUME Documents, pc \in Work \ {"operate"}, dsid \in Files
  PROVE  Between(dsid)
  BY Zenon DEF Documents, Known, Busy

\* In a step within ncds_apply_rpc the other datastores stay as they are.
LEMMA OthersStay ==
  ASSUME Documents, pc \in Work, pc' \in Work \ {"operate"}, dsid' = dsid, replies' = replies,
         \A ds \in Files \ {dsid} : Same(ds),
         dsid \in Files => Between(dsid)'
  PROVE  Documents'
PROOF
  <1> SUFFICES ASSUME NEW ds \in Files PROVE Known(ds)'
    BY Zenon DEF Documents
  <1>1. CASE ds = dsid
    <2>1. Between(ds)'
      BY <1>1, Zenon
    <2> QED BY <1>1, <2>1, BetweenKnown, Zenon
  <1>2. CASE ds # dsid
    <2>1. ~Rolling /\ ~Rolling' /\ ~Busy(ds) /\ ~Busy(ds)'
      BY <1>2, Zenon DEF Rolling, Busy, Work, Undo
    <2> QED BY <1>2, <2>1, OtherKept, Zenon DEF Documents
  <1> QED BY <1>1, <1>2, Zenon

LEMMA DocumentsValidated ==
  ASSUME Types, Places, Merging, Documents, EditValidated
  PROVE  Documents'
PROOF
  <1>1. /\ rpc' = rpc /\ before' = before /\ dsid' = dsid /\ strayed' = strayed /\ old' = old
        /\ device' = device /\ replies' = replies /\ meddled' = meddled
        /\ pc = "validation" /\ pc' = "transapi"
    BY Zenon DEF EditValidated, caller, history
  <1>2. PICK valid \in BOOLEAN :
          /\ reply' = IF valid THEN "ok" ELSE "error"
          /\ IF rpc.testopt = "test-only" \/ ~valid THEN Restore(dsid) ELSE UNCHANGED <<doc, saved>>
    BY Zenon DEF EditValidated
  <1>3. \A ds \in Files \ {dsid} : Same(ds)
    BY <1>1, <1>2, RestoreEffect, Zenon DEF Same
  <1>4. ASSUME dsid \in Files PROVE Between(dsid)'
    <2> DEFINE ds == dsid
    <2>1. Between(ds)
      BY <1>1, <1>4, BusyBetween, Zenon DEF Work
    <2>2. /\ ds \in Tapi \ strayed => device[ds] \in {Old(ds), {Mixed}}
          /\ ChangesRunning(ds) => old = Old(ds)
          /\ rpc.op = "editconfig" /\ reply = "ok" /\ saved[ds] = {before[ds]} /\ Accepted(ds)
          /\ doc[ds].lock = before[ds].lock /\ file_ds_access(doc[ds], rpc.tg, rpc.sid)
          /\ IF rpc.tg = "running" THEN doc[ds] = NewRunning(ds) ELSE Running(ds) = Old(ds)
      BY <1>1, <2>1, Zenon DEF Between
    <2>3. /\ Old(ds)' = Old(ds) /\ before'[ds] = before[ds]
          /\ (StoreRequest' <=> StoreRequest) /\ (ChangesRunning(ds)' <=> ChangesRunning(ds))
          /\ Unchanged(ds)' <=> doc'[ds] = before[ds]
      BY <1>1, SameRequest, Zenon DEF Old, Unchanged
    <2>4. CASE rpc.testopt = "test-only" \/ ~valid
      <3>1. doc'[ds] = before[ds]
        BY <1>2, <1>4, <2>2, <2>4, RestoreEffect
      <3>2. Unchanged(ds)' /\ Running(ds)' = Old(ds)
        BY <1>1, <2>3, <3>1, Zenon DEF Running, Old
      <3>3. ChangesRunning(ds) => reply' = "error"
        BY <1>2, <2>4, Zenon DEF ChangesRunning
      <3>4. Tells(ds, reply)'
        BY <1>1, <1>2, <2>4, <3>2, Zenon DEF Tells
      <3> QED BY <1>1, <2>2, <2>3, <3>2, <3>3, <3>4, Zenon DEF Between
    <2>5. CASE ~(rpc.testopt = "test-only" \/ ~valid)
      <3>1. UNCHANGED <<doc, saved>> /\ reply' = "ok" /\ StoreRequest
        BY <1>2, <2>2, <2>5, RpcFacts, Zenon DEF StoreRequest, WriteOps
      <3>2. /\ Accepted(ds)' /\ (Unchanged(ds)' <=> Unchanged(ds)) /\ Running(ds)' = Running(ds)
        BY <1>1, <1>4, <2>2, <3>1, TellsKept, Zenon
      <3>3. Tells(ds, reply)'
        BY <1>1, <2>3, <2>5, <3>1, <3>2, Zenon DEF Tells
      <3>4. NewRunning(ds)' = NewRunning(ds)
        BY <1>1, <3>1, Zenon DEF NewRunning, Running
      <3>5. ChangesRunning(ds) => rpc.tg = "running"
        BY Zenon DEF ChangesRunning
      <3>6. ds \in Tapi /\ ~ChangesRunning(ds) => rpc.tg # "running"
        BY <2>2, <2>5, Zenon DEF ChangesRunning
      <3> QED BY <1>1, <2>2, <2>3, <3>1, <3>2, <3>3, <3>4, <3>5, <3>6, Zenon DEF Between
    <2> QED BY <2>4, <2>5, Zenon
  <1> QED BY <1>1, <1>3, <1>4, OthersStay, Zenon DEF Work

LEMMA DocumentsNoTransapi ==
  ASSUME Types, Places, Merging, Documents, NoTransapi
  PROVE  Documents'
PROOF
  <1>1. /\ rpc' = rpc /\ before' = before /\ dsid' = dsid /\ strayed' = strayed
        /\ device' = device /\ replies' = replies /\ meddled' = meddled /\ doc' = doc /\ saved' = saved
        /\ pc = "transapi" /\ pc' = "merge" /\ reply' = reply /\ ~(ChangesRunning(dsid) /\ reply = "ok")
    BY Zenon DEF NoTransapi, stores, caller, history
  <1>2. \A ds \in Files \ {dsid} : Same(ds)
    BY <1>1, Zenon DEF Same
  <1>3. ASSUME dsid \in Files PROVE Between(dsid)'
    <2> DEFINE ds == dsid
    <2>1. Between(ds)
      BY <1>1, <1>3, BusyBetween, Zenon DEF Work
    <2>2. /\ ds \in Tapi \ strayed => device[ds] \in {Old(ds), {Mixed}}
          /\ Tells(ds, reply)
          /\ rpc.erropt = "rollback" /\ ~Unchanged(ds) =>
               saved[ds] = {before[ds]} /\ doc[ds].lock = before[ds].lock
          /\ ChangesRunning(ds) => Unchanged(ds)
          /\ ds \in Tapi /\ ~ChangesRunning(ds) => Running(ds) = Old(ds)
      BY <1>1, <2>1, Zenon DEF Between
    <2>3. before[ds] \in Doc
      BY <1>3, Zenon DEF Types
    <2>4. reply # "none"
      BY <1>1, Zenon DEF Merging, Work
    <2>5. Ready(ds)
      BY <2>2, Zenon DEF Ready, Unchanged, Running, Old
    <2>6. Undoable(ds)
      BY <2>2, <2>3, Zenon DEF Undoable, Old
    <2>7. After(ds, reply)
      BY <2>2, <2>4, <2>5, <2>6, Zenon DEF After
    <2>8. \A r : r = reply => After(ds, r)'
      <3>1. Same(ds)
        BY <1>1, Zenon DEF Same
      <3>2. \A e \in Files : Same(e) => \A r : After(e, r) => After(e, r)'
        BY AfterKept, Zenon
      <3>3. \A e \in Files : e = ds => \A r : r = reply => After(e, r)'
        BY <2>7, <3>1, <3>2, Zenon
      <3> QED BY <1>1, <1>3, <3>3, Zenon
    <2>9. After(ds, reply)'
      BY <1>1, <2>8, Zenon
    <2> QED BY <1>1, <2>9, Zenon DEF Between
  <1> QED BY <1>1, <1>2, <1>3, OthersStay, Zenon DEF Work

\* The device gets the change, or the document is about to be rewritten.
LEMMA DocumentsRunningChanged ==
  ASSUME Types, Places, Merging, Documents, RunningChanged
  PROVE  Documents'
PROOF
  <1> DEFINE ds == dsid
  <1>1. /\ rpc' = rpc /\ before' = before /\ dsid' = dsid /\ strayed' = strayed /\ old' = old
        /\ replies' = replies /\ pc = "transapi" /\ ChangesRunning(ds) /\ reply = "ok"
        /\ pc' = IF rewrite' = {} THEN "merge" ELSE "rewrite"
    BY Zenon DEF RunningChanged, caller
  <1>2. PICK o \in [ret : BOOLEAN, dev : DeviceStates] :
          /\ Callbacks(ds, old, Running(ds), Erropt, o)
          /\ reply' = IF o.ret THEN "error" ELSE "ok"
          /\ IF o.ret /\ Erropt = "rollback" THEN Restore(ds) ELSE UNCHANGED <<doc, saved>>
    BY Zenon DEF RunningChanged
  <1>3. ds \in Tapi /\ ds \in Files /\ rpc.testopt # "test-only" /\ StoreRequest
    BY <1>1, ListFacts, Zenon DEF ChangesRunning, StoreRequest, WriteOps
  <1>4. old \in SUBSET Nodes /\ Running(ds) \in SUBSET Nodes /\ before[ds] \in Doc
    BY <1>3, RunningType, Zenon DEF Types
  <1>5. Between(ds)
    BY <1>1, <1>3, BusyBetween, Zenon DEF Work
  <1>6. /\ ds \in Tapi \ strayed => device[ds] \in {Old(ds), {Mixed}}
        /\ old = Old(ds) /\ Accepted(ds)
        /\ saved[ds] = {before[ds]} /\ doc[ds] = NewRunning(ds)
        /\ file_ds_access(doc[ds], "running", rpc.sid)
    BY <1>1, <1>3, <1>5, Zenon DEF Between, Tells
  <1>7. doc[ds].lock = before[ds].lock
    BY <1>4, <1>6, Zenon DEF NewRunning, Doc
  <1>8. /\ \A e \in Tapi \ {ds} : device'[e] = device[e]
        /\ meddled => meddled'
    BY <1>2, <1>3, <1>4, CallbacksEffect, Zenon
  <1>9. \A e \in Files \ {ds} : Same(e)
    BY <1>1, <1>2, <1>8, RestoreEffect, Zenon DEF Same
  <1>10. ChangesRunning(ds)' /\ StoreRequest' /\ Old(ds)' = Old(ds) /\ before'[ds] = before[ds]
    BY <1>1, <1>3, SameRequest, Zenon DEF Old
  <1>11. CASE ~o.ret /\ rewrite' = {} /\ device'[ds] \in {Running(ds), {Mixed}}
    <2>1. UNCHANGED <<doc, saved>> /\ reply' = "ok" /\ pc' = "merge"
      BY <1>1, <1>2, <1>11, Zenon
    <2>2. Accepted(ds)' /\ Running(ds)' = Running(ds)
      BY <1>1, <1>3, <1>6, <2>1, TellsKept, Zenon
    <2>3. Tells(ds, reply)'
      BY <1>1, <1>3, <1>10, <2>1, <2>2, Zenon DEF Tells
    <2>4. Ready(ds)'
      BY <1>1, <1>11, <2>2, Zenon DEF Ready
    <2>5. Undoable(ds)'
      BY <1>1, <1>4, <1>6, <1>7, <1>10, <2>1, Zenon DEF Undoable
    <2>6. After(ds, reply)'
      BY <2>1, <2>3, <2>4, <2>5, Zenon DEF After
    <2> QED BY <2>1, <2>6, <1>1, <1>9, OthersStay, Zenon DEF Between, Work
  <1>12. CASE o.ret /\ rewrite' = {old} /\ device'[ds] \in {device[ds], {Mixed}}
    <2>1. reply' = "error" /\ pc' = "rewrite"
      BY <1>1, <1>2, <1>12, Zenon
    <2>2. /\ doc'[ds] \in {doc[ds], before[ds]} /\ doc'[ds].lock = before[ds].lock
          /\ file_ds_access(doc'[ds], "running", rpc.sid)
      <3>1. CASE Erropt = "rollback"
        <4>1. doc'[ds] = before[ds]
          BY <1>2, <1>3, <1>6, <1>12, <3>1, RestoreEffect, Zenon
        <4> QED BY <1>6, <1>7, <4>1, Zenon DEF file_ds_access
      <3>2. CASE Erropt # "rollback"
        BY <1>2, <1>6, <1>7, <3>2, Zenon
      <3> QED BY <3>1, <3>2, Zenon
    <2>3. doc'[ds] = NewRunning(ds)'
      <3>1. NewRunning(ds)' = [before[ds] EXCEPT !.cfg["running"] = doc'[ds].cfg["running"]]
        BY <1>1, Zenon DEF NewRunning, Running
      <3>2. before[ds] = [before[ds] EXCEPT !.cfg["running"] = before[ds].cfg["running"]]
        BY <1>4, Zenon DEF Doc
      <3>3. CASE doc'[ds] = before[ds]
        BY <3>1, <3>2, <3>3, Zenon
      <3>4. CASE doc'[ds] = doc[ds]
        BY <1>6, <3>1, <3>4, Zenon DEF NewRunning, Running
      <3> QED BY <2>2, <3>3, <3>4, Zenon
    <2>4. Between(ds)'
      BY <1>1, <1>3, <1>6, <1>10, <1>12, <2>1, <2>2, <2>3, Zenon DEF Between
    <2> QED BY <2>1, <2>4, <1>1, <1>9, OthersStay, Zenon DEF Work
  <1>13. CASE /\ ~o.ret /\ meddled' = TRUE
              /\ \E c \in SUBSET Nodes : rewrite' = {c} /\ device'[ds] \in {c, {Mixed}}
    <2>1. reply' = "ok" /\ pc' = "rewrite" /\ UNCHANGED <<doc, saved>>
      BY <1>1, <1>2, <1>13, Zenon
    <2>2. doc'[ds] = NewRunning(ds)'
      BY <1>1, <1>6, <2>1, Zenon DEF NewRunning, Running
    <2>3. Between(ds)'
      BY <1>1, <1>6, <1>10, <1>13, <2>1, <2>2, Zenon DEF Between
    <2> QED BY <2>1, <2>3, <1>1, <1>9, OthersStay, Zenon DEF Work
  <1> QED BY <1>2, <1>3, <1>4, <1>11, <1>12, <1>13, CallbacksEffect, Zenon

LEMMA DocumentsRewrite ==
  ASSUME Types, Places, Merging, Documents, Rewrite
  PROVE  Documents'
PROOF
  <1> DEFINE ds == dsid
  <1>1. /\ rpc' = rpc /\ before' = before /\ dsid' = dsid /\ strayed' = strayed /\ meddled' = meddled
        /\ device' = device /\ replies' = replies /\ pc = "rewrite" /\ reply' = reply /\ pc' = "merge"
    BY Zenon DEF Rewrite, caller, history
  <1>2. PICK c \in SUBSET Nodes : rewrite = {c}
    BY <1>1, Zenon DEF Places
  <1>3. ds \in Files /\ ChangesRunning(ds) /\ reply # "none"
    BY <1>1, ListFacts, Zenon DEF Places, ChangesRunning, Merging, Work
  <1>4. Between(ds)
    BY <1>1, <1>3, BusyBetween, Zenon DEF Work
  <1>5. /\ doc[ds] = NewRunning(ds) /\ file_ds_access(doc[ds], "running", rpc.sid)
        /\ ds \notin strayed => device[ds] \in {c, {Mixed}}
        /\ reply = "error" => c = Old(ds)
        /\ reply # "error" => meddled
    BY <1>1, <1>2, <1>4, Zenon DEF Between
  <1>6. /\ \A e \in Files \ {ds} : doc'[e] = doc[e] /\ saved'[e] = saved[e]
        /\ saved'[ds] = {doc[ds]} /\ doc'[ds] = [doc[ds] EXCEPT !.cfg["running"] = c]
    BY <1>2, <1>3, <1>5, RewrittenEffect, Zenon DEF Rewrite
  <1>7. before[ds] \in Doc /\ doc[ds] \in Doc /\ "running" \in Targets
    BY <1>3, DocsAssumption, Zenon DEF Types
  <1>8. /\ doc'[ds].lock = doc[ds].lock /\ Running(ds)' = c
        /\ doc'[ds] = [before[ds] EXCEPT !.cfg["running"] = c]
    <2>1. doc[ds].cfg \in [Targets -> SUBSET Nodes] /\ before[ds].cfg \in [Targets -> SUBSET Nodes]
      BY <1>7, Zenon DEF Doc
    <2>2. doc'[ds].lock = doc[ds].lock /\ doc'[ds].cfg["running"] = c
      BY <1>6, <1>7, <2>1, Zenon DEF Doc
    <2>3. doc'[ds] = [before[ds] EXCEPT !.cfg["running"] = c]
      <3> DEFINE d == before[ds]
                 e == doc[ds]
                 f == doc'[ds]
                 x == Running(ds)
      <3>1. d \in Doc /\ e = [d EXCEPT !.cfg["running"] = x] /\ f = [e EXCEPT !.cfg["running"] = c]
        BY <1>5, <1>6, <1>7, Zenon DEF NewRunning
      <3> HIDE DEF d, e, f, x
      <3>2. d.cfg \in [Targets -> SUBSET Nodes]
        BY <3>1, Zenon DEF Doc
      <3>3. [[d.cfg EXCEPT !["running"] = x] EXCEPT !["running"] = c] = [d.cfg EXCEPT !["running"] = c]
        BY <3>2, Zenon
      <3>4. f = [d EXCEPT !.cfg["running"] = c]
        BY <3>1, <3>3, Zenon DEF Doc
      <3> QED BY <3>4, Zenon DEF d, f
    <2> QED BY <1>1, <2>2, <2>3, Zenon DEF Running
  <1>9. reply = "error" => Unchanged(ds)'
    <2>1. before[ds] = [before[ds] EXCEPT !.cfg["running"] = before[ds].cfg["running"]]
      BY <1>7, Zenon DEF Doc
    <2> QED BY <1>1, <1>5, <1>8, <2>1, Zenon DEF Unchanged, Old
  <1>10. ~meddled => Tells(ds, reply)'
    BY <1>1, <1>5, <1>9, Zenon DEF Tells
  <1>11. Ready(ds)'
    BY <1>1, <1>5, <1>8, Zenon DEF Ready
  <1>12. Undoable(ds)'
    <2>1. file_ds_access(doc'[ds], "running", rpc.sid)
      BY <1>5, <1>8, Zenon DEF file_ds_access
    <2> QED BY <1>1, <1>3, <1>5, <1>6, <1>7, <1>8, <1>9, <2>1, SameRequest, Zenon DEF Undoable
  <1>13. Between(ds)'
    BY <1>1, <1>3, <1>10, <1>11, <1>12, Zenon DEF Between, After
  <1>14. \A e \in Files \ {ds} : Same(e)
    BY <1>1, <1>6, Zenon DEF Same
  <1> QED BY <1>1, <1>13, <1>14, OthersStay, Zenon DEF Work

LEMMA DocumentsMerge ==
  ASSUME Types, Places, Merging, Documents, Merge
  PROVE  Documents'
PROOF
  <1> SUFFICES ASSUME NEW ds \in Files PROVE Known(ds)'
    BY Zenon DEF Documents
  <1>1. /\ UNCHANGED <<doc, saved, device, rpc, before, strayed, meddled>> /\ pc = "merge"
        /\ pc' \in {"operate", "return"} /\ replies' = [replies EXCEPT ![dsid] = reply]
    BY Zenon DEF Merge, stores, caller
  <1>2. Same(ds) /\ ~Rolling /\ ~Rolling' /\ ~Busy(ds)'
    BY <1>1, Zenon DEF Same, Rolling, Busy, Work, Undo
  <1>3. CASE ds = dsid
    <2>1. After(ds, reply)
      BY <1>1, <1>3, BusyBetween, Zenon DEF Between, Work
    <2>2. replies'[ds] = reply
      BY <1>1, <1>3, Zenon DEF Types
    <2>3. \A r : r = reply => After(ds, r)'
      BY <1>2, <2>1, AfterKept, Zenon
    <2>4. After(ds, replies[ds])'
      BY <2>2, <2>3, Zenon
    <2> QED BY <1>2, <2>4, Zenon DEF Known
  <1>4. CASE ds # dsid
    <2>1. replies'[ds] = replies[ds] /\ ~Busy(ds)
      BY <1>1, <1>4, ListFacts, Zenon DEF Types, Busy
    <2> QED BY <1>2, <2>1, OtherKept, Zenon DEF Documents
  <1> QED BY <1>3, <1>4, Zenon

\* Steps that only move on in the list of datastores.
LEMMA DocumentsMove ==
  ASSUME Types, Places, Merging, Documents, SkipInternal \/ NextStore \/ AllDone
  PROVE  Documents'
PROOF
  <1> SUFFICES ASSUME NEW ds \in Files PROVE Known(ds)'
    BY Zenon DEF Documents
  <1>1. UNCHANGED <<doc, saved, device, rpc, before, strayed, meddled, replies, outer>> /\ pc = "next"
    BY Zenon DEF SkipInternal, NextStore, AllDone, stores, caller, history
  <1>2. pc' \in {"next", "operate", "replied"}
    BY Zenon DEF SkipInternal, NextStore, AllDone
  <1>3. ~(outer = "error" /\ rpc.erropt = "rollback")
    BY <1>1, Zenon DEF Merging
  <1>4. Same(ds) /\ ~Rolling /\ ~Rolling' /\ ~Busy(ds) /\ ~Busy(ds)'
    BY <1>1, <1>2, <1>3, Zenon DEF Same, Rolling, Busy, Work, Undo
  <1> QED BY <1>1, <1>4, OtherKept, Zenon DEF Documents

LEMMA DocumentsReceive ==
  ASSUME Types, Places, Merging, Documents, NEW r \in Rpcs, Receive(r)
  PROVE  Documents'
PROOF
  <1> SUFFICES ASSUME NEW ds \in Files PROVE Known(ds)'
    BY Zenon DEF Documents
  <1>1. UNCHANGED <<doc, saved, device, before, strayed, meddled, replies>> /\ pc = "idle" /\ pc' = "next"
    BY Zenon DEF Receive, stores, history
  <1>2. ~Rolling /\ ~Rolling' /\ ~Busy(ds) /\ ~Busy(ds)'
    BY <1>1, Zenon DEF Rolling, Busy, Work, Undo
  <1>3. replies[ds] = "none"
    BY <1>1, ListFacts, RestFacts, Zenon DEF Merging, Left, Places
  <1>4. doc[ds] = before[ds] /\ Ready(ds)
    BY <1>1, <1>2, Zenon DEF Documents, Known, After, Places
  <1>5. Unchanged(ds)' /\ Ready(ds)'
    BY <1>1, <1>4, Zenon DEF Unchanged, Ready, Running
  <1>6. After(ds, "none")'
    BY <1>5, Zenon DEF After, Tells, Undoable
  <1>7. After(ds, replies[ds])'
    BY <1>1, <1>3, <1>6, Zenon
  <1> QED BY <1>2, <1>7, Zenon DEF Known

\* a datastore that is not before the one that failed is as before
LEMMA NotYetChanged ==
  ASSUME Types, Places, Merging, pc = "return", rpc.erropt = "rollback",
         nc_reply_merge(outer, reply) = "error",
         NEW ds \in Files, ~\E i \in 1..(at - 1) : ds = List[i]
  PROVE  replies[ds] \in {"none", "error"}
PROOF
  <1>1. PICK i \in DOMAIN List : ds = List[i]
    BY ListFacts DEF Stores
  <1>2. at \in DOMAIN List /\ at \in Nat /\ i \in Nat /\ i >= at /\ List[at] \notin Internal \ {0}
    BY <1>1, ListFacts DEF Places, Types
  <1>3. CASE i = at
    <2>1. List[at] # 0 /\ reply = replies[ds] /\ reply # "none"
      BY <1>1, <1>3, ListFacts, Zenon DEF Merging
    <2>2. outer \in Fine /\ reply # "data"
      BY RpcFacts, Zenon DEF Merging, Types, Replies, Fine, WriteOps
    <2>3. reply \in {"none", "error"}
      BY <2>2, MergeFacts, Zenon DEF Types
    <2> QED BY <2>1, <2>3, Zenon
  <1>4. CASE i # at
    <2>1. List[at] \notin Internal
      BY <1>1, <1>2, <1>4, GroupFacts, ListFacts
    <2>2. ds \in Rest(at + 1)
      BY <1>1, <1>2, <1>4, <2>1, GroupFacts
    <2> QED BY <2>2, ListFacts, Zenon DEF Merging, Left, Work
  <1> QED BY <1>3, <1>4, Zenon

LEMMA DocumentsReturn ==
  ASSUME Types, Places, Merging, Documents, Return
  PROVE  Documents'
PROOF
  <1> SUFFICES ASSUME NEW ds \in Files PROVE Known(ds)'
    BY Zenon DEF Documents
  <1>1. UNCHANGED <<doc, saved, device, rpc, before, strayed, meddled, refused, replies>> /\ pc = "return"
    BY Zenon DEF Return, stores, history
  <1>2. Same(ds) /\ ~Rolling /\ ~Busy(ds)
    BY <1>1, Zenon DEF Same, Rolling, Busy, Work, Undo
  <1>3. CASE pc' = "rollback"
    <2>1. /\ outer' = "error" /\ rpc.erropt = "rollback" /\ back' = 1 /\ at' = at
          /\ outer' = nc_reply_merge(outer, reply)
      BY <1>3, Zenon DEF Return
    <2>2. After(ds, replies[ds])
      BY <1>2, Zenon DEF Documents, Known
    <2>3. \A r : r = replies[ds] => After(ds, r)'
      BY <1>2, <2>2, AfterKept, Zenon
    <2>4. After(ds, replies[ds])'
      BY <1>1, <2>3, Zenon
    <2>5. ~Busy(ds)' /\ ~Undoing(ds)'
      BY <1>3, Zenon DEF Busy, Undoing, Work
    <2>6. CASE Waiting(ds)'
      <3>1. RollingBack(ds)'
        BY <2>4, <2>5, <2>6, Zenon DEF RollingBack
      <3> QED BY <2>5, <3>1, <1>3, Zenon DEF Known, Rolling, Undo
    <2>7. CASE ~Waiting(ds)'
      <3>1. ~\E i \in 1..(at - 1) : ds = List[i]
        BY <2>1, <2>7, Zenon DEF Waiting
      <3>2. replies[ds] \in {"none", "error"}
        BY <1>1, <2>1, <3>1, NotYetChanged, Zenon
      <3>3. ~meddled => Unchanged(ds)
        BY <2>2, <3>2, Zenon DEF After, Tells
      <3>4. ~meddled' => Unchanged(ds)'
        BY <1>1, <3>3, Zenon DEF Unchanged
      <3>5. RollingBack(ds)'
        BY <2>4, <2>5, <2>7, <3>4, Zenon DEF RollingBack, After
      <3> QED BY <2>5, <3>5, <1>3, Zenon DEF Known, Rolling, Undo
    <2> QED BY <2>6, <2>7, Zenon
  <1>4. CASE pc' # "rollback"
    <2>1. pc' \in {"replied", "next"} /\ (pc' = "replied" => Stops(rpc.op, rpc.erropt))
      BY <1>4, Zenon DEF Return
    <2>2. rpc.erropt = "rollback" => ~Stops(rpc.op, rpc.erropt)
      BY RpcFacts, Zenon DEF Stops, ReadOnlyOps
    <2>3. ~Rolling' /\ ~Busy(ds)'
      BY <1>1, <2>1, <2>2, Zenon DEF Rolling, Busy, Work, Undo
    <2> QED BY <1>1, <1>2, <2>3, OtherKept, Zenon DEF Documents
  <1> QED BY <1>3, <1>4, Zenon

\* A datastore at rest has a device that follows it.
LEMMA RestingReady ==
  ASSUME Places, Documents, pc = "replied", NEW ds \in Files
  PROVE  Ready(ds)
PROOF
  <1>1. ~Busy(ds) /\ ~Undoing(ds)
    BY Zenon DEF Busy, Undoing, Work
  <1>2. CASE Rolling
    <2>1. back = at
      BY <1>2, Zenon DEF Rolling, Places, Undo
    <2> QED BY <1>1, <1>2, <2>1, Zenon DEF Documents, Known, RollingBack, After
  <1>3. CASE ~Rolling
    BY <1>1, <1>3, Zenon DEF Documents, Known, After
  <1> QED BY <1>2, <1>3, Zenon

LEMMA DocumentsReplied ==
  ASSUME Types, Places, Merging, Documents, Replied
  PROVE  Documents'
PROOF
  <1> SUFFICES ASSUME NEW ds \in Files PROVE Known(ds)'
    BY Zenon DEF Documents
  <1>1. UNCHANGED <<doc, saved, device, strayed>> /\ pc = "replied" /\ pc' = "idle" /\ before' = doc
    BY Zenon DEF Replied, stores
  <1>2. replies'[ds] = "none"
    BY LocalsType, ListFacts, Zenon DEF Replied
  <1>3. Ready(ds)
    BY <1>1, RestingReady, Zenon
  <1>4. Unchanged(ds)' /\ Ready(ds)'
    BY <1>1, <1>3, Zenon DEF Unchanged, Ready, Running
  <1>5. After(ds, "none")'
    BY <1>4, Zenon DEF After, Tells, Undoable
  <1>6. After(ds, replies[ds])'
    BY <1>2, <1>5, Zenon
  <1>7. ~Rolling' /\ ~Busy(ds)'
    BY <1>1, Zenon DEF Rolling, Busy, Work, Undo
  <1> QED BY <1>6, <1>7, Zenon DEF Known

(***************************************************************************)
(* The rollback                                                            *)
(***************************************************************************)
\* the datastore that is rolled back, and the places of the others
LEMMA RollbackPlaces ==
  ASSUME Types, Places, pc \in Undo, back < at
  PROVE  /\ back \in DOMAIN List /\ Waiting(List[back])
         /\ ~\E i \in (back + 1)..(at - 1) : List[back] = List[i]
         /\ \A ds : ds # List[back] =>
              (Waiting(ds) <=> \E i \in (back + 1)..(at - 1) : ds = List[i])
PROOF
  <1>1. at \in DOMAIN List /\ at \in Nat /\ back \in Nat /\ back >= 1 /\ back \in DOMAIN List
    BY ListFacts DEF Places, Types
  <1>2. \A i \in back..(at - 1) : i \in DOMAIN List
    BY <1>1, ListFacts
  <1>3. \A i : i \in back..(at - 1) <=> i = back \/ i \in (back + 1)..(at - 1)
    BY <1>1
  <1>4. ASSUME NEW i \in (back + 1)..(at - 1) PROVE List[back] # List[i]
    <2>1. i \in DOMAIN List /\ i # back
      BY <1>1, <1>2, <1>3
    <2> QED BY <1>1, <2>1, ListFacts, Zenon
  <1> QED BY <1>1, <1>3, <1>4, Zenon DEF Waiting

\* The other datastores stay as they are while one of them is rolled back.
LEMMA OthersWait ==
  ASSUME Types, Places, Documents, pc \in Undo, pc' \in Undo, back < at, NEW ds \in Files, ds # List[back],
         at' = at, back' \in {back, back + 1}, pc' \in {"undo", "undone"} => back' = back,
         Same(ds), replies' = replies, refused => refused', ds \in strayed' => ds \in strayed
  PROVE  Known(ds)'
PROOF
  <1>1. ~Undoing(ds) /\ ~Undoing(ds)'
    BY Zenon DEF Undoing
  <1>2. Waiting(ds)' <=> Waiting(ds)
    <2>1. CASE back' = back
      BY <2>1, Zenon DEF Waiting
    <2>2. CASE back' = back + 1
      BY <2>2, RollbackPlaces, Zenon DEF Waiting
    <2> QED BY <2>1, <2>2, Zenon
  <1>3. Rolling /\ Rolling' /\ ~Busy(ds)'
    BY Zenon DEF Rolling, Busy, Work, Undo
  <1>4. RollingBack(ds)
    BY <1>3, Zenon DEF Documents, Known
  <1>5. CASE Waiting(ds)
    <2>1. After(ds, replies[ds])
      BY <1>1, <1>4, <1>5, Zenon DEF RollingBack
    <2>2. \A r : r = replies[ds] => After(ds, r)'
      BY <2>1, AfterKept, Zenon
    <2>3. After(ds, replies[ds])'
      BY <2>2, Zenon
    <2> QED BY <1>1, <1>2, <1>3, <1>5, <2>3, Zenon DEF Known, RollingBack
  <1>6. CASE ~Waiting(ds)
    <2>1. Ready(ds) /\ (~meddled /\ ~refused /\ ds \notin strayed => Unchanged(ds))
      BY <1>1, <1>4, <1>6, Zenon DEF RollingBack
    <2>2. (Unchanged(ds)' <=> Unchanged(ds)) /\ Running(ds)' = Running(ds)
      BY TellsKept, Zenon DEF Same
    <2>3. Ready(ds)' /\ (~meddled' /\ ~refused' /\ ds \notin strayed' => Unchanged(ds)')
      BY <2>1, <2>2, Zenon DEF Ready, Same
    <2> QED BY <1>1, <1>2, <1>3, <1>6, <2>3, Zenon DEF Known, RollingBack
  <1> QED BY <1>5, <1>6, Zenon

\* the datastore that was rolled back is done
LEMMA RolledBackOne ==
  ASSUME Types, Places, pc \in Undo, back < at, pc' = "rollback", at' = at, back' = back + 1,
         NEW ds \in Files, ds = List[back], Ready(ds)',
         ~meddled' /\ ~refused' /\ ds \notin strayed' => Unchanged(ds)'
  PROVE  Known(ds)'
PROOF
  <1>1. ~Undoing(ds)' /\ Rolling' /\ ~Busy(ds)'
    BY Zenon DEF Undoing, Rolling, Busy, Work, Undo
  <1>2. ~Waiting(ds)'
    BY RollbackPlaces, Zenon DEF Waiting
  <1> QED BY <1>1, <1>2, Zenon DEF Known, RollingBack

LEMMA DocumentsRollback ==
  ASSUME Types, Places, Merging, Documents, RollbackStore
  PROVE  Documents'
PROOF
  <1> SUFFICES ASSUME NEW ds \in Files PROVE Known(ds)'
    BY Zenon DEF Documents
  <1> DEFINE b == List[back]
  <1>1. /\ UNCHANGED <<device, rpc, at, before, replies, meddled, refused>>
        /\ pc = "rollback" /\ back < at /\ Restore(b)
        /\ strayed' = strayed \cup {e \in Files : doc[e] = before[e] /\ doc'[e] # doc[e]}
        /\ IF ChangesRunning(b) THEN pc' = "undo" /\ old' = Running(b) /\ back' = back
           ELSE pc' = "rollback" /\ back' = back + 1
    BY Zenon DEF RollbackStore
  <1>2. /\ \A e \in Files \ {b} : doc'[e] = doc[e] /\ saved'[e] = saved[e]
        /\ b \in Files /\ saved[b] = {} => doc' = doc
        /\ \A d : b \in Files /\ saved[b] = {d} => doc'[b] = d
    BY <1>1, RestoreEffect, Zenon
  <1>3. CASE ds # b
    <2>1. Same(ds) /\ (ds \in strayed' => ds \in strayed)
      BY <1>1, <1>2, <1>3, Zenon DEF Same
    <2>2. /\ pc' \in Undo /\ pc \in Undo /\ back' \in {back, back + 1}
          /\ pc' \in {"undo", "undone"} => back' = back
      BY <1>1, Zenon DEF Undo
    <2> QED BY <1>1, <1>3, <2>1, <2>2, OthersWait, Zenon
  <1>4. CASE ds = b
    <2>1. After(ds, replies[ds])
      <3>1. Rolling /\ ~Undoing(ds)
        BY <1>1, Zenon DEF Rolling, Undoing, Undo
      <3>2. Waiting(ds)
        BY <1>1, <1>4, RollbackPlaces, Zenon DEF Undo
      <3> QED BY <3>1, <3>2, Zenon DEF Documents, Known, RollingBack
    <2>2. /\ Unchanged(ds)' <=> doc'[ds] = before[ds]
          /\ (ChangesRunning(ds)' <=> ChangesRunning(ds)) /\ doc[ds] \in Doc
      BY <1>1, SameRequest, Zenon DEF Unchanged, Types
    <2>3. ASSUME ds \notin strayed'
          PROVE  /\ ds \notin strayed /\ (ds \in Tapi => device[ds] \in {Running(ds), {Mixed}})
                 /\ ~meddled => Unchanged(ds)'
                 /\ \/ doc'[ds] = doc[ds]
                    \/ /\ doc'[ds].lock = doc[ds].lock
                       /\ IF ChangesRunning(ds)
                          THEN file_ds_access(doc[ds], "running", rpc.sid)
                          ELSE ds \in Tapi => doc'[ds].cfg["running"] = Running(ds)
      <3>1. ds \notin strayed /\ ~(doc[ds] = before[ds] /\ doc'[ds] # doc[ds])
        BY <1>1, <2>3, Zenon
      <3>2. ds \in Tapi => device[ds] \in {Running(ds), {Mixed}}
        BY <2>1, <3>1, Zenon DEF After, Ready
      <3>3. CASE Unchanged(ds)
        BY <2>2, <3>1, <3>2, <3>3, Zenon DEF Unchanged
      <3>4. CASE ~Unchanged(ds)
        <4>1. PICK d \in Doc : /\ saved[ds] = {d} /\ d.lock = doc[ds].lock
                               /\ ~meddled => d = before[ds]
                               /\ IF ChangesRunning(ds)
                                  THEN file_ds_access(doc[ds], "running", rpc.sid)
                                  ELSE ds \in Tapi => d.cfg["running"] = Running(ds)
          BY <1>1, <2>1, <3>4, Zenon DEF After, Undoable, Places, Undo
        <4>2. doc'[ds] = d
          BY <1>2, <1>4, <4>1, Zenon
        <4> QED BY <2>2, <3>1, <3>2, <4>1, <4>2, Zenon
      <3> QED BY <3>3, <3>4, Zenon
    <2>4. CASE ChangesRunning(ds)
      <3>1. pc' = "undo" /\ back' = back /\ old' = Running(ds) /\ Undoing(ds)'
        BY <1>1, <1>4, <2>4, Zenon DEF Undoing
      <3>2. ASSUME ds \notin strayed'
            PROVE  file_ds_access(doc'[ds], "running", rpc.sid) \/ old' = Running(ds)'
        BY <2>3, <2>4, <3>1, <3>2, Zenon DEF file_ds_access, Running
      <3>3. Reversed(ds)'
        <4>1. ds \in Tapi
          BY <2>4, Zenon DEF ChangesRunning
        <4> QED BY <1>1, <2>3, <3>1, <3>2, <4>1, Zenon DEF Reversed
      <3> QED BY <3>1, <3>3, Zenon DEF Known, RollingBack, Rolling, Busy, Work, Undo
    <2>5. CASE ~ChangesRunning(ds)
      <3>1. pc' = "rollback" /\ back' = back + 1
        BY <1>1, <1>4, <2>5, Zenon
      <3>2. Ready(ds)'
        BY <1>1, <2>3, <2>5, Zenon DEF Ready, Running
      <3> QED BY <1>1, <1>4, <2>3, <3>1, <3>2, RolledBackOne, Zenon DEF Undo
    <2> QED BY <2>4, <2>5, Zenon
  <1> QED BY <1>3, <1>4, Zenon

LEMMA DocumentsUndo ==
  ASSUME Types, Places, Merging, Documents, UndoOnDevice
  PROVE  Documents'
PROOF
  <1> SUFFICES ASSUME NEW ds \in Files PROVE Known(ds)'
    BY Zenon DEF Documents
  <1> DEFINE b == List[back]
  <1>1. /\ UNCHANGED <<doc, saved, rpc, at, old, before, replies, strayed>> /\ pc = "undo"
    BY Zenon DEF UndoOnDevice
  <1>2. PICK o \in [ret : BOOLEAN, dev : DeviceStates] :
          /\ Callbacks(b, old, Running(b), "rollback", o)
          /\ refused' = (refused \/ o.ret)
          /\ pc' = IF rewrite' = {} THEN "rollback" ELSE "undone"
          /\ back' = IF rewrite' = {} THEN back + 1 ELSE back
    BY Zenon DEF UndoOnDevice
  <1>3. b \in Tapi /\ b \in Files /\ ChangesRunning(b) /\ back < at
    BY <1>1, ListFacts, Zenon DEF Places, ChangesRunning
  <1>4. old \in SUBSET Nodes /\ Running(b) \in SUBSET Nodes
    BY <1>3, RunningType, Zenon DEF Types
  <1>5. /\ \A e \in Tapi \ {b} : device'[e] = device[e]
        /\ \/ /\ ~o.ret /\ rewrite' = {} /\ meddled' = meddled
              /\ device'[b] \in {Running(b), {Mixed}}
           \/ /\ o.ret /\ old # Running(b) /\ rewrite' = {old} /\ meddled' = meddled
              /\ device'[b] \in {device[b], {Mixed}}
           \/ /\ ~o.ret /\ old # Running(b) /\ meddled' = TRUE
              /\ \E c \in SUBSET Nodes : rewrite' = {c} /\ device'[b] \in {c, {Mixed}}
    <2> DEFINE c1 == old
               c2 == Running(b)
    <2>1. Callbacks(b, c1, c2, "rollback", o) /\ b \in Tapi /\ c1 \in SUBSET Nodes /\ c2 \in SUBSET Nodes
      BY <1>2, <1>3, <1>4, Zenon
    <2> HIDE DEF b, c1, c2
    <2>2. /\ \A e \in Tapi \ {b} : device'[e] = device[e]
          /\ \/ /\ ~o.ret /\ rewrite' = {} /\ meddled' = meddled
                /\ device'[b] \in {c2, {Mixed}}
             \/ /\ o.ret /\ c1 # c2 /\ rewrite' = {c1} /\ meddled' = meddled
                /\ device'[b] \in {device[b], {Mixed}}
             \/ /\ ~o.ret /\ c1 # c2 /\ meddled' = TRUE
                /\ \E c \in SUBSET Nodes : rewrite' = {c} /\ device'[b] \in {c, {Mixed}}
      BY <2>1, CallbacksEffect, Zenon
    <2> QED BY <2>2, Zenon DEF c1, c2
  <1>6. (meddled => meddled') /\ (refused => refused') /\ (~o.ret => refused' = refused)
    <2>1. refused \in BOOLEAN /\ o.ret \in BOOLEAN
      BY Zenon DEF Types
    <2> QED BY <1>2, <1>5, <2>1
  <1>7. CASE ds # b
    <2>1. Same(ds)
      BY <1>1, <1>5, <1>6, <1>7, Zenon DEF Same
    <2>2. /\ pc' \in Undo /\ pc \in Undo /\ back' \in {back, back + 1}
          /\ pc' \in {"undo", "undone"} => back' = back
      BY <1>1, <1>2, Zenon DEF Undo
    <2> QED BY <1>1, <1>3, <1>6, <1>7, <2>1, <2>2, OthersWait, Zenon
  <1>8. CASE ds = b
    <2>1. Reversed(ds) /\ Undoing(ds)
      <3>1. Rolling /\ Undoing(ds)
        BY <1>1, <1>8, Zenon DEF Rolling, Undoing, Undo
      <3> QED BY <3>1, Zenon DEF Documents, Known, RollingBack
    <2>2. Running(ds)' = Running(ds) /\ (Unchanged(ds)' <=> Unchanged(ds))
      BY <1>1, TellsKept, Zenon
    <2>3. CASE ~o.ret /\ rewrite' = {} /\ meddled' = meddled /\ device'[b] \in {Running(b), {Mixed}}
      <3>1. Ready(ds)'
        BY <1>8, <2>2, <2>3, Zenon DEF Ready
      <3>2. ~meddled' /\ ~refused' /\ ds \notin strayed' => Unchanged(ds)'
        BY <1>1, <1>6, <2>1, <2>2, <2>3, Zenon DEF Reversed
      <3> QED BY <1>1, <1>2, <1>3, <1>8, <2>3, <3>1, <3>2, RolledBackOne, Zenon DEF Undo
    <2>4. ASSUME old # Running(b), NEW c \in SUBSET Nodes, rewrite' = {c},
                 ds \notin strayed => device'[b] \in {c, {Mixed}}, meddled' \/ refused'
          PROVE  Known(ds)'
      <3>1. pc' = "undone" /\ back' = back
        BY <1>2, <2>4, Zenon
      <3>2. Reversed(ds)'
        BY <1>1, <1>8, <2>1, <2>4, <3>1, Zenon DEF Reversed
      <3>3. Undoing(ds)' /\ ~Busy(ds)' /\ Rolling'
        BY <1>8, <3>1, Zenon DEF Undoing, Busy, Work, Rolling, Undo
      <3> QED BY <3>2, <3>3, Zenon DEF Known, RollingBack
    <2>5. CASE o.ret /\ old # Running(b) /\ rewrite' = {old} /\ device'[b] \in {device[b], {Mixed}}
      <3>1. ds \notin strayed => device[b] \in {old, {Mixed}}
        BY <1>1, <1>8, <2>1, Zenon DEF Reversed
      <3>2. refused'
        BY <1>2, <2>5, Zenon
      <3> QED BY <1>4, <2>4, <2>5, <3>1, <3>2, Zenon
    <2>6. CASE /\ old # Running(b) /\ meddled' = TRUE
               /\ \E c \in SUBSET Nodes : rewrite' = {c} /\ device'[b] \in {c, {Mixed}}
      BY <2>4, <2>6, Zenon
    <2> QED BY <1>5, <2>3, <2>5, <2>6, Zenon
  <1> QED BY <1>7, <1>8, Zenon

LEMMA DocumentsUndone ==
  ASSUME Types, Places, Merging, Documents, UndoRewritten
  PROVE  Documents'
PROOF
  <1> SUFFICES ASSUME NEW ds \in Files PROVE Known(ds)'
    BY Zenon DEF Documents
  <1> DEFINE b == List[back]
  <1>1. /\ UNCHANGED <<device, rpc, at, before, replies, meddled, refused, strayed>>
        /\ pc = "undone" /\ pc' = "rollback" /\ back' = back + 1 /\ Rewritten(b)
    BY Zenon DEF UndoRewritten, history
  <1>2. b \in Tapi /\ b \in Files /\ back < at
    BY <1>1, ListFacts, Zenon DEF Places, ChangesRunning
  <1>3. PICK c \in SUBSET Nodes : rewrite = {c}
    BY <1>1, Zenon DEF Places
  <1>4. /\ \A e \in Files \ {b} : doc'[e] = doc[e] /\ saved'[e] = saved[e]
        /\ file_ds_access(doc[b], "running", rpc.sid) =>
             doc'[b] = [doc[b] EXCEPT !.cfg["running"] = c]
    BY <1>1, <1>2, <1>3, RewrittenEffect, Zenon
  <1>5. CASE ds # b
    <2>1. Same(ds)
      BY <1>1, <1>4, <1>5, Zenon DEF Same
    <2>2. pc' \in Undo /\ pc \in Undo /\ back' \in {back, back + 1} /\ pc' \notin {"undo", "undone"}
      BY <1>1, Zenon DEF Undo
    <2> QED BY <1>1, <1>2, <1>5, <2>1, <2>2, OthersWait, Zenon
  <1>6. CASE ds = b
    <2>1. Reversed(ds)
      <3>1. Rolling /\ Undoing(ds)
        BY <1>1, <1>6, Zenon DEF Rolling, Undoing, Undo
      <3> QED BY <3>1, Zenon DEF Documents, Known, RollingBack
    <2>2. meddled' \/ refused'
      BY <1>1, <2>1, Zenon DEF Reversed
    <2>3. Ready(ds)'
      <3> SUFFICES ASSUME ds \notin strayed PROVE device[ds] \in {Running(ds)', {Mixed}}
        BY <1>1, Zenon DEF Ready
      <3>1. device[ds] \in {c, {Mixed}} /\ file_ds_access(doc[ds], "running", rpc.sid)
        BY <1>1, <1>3, <2>1, Zenon DEF Reversed
      <3>2. doc[ds] \in Doc /\ "running" \in Targets
        BY DocsAssumption, Zenon DEF Types
      <3>3. Running(ds)' = c
        BY <1>4, <1>6, <3>1, <3>2, Zenon DEF Running, Doc
      <3> QED BY <3>1, <3>3, Zenon
    <2> QED BY <1>1, <1>2, <1>6, <2>2, <2>3, RolledBackOne, Zenon DEF Undo
  <1> QED BY <1>5, <1>6, Zenon

LEMMA DocumentsRolledBack ==
  ASSUME Types, Places, Merging, Documents, RolledBack
  PROVE  Documents'
PROOF
  <1> SUFFICES ASSUME NEW ds \in Files PROVE Known(ds)'
    BY Zenon DEF Documents
  <1>1. /\ UNCHANGED <<doc, saved, device, rpc, at, outer, back, before, meddled, refused, strayed>>
        /\ pc = "rollback" /\ back = at /\ pc' = "replied"
    BY Zenon DEF RolledBack, stores, caller, history
  <1>2. ~Waiting(ds) /\ ~Waiting(ds)'
    BY <1>1 DEF Waiting, Types
  <1>3. ~Undoing(ds) /\ ~Undoing(ds)' /\ Rolling /\ Rolling' /\ ~Busy(ds)'
    BY <1>1, Zenon DEF Undoing, Rolling, Undo, Busy, Work, Places
  <1>4. Ready(ds) /\ (~meddled /\ ~refused /\ ds \notin strayed => Unchanged(ds))
    BY <1>2, <1>3, Zenon DEF Documents, Known, RollingBack
  <1>5. Ready(ds)' /\ (Unchanged(ds)' <=> Unchanged(ds))
    BY <1>1, <1>4, Zenon DEF Ready, Running, Unchanged
  <1> QED BY <1>1, <1>2, <1>3, <1>4, <1>5, Zenon DEF Known, RollingBack

LEMMA DocumentsStutter ==
  ASSUME Documents, UNCHANGED vars
  PROVE  Documents'
PROOF
  <1> SUFFICES ASSUME NEW ds \in Files PROVE Known(ds)'
    BY Zenon DEF Documents
  <1>1. Same(ds) /\ UNCHANGED <<pc, at, dsid, back, old, rewrite, reply, outer, replies, refused>>
    BY Zenon DEF vars, Same
  <1>2. /\ (Unchanged(ds)' <=> Unchanged(ds)) /\ (Accepted(ds)' <=> Accepted(ds))
        /\ (ChangesRunning(ds)' <=> ChangesRunning(ds))
        /\ (\A r : Tells(ds, r)' <=> Tells(ds, r))
        /\ Running(ds)' = Running(ds) /\ Old(ds)' = Old(ds)
    BY <1>1, TellsKept, SameRequest, Zenon DEF Same
  <1>3. \A r : After(ds, r) => After(ds, r)'
    BY <1>1, AfterKept, Zenon
  <1>4. After(ds, replies[ds]) => After(ds, replies[ds])'
    BY <1>1, <1>3, Zenon
  <1>5. After(ds, reply) => After(ds, reply)'
    BY <1>1, <1>3, Zenon
  <1>6. Known(ds) /\ UNCHANGED vars
    BY Zenon DEF Documents
  <1>7. RollingBack(ds) => RollingBack(ds)'
    <2>1. (Undoing(ds)' <=> Undoing(ds)) /\ (Waiting(ds)' <=> Waiting(ds))
      BY <1>6, Zenon DEF Undoing, Waiting, vars
    <2>2. Ready(ds) => Ready(ds)'
      BY <1>2, <1>6, Zenon DEF Ready, vars
    <2>3. Reversed(ds) => Reversed(ds)'
      <3>1. /\ UNCHANGED <<pc, old, rewrite, device, doc, rpc, meddled, refused, strayed>>
            /\ (Unchanged(ds)' <=> Unchanged(ds)) /\ Running(ds)' = Running(ds)
        BY <1>2, <1>6, Zenon DEF vars
      <3> QED BY <3>1, Zenon DEF Reversed, file_ds_access
    <2>4. UNCHANGED <<meddled, refused, strayed>> /\ (Unchanged(ds)' <=> Unchanged(ds))
      BY <1>2, <1>6, Zenon DEF vars
    <2> QED BY <1>4, <2>1, <2>2, <2>3, <2>4, Zenon DEF RollingBack
  <1>8. Between(ds) => Between(ds)'
    BY <1>1, <1>2, <1>5, <1>6 DEF Between, NewRunning, vars
  <1>9. (Rolling' <=> Rolling) /\ (Busy(ds)' <=> Busy(ds))
    BY <1>6, Zenon DEF Rolling, Busy, vars
  <1> QED BY <1>4, <1>6, <1>7, <1>8, <1>9, Zenon DEF Known

LEMMA DocumentsInit == Init => Documents
PROOF
  <1> SUFFICES ASSUME Init, NEW ds \in Files PROVE Known(ds)
    BY Zenon DEF Documents
  <1>1. pc = "idle" /\ before = doc /\ Types /\ replies[ds] = "none"
    BY TypesPlacesInit, ListFacts, Zenon DEF Init, Locals
  <1>2. ~Rolling /\ ~Busy(ds) /\ Unchanged(ds)
    BY <1>1, Zenon DEF Rolling, Busy, Work, Undo, Unchanged
  <1>3. Ready(ds)
    BY Zenon DEF Init, Ready
  <1>4. After(ds, replies[ds])
    BY <1>1, <1>2, <1>3, Zenon DEF After, Tells, Undoable
  <1> QED BY <1>2, <1>4, Zenon DEF Known

LEMMA DocumentsStep ==
  ASSUME NoBlindTests, Types, Places, Merging, Documents, [Next]_vars
  PROVE  Documents'
PROOF
  <1>1. CASE ApplyOperation
    BY <1>1, DocumentsOperation, Zenon
  <1>2. CASE EditValidated
    BY <1>2, DocumentsValidated, Zenon
  <1>3. CASE NoTransapi \/ RunningChanged \/ Rewrite \/ Merge
    BY <1>3, DocumentsNoTransapi, DocumentsRunningChanged, DocumentsRewrite, DocumentsMerge, Zenon
  <1>4. CASE SkipInternal \/ NextStore \/ AllDone
    BY <1>4, DocumentsMove, Zenon
  <1>5. CASE \E r \in Rpcs : Receive(r)
    BY <1>5, DocumentsReceive, Zenon
  <1>6. CASE Return \/ Replied
    BY <1>6, DocumentsReturn, DocumentsReplied, Zenon
  <1>7. CASE RollbackStore \/ UndoOnDevice \/ UndoRewritten \/ RolledBack
    BY <1>7, DocumentsRollback, DocumentsUndo, DocumentsUndone, DocumentsRolledBack, Zenon
  <1>8. CASE Done \/ UNCHANGED vars
    BY <1>8, DocumentsStutter, Zenon DEF Done
  <1> QED BY <1>1, <1>2, <1>3, <1>4, <1>5, <1>6, <1>7, <1>8, Zenon
          DEF Next, ApplyOne, ApplyAll, ApplyOperation

(***************************************************************************)
(* The file behind the URL                                                 *)
(***************************************************************************)
\* Neither the running configuration nor a rollback is involved.
LEMMA ToUrlFacts ==
  ASSUME Types, ToUrl
  PROVE  /\ \A ds : ~ChangesRunning(ds)
         /\ rpc.op = "copyconfig" /\ rpc.erropt = "notset"
         /\ rpc.src \in Targets /\ rpc.src \notin {"url", "config"} /\ rpc.tg = "url"
  BY RpcFacts, Zenon DEF ToUrl, ChangesRunning

LEMMA UploadedOperation ==
  ASSUME Types, Places, Merging, Uploaded, ApplyOperation
  PROVE  Uploaded'
PROOF
  <1>1. UNCHANGED <<caller, dsid, old, rewrite, inner, history>> /\ pc = "operate"
    BY OperationKinds, Zenon
  <1>2. rpc' = rpc /\ dsid' = dsid /\ replies' = replies
    BY <1>1, Zenon DEF caller, history
  <1> SUFFICES ASSUME ToUrl, NEW ds \in Files
               PROVE  /\ replies[ds] \in {"none", "ok", "error"}
                      /\ replies[ds] = "ok" => Stored(ds)'
                      /\ Busy(ds)' =>
                           pc' \in {"transapi", "merge"} /\ reply' \in {"ok", "error"}
                           /\ (reply' = "ok" => Stored(ds)')
    BY <1>2, Zenon DEF Uploaded, ToUrl
  <1>3. /\ replies[ds] \in {"none", "ok", "error"}
        /\ replies[ds] = "ok" => Stored(ds)
    BY Zenon DEF Uploaded
  <1>4. replies[ds] = "ok" => ds # dsid
    <2>1. dsid \in Stores /\ dsid \in Nat /\ dsid \in Group(at)
      BY <1>1, ListFacts, Zenon DEF Types, Places, Work
    <2> QED BY <1>1, <2>1 DEF Merging, Left, Work
  <1>5. dsid \in Files => CopyToUrl
    <2> SUFFICES ASSUME dsid \in Files PROVE CopyToUrl
      BY Zenon
    <2>1. Concerns(dsid)
      BY ToUrlFacts, Zenon DEF Concerns
    <2> QED BY <2>1, ToUrlFacts, Zenon
            DEF ApplyOperation, LockUnlock, Get, GetSchema, ValidateRpc, UserRpc, NotApplicable, BadDefaults,
                EditConfig, CopyOntoItself, CopyConfig, DataToUrl, DeleteConfig, Commit, DiscardChanges,
                Operating
  <1>6. CASE dsid \in Files
    <2> DEFINE c == doc[dsid].cfg[rpc.src]
               kept == [remote EXCEPT ![dsid] = c]
               lost == [e \in Files |-> IF e = dsid THEN c ELSE {Dropped}]
    <2>1. Upload(kept) \/ Upload(lost)
      BY <1>5, <1>6, Zenon DEF CopyToUrl
    <2>2. remote \in [Files -> Parts]
      BY Zenon DEF Types
    <2>3. /\ kept[dsid] = c /\ \A e \in Files \ {dsid} : kept[e] = remote[e]
          /\ lost[dsid] = c /\ \A e \in Files \ {dsid} : lost[e] = {Dropped}
      BY <1>6, <2>2, Zenon
    <2> HIDE DEF kept, lost
    <2>4. /\ doc' = doc /\ pc' = "transapi"
          /\ \/ remote' \in {kept, lost} /\ reply' = "ok"
             \/ remote' = remote /\ reply' = "error"
      BY <2>1, Zenon DEF Upload, Answer, stores
    <2> QED BY <1>2, <1>3, <1>4, <2>3, <2>4, Zenon DEF Busy, Stored
  <1>7. CASE dsid \notin Files
    <2>1. doc' = doc /\ remote' = remote
      <3>1. ~CopyToUrl /\ ~DataToUrl
        BY <1>7, Zenon DEF CopyToUrl, DataToUrl, Concerns
      <3>2. \E rep : Answer(rep)
        BY <1>7, <3>1, ToUrlFacts, Zenon
           DEF ApplyOperation, LockUnlock, Get, GetSchema, ValidateRpc, UserRpc, NotApplicable, BadDefaults,
               EditConfig, CopyOntoItself, CopyConfig, DeleteConfig, Commit, DiscardChanges,
               Operating, Concerns
      <3> QED BY <3>2, Zenon DEF Answer, stores
    <2>2. ~Busy(ds)'
      BY <1>2, <1>7, Zenon DEF Busy
    <2> QED BY <1>2, <1>3, <2>1, <2>2, Zenon DEF Stored
  <1> QED BY <1>6, <1>7, Zenon

\* nothing happens to the files
LEMMA UploadedKept ==
  ASSUME Uploaded, rpc' = rpc, doc' = doc, remote' = remote, replies' = replies,
         \A ds \in Files : ~Busy(ds)'
  PROVE  Uploaded'
  BY Zenon DEF Uploaded, ToUrl, Stored

LEMMA UploadedInit == Init => Uploaded
PROOF
  <1> SUFFICES ASSUME Init PROVE Uploaded
    BY Zenon
  <1>1. \A ds \in Files : replies[ds] = "none"
    BY ListFacts, Zenon DEF Init, Locals
  <1>2. \A ds : ~Busy(ds)
    BY Zenon DEF Init, Busy, Work
  <1> QED BY <1>1, <1>2, Zenon DEF Uploaded

LEMMA UploadedStep ==
  ASSUME Types, Places, Merging, Uploaded, [Next]_vars
  PROVE  Uploaded'
PROOF
  <1>1. CASE ApplyOperation
    BY <1>1, UploadedOperation, Zenon
  <1>2. CASE EditValidated
    <2>1. /\ UNCHANGED <<rpc, remote, dsid, replies>> /\ pc = "validation"
          /\ Restore(dsid) \/ UNCHANGED <<doc, saved>>
      BY <1>2, Zenon DEF EditValidated, caller, history
    <2> SUFFICES ASSUME ToUrl, NEW ds \in Files
                 PROVE  ~Busy(ds)' /\ doc'[ds] = doc[ds]
      BY <2>1, Zenon DEF Uploaded, ToUrl, Stored
    <2>2. ds # dsid
      BY <2>1, Zenon DEF Uploaded, Busy, Work
    <2>3. doc'[ds] = doc[ds]
      BY <2>1, <2>2, RestoreEffect
    <2> QED BY <2>1, <2>2, <2>3, Zenon DEF Busy
  <1>3. CASE NoTransapi
    BY <1>3, Zenon DEF NoTransapi, stores, caller, history, Uploaded, ToUrl, Stored, Busy, Work
  <1>4. CASE RunningChanged
    <2>1. rpc' = rpc /\ ChangesRunning(dsid)
      BY <1>4, Zenon DEF RunningChanged, caller
    <2> QED BY <2>1, ToUrlFacts, Zenon DEF Uploaded, ToUrl
  <1>5. CASE Rewrite
    <2>1. rpc' = rpc /\ ChangesRunning(dsid)
      BY <1>5, Zenon DEF Rewrite, Places, caller
    <2> QED BY <2>1, ToUrlFacts, Zenon DEF Uploaded, ToUrl
  <1>6. CASE Merge
    <2>1. /\ UNCHANGED <<rpc, doc, remote>> /\ replies' = [replies EXCEPT ![dsid] = reply]
          /\ pc = "merge" /\ pc' \in {"operate", "return"}
      BY <1>6, Zenon DEF Merge, stores, caller
    <2>2. /\ replies'[dsid] = reply /\ \A ds \in Files \ {dsid} : replies'[ds] = replies[ds]
      BY <2>1, ListFacts, Zenon DEF Types
    <2>3. \A ds \in Files : ~Busy(ds)'
      BY <2>1, Zenon DEF Busy, Work
    <2>4. ToUrl /\ dsid \in Files =>
            reply \in {"ok", "error"} /\ (reply = "ok" => Stored(dsid))
      BY <2>1, Zenon DEF Uploaded, Busy, Work
    <2> QED BY <2>1, <2>2, <2>3, <2>4, Zenon DEF Uploaded, ToUrl, Stored
  <1>7. CASE SkipInternal \/ NextStore \/ AllDone \/ Return
    <2>1. UNCHANGED <<rpc, doc, remote, replies>>
      BY <1>7, Zenon DEF SkipInternal, NextStore, AllDone, Return, stores, caller, history
    <2>2. pc' \notin Work \ {"operate"}
      BY <1>7, Zenon DEF SkipInternal, NextStore, AllDone, Return, Work
    <2> QED BY <2>1, <2>2, UploadedKept, Zenon DEF Busy
  <1>8. CASE \E r \in Rpcs : Receive(r)
    <2>1. replies' = replies /\ pc = "idle" /\ pc' = "next"
      BY <1>8, Zenon DEF Receive, history
    <2>2. \A ds \in Files : replies[ds] = "none"
      BY <2>1, ListFacts, RestFacts, Zenon DEF Merging, Left, Places
    <2> QED BY <2>1, <2>2, Zenon DEF Uploaded, Busy, Work
  <1>9. CASE Replied
    <2>1. replies' = [ds \in Stores |-> "none"] /\ pc' = "idle"
      BY <1>9, Zenon DEF Replied, Locals
    <2> QED BY <2>1, ListFacts, Zenon DEF Uploaded, Busy, Work
  <1>10. CASE RollbackStore \/ UndoOnDevice \/ UndoRewritten \/ RolledBack
    <2>1. rpc' = rpc /\ pc \in Undo
      BY <1>10, Zenon DEF RollbackStore, UndoOnDevice, UndoRewritten, RolledBack, Undo, caller
    <2>2. ~ToUrl
      BY <2>1, ToUrlFacts, Zenon DEF Places
    <2> QED BY <2>1, <2>2, Zenon DEF Uploaded, ToUrl
  <1>11. CASE Done \/ UNCHANGED vars
    BY <1>11, Zenon DEF Done, vars, Uploaded, ToUrl, Stored, Busy
  <1> QED BY <1>1, <1>2, <1>3, <1>4, <1>5, <1>6, <1>7, <1>8, <1>9, <1>10, <1>11, Zenon
          DEF Next, ApplyOne, ApplyAll, ApplyOperation

(***************************************************************************)
(* The theorems                                                            *)
(***************************************************************************)
RepliesInv == Types /\ Places /\ Merging /\ Uploaded

LEMMA RepliesInvariant == Spec => []RepliesInv
PROOF
  <1>1. Init => RepliesInv
    BY TypesPlacesInit, MergingInit, UploadedInit, Zenon DEF RepliesInv
  <1>2. RepliesInv /\ [Next]_vars => RepliesInv'
    BY TypesStep, PlacesStep, MergingStep, UploadedStep, Zenon DEF RepliesInv
  <1> QED BY <1>1, <1>2, PTL DEF Spec

LEMMA ApplyInvariant == NoBlindTests => (Spec => []ApplyInv)
PROOF
  <1> SUFFICES ASSUME NoBlindTests PROVE Spec => []ApplyInv
    BY Zenon
  <1>1. Init => ApplyInv
    BY TypesPlacesInit, MergingInit, DocumentsInit, UploadedInit, Zenon DEF ApplyInv
  <1>2. ApplyInv /\ [Next]_vars => ApplyInv'
    BY TypesStep, PlacesStep, MergingStep, DocumentsStep, UploadedStep, Zenon DEF ApplyInv
  <1> QED BY <1>1, <1>2, PTL DEF Spec

\* After a reply that is no error every datastore has replied, and well.
LEMMA AllReplied ==
  ASSUME RepliesInv, pc = "replied", outer = "ok", NEW ds \in Files
  PROVE  replies[ds] \in {"ok", "na"}
PROOF
  <1>1. ds \in Stores /\ Len(List) \in Nat
    BY ListFacts, Zenon
  <1>2. at = Len(List) + 1
    BY <1>1 DEF RepliesInv, Places, Types
  <1>3. ~Left(ds)
    <2>1. Rest(at + 1) = {}
      BY <1>1, <1>2, GroupFacts
    <2> QED BY <2>1, Zenon DEF Left, Work
  <1>4. replies[ds] # "none" /\ replies[ds] \in Fine
    BY <1>1, <1>3, Zenon DEF RepliesInv, Merging, Fine, Work
  <1> QED BY <1>4, Zenon DEF Fine

\* A datastore after the one that failed has not been asked.
LEMMA StoppedAfter == ASSUME RepliesInv PROVE StopStops
PROOF
  <1> SUFFICES ASSUME pc = "replied", rpc.op \in WriteOps, rpc.erropt \in {"notset", "stop"},
                      NEW i \in DOMAIN List, NEW j \in DOMAIN List, i < j,
                      List[i] >= internal_ds_count, replies[List[i]] = "error"
               PROVE  replies[List[j]] = "none"
    BY Zenon DEF StopStops
  <1>1. List[i] \in Stores /\ List[j] \in Stores /\ List[i] \notin Internal /\ Stops(rpc.op, rpc.erropt)
    BY ListFacts DEF Internal, Stops
  <1>2. outer = "error"
    <2>1. outer \notin Fine
      BY <1>1, Zenon DEF RepliesInv, Merging, Fine, Work
    <2> QED BY <2>1, Zenon DEF RepliesInv, Types, Merging, Replies, Fine
  <1>3. at \in DOMAIN List /\ List[i] \in Group(at)
    BY <1>1, <1>2, Zenon DEF RepliesInv, Merging, Fine
  <1>4. i = at
    <2>1. List[i] \in Group(i)
      BY <1>1, GroupFacts
    <2> QED BY <1>3, <2>1, GroupFacts, Zenon
  <1>5. List[j] \in Rest(at + 1)
    BY <1>1, <1>4, GroupFacts, Zenon
  <1> QED BY <1>1, <1>5, Zenon DEF RepliesInv, Merging, Left, Work

\* After rollback-on-error no datastore is left to be rolled back.
LEMMA AllRolledBack == ASSUME ApplyInv PROVE AllOrNothing
PROOF
  <1> SUFFICES ASSUME pc = "replied", rpc.erropt = "rollback", outer = "error", ~meddled, ~refused,
                      NEW ds \in Files \ strayed
               PROVE  Unchanged(ds)
    BY Zenon DEF AllOrNothing
  <1>1. back = at /\ at \in Nat
    BY ListFacts DEF ApplyInv, Places, Types
  <1>2. ~Waiting(ds) /\ ~Undoing(ds) /\ Rolling
    BY <1>1 DEF Waiting, Undoing, Rolling
  <1> QED BY <1>2, Zenon DEF ApplyInv, Documents, Known, RollingBack

\* ncds_apply_rpc2all: after <copy-config> of a datastore to a URL that is
\* answered <ok/>, the remote file has the data of every datastore, although
\* each of them reads, replaces its part and writes the whole file again,
\* except for the parts dropped by a later datastore that could not read it.
THEOREM UrlComplete == Spec => []UrlHasAll
PROOF
  <1>1. RepliesInv => UrlHasAll
    <2> SUFFICES ASSUME RepliesInv, pc = "replied", ToUrl, outer = "ok", NEW ds \in Files
                 PROVE  Stored(ds)
      BY Zenon DEF UrlHasAll, CopiedToUrl, ToUrl, Stored
    <2>1. replies[ds] = "ok"
      BY AllReplied, Zenon DEF RepliesInv, Uploaded
    <2> QED BY <2>1, Zenon DEF RepliesInv, Uploaded
  <1> QED BY <1>1, RepliesInvariant, PTL

\* ncds_apply_rpc2all does with the datastores what the error-option asks for:
\* rollback-on-error leaves all of them as before, stop-on-error leaves those
\* after the one that failed alone.
THEOREM ErrorOption == NoBlindTests => (Spec => []ErrorOptionKept)
PROOF
  <1> SUFFICES ASSUME NoBlindTests PROVE Spec => []ErrorOptionKept
    BY Zenon
  <1>1. ApplyInv => ErrorOptionKept
    BY AllRolledBack, StoppedAfter, Zenon DEF ErrorOptionKept, ApplyInv, RepliesInv
  <1> QED BY <1>1, ApplyInvariant, PTL

\* ncds_apply_transapi, on the way forward and on the way back: whenever a
\* request has been answered, the device of every module has the running
\* configuration or was left in between by its own callbacks.
THEOREM DeviceKeepsUp == NoBlindTests => (Spec => []DeviceFollows)
PROOF
  <1> SUFFICES ASSUME NoBlindTests PROVE Spec => []DeviceFollows
    BY Zenon
  <1>1. ApplyInv => DeviceFollows
    BY RestingReady, ListFacts, Zenon DEF DeviceFollows, ApplyInv, Ready
  <1> QED BY <1>1, ApplyInvariant, PTL

\* ncds_apply_rpc: the merged reply and the reply of each datastore tell what
\* became of the change, through validation, callbacks and what they write.
THEOREM RepliesTrue == NoBlindTests => (Spec => []ReplyTellsStores)
PROOF
  <1> SUFFICES ASSUME NoBlindTests PROVE Spec => []ReplyTellsStores
    BY Zenon
  <1>1. ApplyInv => ReplyTellsStores
    <2> SUFFICES ASSUME ApplyInv, pc = "replied", StoreRequest, ~meddled, rpc.erropt # "rollback",
                        NEW ds \in Files
                 PROVE  /\ outer = "ok" => replies[ds] \in {"ok", "na"}
                        /\ IF replies[ds] = "ok" /\ rpc.testopt # "test-only"
                           THEN Accepted(ds)
                           ELSE Unchanged(ds) \/ (replies[ds] = "na" /\ Accepted(ds))
      BY Zenon DEF ReplyTellsStores
    <2>1. outer = "ok" => replies[ds] \in {"ok", "na"}
      BY AllReplied, Zenon DEF ApplyInv, RepliesInv
    <2>2. ~Rolling /\ ~Busy(ds)
      BY Zenon DEF Rolling, Busy, Work, Undo
    <2>3. Tells(ds, replies[ds])
      BY <2>2, Zenon DEF ApplyInv, Documents, Known, After
    <2> QED BY <2>1, <2>3, Zenon DEF Tells
  <1> QED BY <1>1, ApplyInvariant, PTL

=============================================================================
