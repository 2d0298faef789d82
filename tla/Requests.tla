------------------------------ MODULE Requests ------------------------------
(***************************************************************************)
(* One request after another between a client and a server that both use   *)
(* the library: the application builds a request (messages.c), the library *)
(* checks the capabilities and sends it (nc_session_send_rpc), the server  *)
(* reads it, asks NACM (nc_session_recv_rpc, nacm.c) and hands it to the   *)
(* datastores (ncds_apply_rpc2all), and the merged reply goes back.        *)
(* Meanwhile another process edits the NACM datastore, time passes, and    *)
(* the notification thread asks NACM as well.  Nothing is lost here: the   *)
(* channel is the subject of the session modules.                          *)
(***************************************************************************)
EXTENDS Messages, Nacm

CONSTANTS
  Sessions,     \* session records: user, groups, recovery, caps, wd
  Configs,      \* contents the NACM datastore may be given
  Documents,    \* documents a client sends with nc_rpc_generic
  Data,         \* inline configurations
  Fetched,      \* what the URLs hold: a function from URLs
  Module,       \* the module that defines an operation, "none" without one
  DenyAll,      \* schema nodes with nacm:default-deny-all
  Nodes,        \* the data of the device
  StoreArgs,    \* values given for a NC_DATASTORE parameter
  MaxClock      \* bound on the clock

ASSUME MaxClockAssumption == MaxClock \in Nat

VARIABLES
  session,      \* the session of the run
  clock,        \* time(NULL), in seconds
  conf,         \* the NACM datastore's file: running
  mtime,        \* its modification time
  last_access,  \* nacm_ds->last_access in the server
  nacm_config,  \* nacm.c's static configuration
  pc,           \* where the request is
  ask,          \* what the application asked for
  rpc,          \* the client's struct nc_msg
  srpc,         \* the server's struct nc_msg
  nacm,         \* srpc->nacm
  decision,     \* what nacm_check_operation said
  basis,        \* nacm_config when srpc->nacm was made
  parts,        \* the replies of the datastores
  reply,        \* the reply
  counted       \* the counters that went up for this request

nacmVars == <<conf, mtime, last_access, nacm_config>>
serverVars == <<srpc, nacm, decision, basis, parts, reply, counted>>
vars == <<session, clock, nacmVars, pc, ask, rpc, serverVars>>

NoAsk == [op |-> "none"]

Init ==
  /\ session \in Sessions
  /\ clock = 1 /\ conf \in Configs /\ mtime = 0 /\ last_access = 1
  /\ nacm_config = ReadConfig(InitialConfig, conf)
  /\ pc = "idle" /\ ask = NoAsk /\ rpc = NoRpc
  /\ srpc = NoRpc /\ nacm = NoNacm /\ decision = "none" /\ basis = InitialConfig
  /\ parts = <<>> /\ reply = NoReply /\ counted = {}

(***************************************************************************)
(* The NACM datastore                                                      *)
(***************************************************************************)
Tick ==
  /\ clock < MaxClock
  /\ clock' = clock + 1
  /\ UNCHANGED <<session, nacmVars, pc, ask, rpc, serverVars>>

\* another process stores a configuration
OtherProcessEdits ==
  /\ \E c \in Configs \ {conf} : conf' = c
  /\ mtime' = clock
  /\ UNCHANGED <<session, clock, last_access, nacm_config, pc, ask, rpc, serverVars>>

was_changed == ~(mtime < last_access)

\* file_reload in the server: it notes the time only when it reads the file
Reload == last_access' = IF mtime < last_access THEN last_access ELSE clock

\* nacm_config_refresh: a changed datastore is read
nacm_config_refresh ==
  IF was_changed
  THEN nacm_config' = ReadConfig(nacm_config, conf) /\ Reload
  ELSE UNCHANGED <<nacm_config, last_access>>

(***************************************************************************)
(* The client                                                              *)
(***************************************************************************)
\* the application's wish: what the server is to read out of the request
Wish(op, source, target) ==
  [op |-> op, source |-> source, target |-> target, defop |-> "notset",
   erropt |-> "notset", testopt |-> "notset", config |-> "null", filter |-> "none",
   modes |-> <<>>, generic |-> FALSE]

\* a builder returned r for the wish w
Build(w, r) ==
  /\ pc = "idle"
  /\ ask' = w /\ rpc' = r
  /\ pc' = IF r = NoRpc THEN "refused" ELSE "built"
  /\ UNCHANGED <<session, clock, nacmVars, serverVars>>

Filters == {"none", "subtree", "xpath"}
Kept(filter) == IF filter = "xpath" THEN "none" ELSE filter

BuildRead ==
  \E filter \in Filters :
    \/ Build([Wish("get", "error", "error") EXCEPT !.filter = Kept(filter)], nc_rpc_get(filter))
    \/ \E s \in StoreArgs :
         Build([Wish("get-config", s, "error") EXCEPT !.filter = Kept(filter)],
               nc_rpc_getconfig(s, filter))
    \/ Build([Wish("create-subscription", "error", "error") EXCEPT !.filter = Kept(filter)],
             nc_rpc_subscribe("NETCONF", filter))

\* where a URL is given it is one of Fetched's, or one that cannot be fetched
Urls == DOMAIN Fetched \cup {"url_gone"}
Source(s) == IF s = "config" THEN Data ELSE IF s = "url" THEN Urls ELSE {"none"}

BuildCopy ==
  \E s \in StoreArgs, t \in StoreArgs, libxml2 \in BOOLEAN :
    \E d \in Source(s) :
      LET w == [Wish("copy-config", s, t) EXCEPT
                  !.config = CASE s = "config" -> d
                               [] s = "url" -> Download(d, Fetched)
                               [] OTHER -> "null"]
      IN Build(w, IF libxml2 THEN ncxml_rpc_copyconfig(s, t, d, "url_target")
                  ELSE nc_rpc_copyconfig(s, t, d, "url_target"))

BuildEdit ==
  \E t \in {"running", "url"}, defop \in {"notset", "merge", "wrong"},
     erropt \in {"notset", "rollback-on-error"}, testopt \in {"notset", "test-only"},
     libxml2 \in BOOLEAN, d \in Data \cup {"none"} :
    LET w == [Wish("edit-config", "error", t) EXCEPT
                !.defop = defop, !.erropt = erropt, !.testopt = testopt, !.config = d]
    IN Build(w, IF libxml2 THEN ncxml_rpc_editconfig(t, "config", defop, erropt, testopt, d)
                ELSE nc_rpc_editconfig(t, "config", defop, erropt, testopt, d))

BuildOther ==
  \/ \E t \in StoreArgs : Build(Wish("lock", "error", t), nc_rpc_lock(t))
  \/ \E t \in StoreArgs : Build(Wish("unlock", "error", t), nc_rpc_unlock(t))
  \/ \E t \in StoreArgs : Build(Wish("delete-config", "error", t), nc_rpc_deleteconfig(t, "url_target"))
  \/ \E s \in StoreArgs \ {"url"}, d \in Data \cup {"none"} :
       /\ s = "config" \/ d = "none"
       /\ Build([Wish("validate", s, "error") EXCEPT !.config = IF s = "config" THEN d ELSE "null"],
                nc_rpc_validate(s, d))
  \/ Build(Wish("commit", "error", "running"), nc_rpc_commit)
  \/ Build(Wish("discard-changes", "error", "error"), nc_rpc_discardchanges)
  \/ Build(Wish("close-session", "error", "error"), nc_rpc_closesession)
  \/ \E sid \in {"7", "none"} : Build(Wish("kill-session", "error", "error"), nc_rpc_killsession(sid))
  \/ \E name \in {"m", "none"} : Build(Wish("get-schema", "error", "error"), nc_rpc_getschema(name))
  \/ \E doc \in Documents :
       Build([Wish(doc.name, "error", "error") EXCEPT !.generic = TRUE], nc_rpc_generic(doc))

MaxModes == 2   \* calls of nc_rpc_capability_attr for one request

CapabilityAttr ==
  /\ pc = "built" /\ Len(ask.modes) < MaxModes
  /\ ask.op \in {"get", "get-config", "copy-config", "lock"} /\ ~ask.generic
  /\ \E mode \in {"report-all", "trim", "notset"} :
       /\ rpc' = nc_rpc_capability_attr(rpc, mode)
       /\ ask' = [ask EXCEPT !.modes = IF ask.op = "lock" THEN @ ELSE Append(@, mode)]
  /\ UNCHANGED <<session, clock, nacmVars, pc, serverVars>>

\* the capabilities nc_session_send_rpc looks for
SendAllowed ==
  /\ rpc.op = "create-subscription" => "notification" \in session.caps
  /\ rpc.op \in {"commit", "discard-changes"} => "candidate" \in session.caps
  /\ rpc.op = "get-schema" => "monitoring" \in session.caps
  /\ rpc.with_defaults # "notset" => rpc.with_defaults \in session.wd

nc_session_send_rpc ==
  /\ pc = "built"
  /\ pc' = IF SendAllowed THEN "sent" ELSE "refused"
  /\ UNCHANGED <<session, clock, nacmVars, ask, rpc, serverVars>>

(***************************************************************************)
(* The server: nc_session_recv_rpc                                         *)
(***************************************************************************)
\* replyerror: the server answers by itself
ReplyError(e, counters) ==
  /\ reply' = nc_reply_error(<<e>>)
  /\ counted' = counted \cup counters
  /\ pc' = "answered"

\* the document arrives without the sender's struct
recv_withdefaults ==
  /\ pc = "sent"
  /\ LET r == nc_rpc_parse_withdefaults(nc_msg_create(rpc.doc))
     IN /\ srpc' = r
        /\ IF r.with_defaults # "notset" /\ r.with_defaults \notin session.wd
           THEN ReplyError(nc_err_set(nc_err_new("invalid-value"), "element", "with-defaults"),
                           {"in_bad_rpcs"})
           ELSE pc' = "received" /\ counted' = {"session in_rpcs", "in_rpcs"} /\ UNCHANGED reply
  /\ UNCHANGED <<session, clock, nacmVars, ask, rpc, nacm, decision, basis, parts>>

\* the operation is not known yet, so close-session is not excepted here
nacm_start ==
  /\ pc = "received"
  /\ IF session.recovery \/ srpc.op = "close-session"
     THEN UNCHANGED <<nacm_config, last_access, nacm, basis>>
     ELSE /\ nacm_config_refresh
          /\ nacm' = IF nacm_config'.enabled = "false" THEN NoNacm
                     ELSE nacm_rpc_struct(nacm_config', session)
          /\ basis' = nacm_config'
  /\ pc' = "checked"
  /\ UNCHANGED <<session, clock, conf, mtime, ask, rpc, srpc, decision, parts, reply, counted>>

recv_check ==
  /\ pc = "checked"
  /\ LET d == nacm_check_operation(nacm, srpc.doc.name, srpc.op, Module[srpc.doc.name], DenyAll)
     IN /\ decision' = d
        /\ IF d # "permit" THEN ReplyError(nc_err_new("access-denied"), {"denied_ops"})
           ELSE pc' = "permitted" /\ UNCHANGED <<reply, counted>>
  /\ UNCHANGED <<session, clock, nacmVars, ask, rpc, srpc, nacm, basis, parts>>

recv_assign ==
  /\ pc = "permitted"
  /\ LET r1 == nc_rpc_parse_type(nc_rpc_assign_op(srpc))
         r2 == IF NeedsSource(r1.op) THEN nc_rpc_assign_source(r1) ELSE r1
         ok2 == NeedsSource(r1.op) => r2.source # "error"
         r3 == IF ok2 /\ (NeedsTarget(r2.op) \/ r2.op = "commit")
               THEN nc_rpc_assign_target(r2) ELSE r2
     IN /\ srpc' = r3
        /\ IF ok2 /\ (NeedsTarget(r3.op) => r3.target # "error")
           THEN pc' = "handler" /\ UNCHANGED <<reply, counted>>
           ELSE ReplyError(nc_err_set(nc_err_new("missing-element"), "type", "protocol"),
                           {"session in_bad_rpcs", "in_bad_rpcs"})
  /\ UNCHANGED <<session, clock, nacmVars, ask, rpc, nacm, decision, basis, parts>>

(***************************************************************************)
(* The datastores: ncds_apply_rpc2all                                      *)
(***************************************************************************)
\* what one datastore may answer: NULL stands for not applicable
Answers(op) ==
  {NoReply, nc_reply_error(<<nc_err_set(nc_err_new("bad-attribute"), "attribute", "insert")>>),
   nc_reply_error(<<nc_err_new("data-missing"),
                    nc_err_set(nc_err_new("lock-denied"), "sid", "7")>>)}
  \cup (IF op \in {"get", "get-config"}
        THEN {nc_reply_data(nacm_check_data_read(nacm, Nodes, "base", DenyAll))}
        ELSE {nc_reply_ok})

\* the replies are merged one by one
rpc2all_merge(replies) ==
  FoldLeft(LAMBDA old, r : nc_reply_merge(<<old, r>>), Head(replies), Tail(replies))

\* One call of the handler.  A reading operation reloads every datastore, the
\* NACM one among them; an edit of the NACM datastore writes its file and then
\* notes the time.
Handle ==
  /\ pc = "handler"
  /\ IF srpc.op = "unknown"
     THEN parts' = <<nc_reply_error(<<nc_err_new("operation-not-supported")>>)>>
     ELSE \E a, b \in Answers(srpc.op) : parts' = <<a, b>>
  /\ LET merged == rpc2all_merge(parts')
     IN reply' = IF merged = NoReply THEN nc_reply_error(<<nc_err_new("operation-failed")>>) ELSE merged
  /\ pc' = "answered"
  /\ \/ srpc.op \in {"get", "get-config"} /\ Reload /\ UNCHANGED <<conf, mtime>>
     \/ /\ srpc.op = "edit-config"
        /\ \E c \in Configs : conf' = c
        /\ mtime' = clock /\ last_access' = clock
     \/ srpc.op \notin {"get", "get-config"} /\ UNCHANGED <<conf, mtime, last_access>>
  /\ UNCHANGED <<session, clock, nacm_config, ask, rpc, srpc, nacm, decision, basis, counted>>

\* the client reads the reply and both sides forget the request
Finish ==
  /\ pc \in {"answered", "refused"}
  /\ pc' = "idle" /\ ask' = NoAsk /\ rpc' = NoRpc
  /\ srpc' = NoRpc /\ nacm' = NoNacm /\ decision' = "none" /\ basis' = InitialConfig
  /\ parts' = <<>> /\ reply' = NoReply /\ counted' = {}
  /\ UNCHANGED <<session, clock, nacmVars>>

\* the thread that sends notifications refreshes the rules as well
nacm_notification ==
  /\ ~session.recovery
  /\ was_changed
  /\ nacm_config_refresh
  /\ UNCHANGED <<session, clock, conf, mtime, pc, ask, rpc, serverVars>>

Next ==
  \/ Tick \/ OtherProcessEdits \/ nacm_notification
  \/ BuildRead \/ BuildCopy \/ BuildEdit \/ BuildOther
  \/ CapabilityAttr \/ nc_session_send_rpc
  \/ recv_withdefaults \/ nacm_start \/ recv_check \/ recv_assign
  \/ Handle \/ Finish

Spec == Init /\ [][Next]_vars

(***************************************************************************)
(* Properties                                                              *)
(***************************************************************************)
ModesSet == SelectSeq(ask.modes, LAMBDA m : m # "notset")

\* What the server's handler reads out of a request is what the client's
\* application asked for: the operation and its type, the datastores, the three
\* options of edit-config, the inline or downloaded configuration, the filter
\* and, when it was set once, the with-defaults mode.  It holds the builders of
\* messages.c against the functions nc_session_recv_rpc and the datastores use
\* to read the message.  nc_rpc_build, with which a second process reads the
\* dumped message, finds the same; so does
\* ncxml_rpc_get_config, but for an inline configuration of copy-config.
\* Edits and validations of what a URL holds are not among the requests.
RequestReadAsBuilt ==
  (pc = "handler" /\ ~ask.generic) =>
    /\ srpc.op = ask.op /\ srpc.type = rpc.type
    /\ NeedsSource(ask.op) => srpc.source = ask.source
    /\ NeedsTarget(ask.op) \/ ask.op = "commit" => srpc.target = ask.target
    /\ nc_rpc_get_defop(srpc) = ask.defop
    /\ nc_rpc_get_erropt(srpc) = ask.erropt
    /\ nc_rpc_get_testopt(srpc) = ask.testopt
    /\ nc_rpc_get_filter(srpc) = ask.filter
    /\ nc_rpc_get_config(srpc, Fetched) = ask.config
    /\ ask.op # "copy-config" \/ ask.source # "config"
         => ncxml_rpc_get_config(srpc, Fetched) = ask.config
    /\ ask.modes = <<>> => srpc.with_defaults = "notset"
    /\ ask.modes # <<>> /\ ask.modes = ModesSet /\ Len(ModesSet) = 1
         => srpc.with_defaults = ask.modes[1]
    /\ LET again == nc_rpc_build(srpc.doc) IN
       /\ again # NoRpc /\ again.op = srpc.op /\ again.type = srpc.type
       /\ again.with_defaults = srpc.with_defaults
       /\ ask.op # "commit" => again.source = srpc.source /\ again.target = srpc.target

\* the rules of a configuration that match an access of the session to a thing:
\* <<list, rule>>
Matching(mem, type, module, names, access) ==
  {m \in {<<i, j>> : i \in DOMAIN mem.lists, j \in 1..5} :
     LET list == mem.lists[m[1]] IN
     /\ module # "none" /\ m[2] \in DOMAIN list.rules
     /\ UserGroups(mem, session) # {}
     /\ "*" \in list.groups \/ UserGroups(mem, session) \cap list.groups # {}
     /\ LET r == list.rules[m[2]] IN
        /\ r.module = "*" \/ r.module = module
        /\ access \in r.access
        /\ r.type \in {"notset", type}
        /\ r.type = type => r.names \cap names # {}}

Before(m, n) == m[1] < n[1] \/ (m[1] = n[1] /\ m[2] <= n[2])

Due(mem, type, module, names, access, default) ==
  LET hits == Matching(mem, type, module, names, access)
      first == CHOOSE m \in hits : \A n \in hits : Before(m, n)
  IN IF session.recovery \/ mem.enabled = "false" THEN "permit"
     ELSE IF hits = {} THEN default
     ELSE mem.lists[first[1]].rules[first[2]].action

\* what nacm.c means for an operation: "close-session is always permitted";
\* where no rule matches, "deny delete-config and kill-session" and what the
\* schema marks with default-deny-all
Spared == {"close-session"}
DeniedByDefault == {"delete-config", "kill-session"}
Marked(module, path) == \E k \in DOMAIN path : <<module>> \o SubSeq(path, 1, k) \in DenyAll

DueOperation(op) ==
  IF op \in Spared THEN "permit"
  ELSE Due(basis, "operation", Module[op], {"*", op}, "exec",
           IF op \in DeniedByDefault \/ Marked(Module[op], <<op>>) THEN "deny" ELSE basis.exec)

Readable(n) ==
  \A k \in 1..Len(n) :
    Due(basis, "data", "base", {SubSeq(n, 1, k)}, "read",
        IF Marked("base", SubSeq(n, 1, k)) THEN "deny" ELSE basis.read) = "permit"

DueEvent(event) ==
  IF event = "replayComplete" THEN "permit"
  ELSE Due(nacm_config, "notification", "base", {"*", event}, "read",
           IF Marked("base", <<event>>) THEN "deny" ELSE nacm_config.read)

\* Where the code is known to decide otherwise: NACM is asked before
\* nc_rpc_assign_op has told which operation it is, and compare_node_to_model
\* never finds a node that the schema marks.
Misjudged(op) == op \in Spared \cup DeniedByDefault \/ Marked(Module[op], <<op>>)

Decided(op) ==
  /\ decision = DueOperation(op)
  /\ pc = "handler" => DueOperation(op) = "permit"

\* A request reaches the datastores only when the rules nacm_start found permit
\* it, and is refused only when they deny it; a reply carries exactly the nodes
\* they let the user read, and a notification passes when it may be read.  The
\* first matching rule of the user's rule-lists decides, the default when none
\* matches, and nothing is denied to a recovery session or with NACM switched
\* off (nacm_start, nacm_rpc_struct, nacm_check_operation,
\* nacm_check_data_read, nacm_check_notification).  Left out by name are
\* close-session, delete-config and kill-session, and the operations, nodes
\* and notifications marked with default-deny-all (Misjudged, Marked).
DecisionFollowsRules ==
  /\ decision # "none" /\ ~Misjudged(srpc.doc.name) => Decided(srpc.doc.name)
  /\ \A i \in DOMAIN parts : parts[i].type = "data" =>
       LET unmarked == {n \in Nodes : ~Marked("base", n)}
       IN  Len(parts[i].data) = 1
           /\ parts[i].data[1] \cap unmarked = {n \in unmarked : Readable(n)}
  /\ ~session.recovery => \A event \in {"alarm", "replayComplete"} :
       ~Marked("base", <<event>>) =>
         nacm_check_notification(nacm_config, session, event, "base", DenyAll) = DueEvent(event)

\* What the comments of nacm.c say of close-session, delete-config and
\* kill-session and of default-deny-all, without the exceptions of
\* DecisionFollowsRules.  The code does otherwise; no run states it.
CommentsFollowed == decision # "none" => Decided(srpc.doc.name)

\* The client learns what every datastore answered: the reply is an error
\* exactly when a datastore failed or none took the request, it then lists the
\* errors of all of them with all their parameters (but the name of a bad
\* attribute, which nc_err_parse does not find), and without an error it carries the data of all of
\* them in order (nc_reply_merge, nc_reply_error_add, nc_reply_parse_type).
ReplyTellsAll ==
  (pc = "answered" /\ parts # <<>>) =>
    LET r == nc_reply_parse_type(reply)
        failed == {i \in DOMAIN parts : parts[i].type = "error"}
        some == {i \in DOMAIN parts : parts[i] # NoReply}
    IN /\ r.type = "error" <=> failed # {} \/ some = {}
       /\ failed # {} =>
            Range(r.errors) =
              {[e EXCEPT !["attribute"] = "null"] : e \in UNION {Range(parts[i].errors) : i \in failed}}
       /\ r.type = "data" =>
            r.data = FlattenSeq([i \in DOMAIN parts |->
                                  IF i \in some THEN parts[i].data ELSE <<>>])

\* nacm.c says after was_changed answered no: "it wasn't, we have up to date
\* configuration data".  When a request is given its rules, they are the ones
\* the datastore holds at that moment.
RulesUpToDate ==
  [][(pc = "received" /\ pc' = "checked" /\ ~session.recovery)
       => nacm_config' = ReadConfig(nacm_config, conf)]_vars
=============================================================================
