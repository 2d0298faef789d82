------------------------------ MODULE Messages ------------------------------
(***************************************************************************)
(* messages.c: the requests a client builds, what the server reads back    *)
(* out of them, and the replies.                                           *)
(*                                                                         *)
(* A document is a record of the elements these functions create or query: *)
(* `name` and `ns` of the operation element, the names of the children of  *)
(* <source> and <target> as sets, the texts of the repeatable elements     *)
(* (default-operation, error-option, test-option, with-defaults) as        *)
(* sequences, `edit`, the <config> or <url> child of <edit-config>, and    *)
(* `data`, the text of the one <config> or <url>.  An rpc is the C struct: *)
(* the document and the fields computed from it.  NoRpc is NULL.           *)
(***************************************************************************)
EXTENDS Naturals, SequencesExt, FiniteSets

Stores == {"running", "startup", "candidate"}
Modes == {"report-all", "report-all-tagged", "trim", "explicit"}

NoRpc == [op |-> "null"]

\* an element of the namespace ns with nothing in it
Element(name, ns) ==
  [name |-> name, ns |-> ns, source |-> {}, target |-> {}, defop |-> <<>>,
   erropt |-> <<>>, testopt |-> <<>>, edit |-> {}, data |-> "none",
   wd |-> <<>>, filter |-> "none"]

\* a parameter given as 0 is left out of the message
Optional(v) == IF v = "notset" THEN <<>> ELSE <<v>>

(***************************************************************************)
(* The client: building requests                                           *)
(***************************************************************************)
\* the struct around a document: calloc, with_defaults NOTSET
nc_msg_create(doc) ==
  [doc |-> doc, type |-> "unknown", op |-> "unknown", source |-> "error",
   target |-> "error", with_defaults |-> "notset"]

Rpc(doc, type, op) == [nc_msg_create(doc) EXCEPT !.type = type, !.op = op]

\* a filter of another type than subtree is skipped with a warning
process_filter_param(doc, filter) ==
  [doc EXCEPT !.filter = IF filter = "subtree" THEN "subtree" ELSE "none"]

nc_rpc_closesession == Rpc(Element("close-session", "base"), "session", "close-session")

nc_rpc_getconfig(source, filter) ==
  IF source \notin Stores THEN NoRpc
  ELSE [Rpc(process_filter_param([Element("get-config", "base") EXCEPT !.source = {source}],
                                 filter), "read", "get-config")
        EXCEPT !.source = source]

nc_rpc_get(filter) ==
  Rpc(process_filter_param(Element("get", "base"), filter), "read", "get")

\* running cannot be deleted
nc_rpc_deleteconfig(target, url) ==
  IF target \notin {"startup", "candidate", "url"} THEN NoRpc
  ELSE [Rpc([Element("delete-config", "base") EXCEPT
               !.target = {target}, !.data = IF target = "url" THEN url ELSE @],
            "write", "delete-config")
        EXCEPT !.target = target]

LockRequest(op, target) ==
  IF target \notin Stores THEN NoRpc
  ELSE [Rpc([Element(op, "base") EXCEPT !.target = {target}], "write", op)
        EXCEPT !.target = target]

nc_rpc_lock(target) == LockRequest("lock", target)
nc_rpc_unlock(target) == LockRequest("unlock", target)

\* a <config> must hold an element; a NULL url gives no request
nc_rpc_validate(source, data) ==
  IF \/ source \notin Stores \cup {"config", "url"}
     \/ source \in {"config", "url"} /\ data = "none"
  THEN NoRpc
  ELSE [Rpc([Element("validate", "base") EXCEPT
               !.source = {source}, !.data = IF source \in Stores THEN @ ELSE data],
            "read", "validate")
        EXCEPT !.source = source]

\* the same datastore twice is refused, but two URLs are not compared
_rpc_copyconfig(source, target, data, target_url) ==
  IF \/ source = target /\ target # "url"
     \/ source \notin Stores \cup {"config", "url"}
     \/ target \notin Stores \cup {"url"}
     \/ source = "url" /\ data = "none"
     \/ target = "url" /\ target_url = "none"
  THEN NoRpc
  ELSE [Rpc([Element("copy-config", "base") EXCEPT
               !.source = {source}, !.target = {target},
               !.data = IF source \in {"config", "url"} THEN data ELSE @],
            "write", "copy-config")
        EXCEPT !.source = source, !.target = target]

\* the wrappers that turn the string (or the libxml2 node) into the data of
\* the request: a corrupted string is refused, NULL data of the libxml2 form
\* is an empty <config>
nc_rpc_copyconfig(source, target, data, target_url) ==
  IF source = "config" /\ data = "none" THEN NoRpc
  ELSE _rpc_copyconfig(source, target, data, target_url)

ncxml_rpc_copyconfig(source, target, data, target_url) ==
  _rpc_copyconfig(source, target, data, target_url)

_rpc_editconfig_checks(target, defop, erropt, testopt) ==
  /\ target \in Stores
  /\ defop \in {"notset", "merge", "none", "replace"}
  /\ erropt \in {"notset", "stop-on-error", "continue-on-error", "rollback-on-error"}
  /\ testopt \in {"notset", "set", "test-only", "test-then-set"}

_rpc_editconfig(target, source, defop, erropt, testopt, data) ==
  IF \/ ~_rpc_editconfig_checks(target, defop, erropt, testopt)
     \/ source \notin {"config", "url"}
  THEN NoRpc
  ELSE [Rpc([Element("edit-config", "base") EXCEPT
               !.target = {target}, !.defop = Optional(defop),
               !.erropt = Optional(erropt), !.testopt = Optional(testopt),
               !.edit = {source}, !.data = data],
            "write", "edit-config")
        EXCEPT !.target = target]

nc_rpc_editconfig(target, source, defop, erropt, testopt, data) ==
  IF source = "config" /\ data = "none" THEN NoRpc
  ELSE _rpc_editconfig(target, source, defop, erropt, testopt, data)

\* the libxml2 form makes an empty <config> of NULL
ncxml_rpc_editconfig(target, source, defop, erropt, testopt, data) ==
  _rpc_editconfig(target, source, defop, erropt, testopt, data)

nc_rpc_killsession(sid) ==
  IF sid = "none" THEN NoRpc
  ELSE Rpc([Element("kill-session", "base") EXCEPT !.data = sid], "session", "kill-session")

nc_rpc_getschema(name) ==
  IF name = "none" THEN NoRpc
  ELSE Rpc([Element("get-schema", "monitoring") EXCEPT !.data = name], "read", "get-schema")

nc_rpc_subscribe(stream, filter) ==
  Rpc(process_filter_param([Element("create-subscription", "notifications") EXCEPT
                              !.data = stream], filter),
      "session", "create-subscription")

nc_rpc_commit ==
  [Rpc(Element("commit", "base"), "write", "commit")
   EXCEPT !.source = "candidate", !.target = "running"]

nc_rpc_discardchanges == Rpc(Element("discard-changes", "base"), "write", "discard-changes")

nc_rpc_generic(doc) == IF doc.name = "none" THEN NoRpc ELSE nc_msg_create(doc)

\* mutant: the mode is left out of the message
nc_rpc_capability_attr_struct(rpc, mode) ==
  IF rpc.op \notin {"get", "get-config", "copy-config"} THEN rpc
  ELSE [rpc EXCEPT !.with_defaults = mode]

\* nc_rpc_capability_attr: the element is looked for directly under <rpc>,
\* where none is ever put, and is created in the operation element: setting a
\* mode always adds an element and unsetting it removes none
nc_rpc_capability_attr(rpc, mode) ==
  IF rpc.op \notin {"get", "get-config", "copy-config"} THEN rpc
  ELSE [rpc EXCEPT !.with_defaults = mode,
                   !.doc.wd = IF mode = "notset" THEN @ ELSE Append(@, mode)]

(***************************************************************************)
(* The server: reading a request                                           *)
(***************************************************************************)
BaseOps == {"copy-config", "delete-config", "edit-config", "get", "validate", "get-config",
            "lock", "unlock", "commit", "discard-changes", "kill-session", "close-session"}

\* the operation is known by its name in the namespace that defines it
nc_rpc_assign_op(rpc) ==
  LET doc == rpc.doc
      known == \/ doc.ns = "base" /\ doc.name \in BaseOps
               \/ doc.ns = "monitoring" /\ doc.name = "get-schema"
               \/ doc.ns = "notifications" /\ doc.name = "create-subscription"
  IN [rpc EXCEPT !.op = IF known THEN doc.name ELSE @]

nc_rpc_parse_type(rpc) ==
  [rpc EXCEPT !.type =
     CASE rpc.op \in {"get-config", "get-schema", "get", "validate"} -> "read"
       [] rpc.op \in {"edit-config", "copy-config", "delete-config", "lock", "unlock",
                      "commit", "discard-changes"} -> "write"
       [] rpc.op \in {"close-session", "kill-session", "create-subscription"} -> "session"
       [] OTHER -> "unknown"]

\* the first of the five that occurs, in the order of the queries
FirstStore(names) ==
  LET order == <<"candidate", "running", "startup", "url", "config">>
      found == {i \in 1..5 : order[i] \in names}
  IN IF found = {} THEN "error" ELSE order[CHOOSE i \in found : \A j \in found : i <= j]

nc_rpc_assign_source(rpc) ==
  [rpc EXCEPT !.source = IF rpc.op = "commit" THEN "candidate" ELSE FirstStore(rpc.doc.source)]

nc_rpc_assign_target(rpc) ==
  [rpc EXCEPT !.target = IF rpc.op = "commit" THEN "running" ELSE FirstStore(rpc.doc.target)]

\* the mode is taken from exactly one element; two leave it unset
nc_rpc_parse_withdefaults(rpc) ==
  IF rpc.with_defaults # "notset" THEN rpc
  ELSE [rpc EXCEPT !.with_defaults =
          IF Len(rpc.doc.wd) = 1 /\ rpc.doc.wd[1] \in Modes THEN rpc.doc.wd[1] ELSE "notset"]

\* nc_rpc_get_defop, nc_rpc_get_erropt, nc_rpc_get_testopt
OneOf(texts, values) ==
  IF texts = <<>> THEN "notset"
  ELSE IF Len(texts) = 1 /\ texts[1] \in values THEN texts[1] ELSE "error"

nc_rpc_get_defop(rpc) == OneOf(rpc.doc.defop, {"merge", "replace", "none"})
nc_rpc_get_erropt(rpc) ==
  OneOf(rpc.doc.erropt, {"stop-on-error", "continue-on-error", "rollback-on-error"})
nc_rpc_get_testopt(rpc) == OneOf(rpc.doc.testopt, {"set", "test-only", "test-then-set"})

nc_rpc_get_filter(rpc) ==
  IF rpc.doc.name \in {"get", "get-config", "create-subscription"} THEN rpc.doc.filter
  ELSE "none"

\* ncxml_rpc_get_cfg_common with url = 1: the document the URL names is
\* downloaded; "failed" when it cannot be or holds no <config>
Download(url, Fetched) == IF url \in DOMAIN Fetched THEN Fetched[url] ELSE "failed"

\* only copy-config downloads; edit-config and validate take the text of <url>
\* for the configuration
nc_rpc_get_cfg_copyconfig(rpc, Fetched) ==
  IF "config" \in rpc.doc.source THEN rpc.doc.data
  ELSE IF "url" \in rpc.doc.source THEN Download(rpc.doc.data, Fetched) ELSE "null"

nc_rpc_get_cfg_editconfig(rpc) == IF rpc.doc.edit # {} THEN rpc.doc.data ELSE "null"

nc_rpc_get_cfg_validate(rpc) ==
  IF rpc.doc.source \cap {"config", "url"} # {} THEN rpc.doc.data ELSE "null"

nc_rpc_get_config(rpc, Fetched) ==
  CASE rpc.op = "copy-config" -> nc_rpc_get_cfg_copyconfig(rpc, Fetched)
    [] rpc.op = "edit-config" -> nc_rpc_get_cfg_editconfig(rpc)
    [] rpc.op = "validate" -> nc_rpc_get_cfg_validate(rpc)
    [] OTHER -> "null"

\* the libxml2 forms: the one for copy-config looks for <config> inside a
\* <validate> element, which a copy-config message does not have
ncxml_rpc_get_cfg_copyconfig(rpc, Fetched) ==
  IF rpc.doc.name = "validate" /\ "config" \in rpc.doc.source THEN rpc.doc.data
  ELSE IF "url" \in rpc.doc.source THEN Download(rpc.doc.data, Fetched) ELSE "null"

ncxml_rpc_get_cfg_editconfig(rpc) == IF rpc.doc.edit # {} THEN rpc.doc.data ELSE "null"

ncxml_rpc_get_cfg_validate(rpc) ==
  IF rpc.doc.source \cap {"config", "url"} # {} THEN rpc.doc.data ELSE "null"

ncxml_rpc_get_config(rpc, Fetched) ==
  CASE rpc.op = "copy-config" -> ncxml_rpc_get_cfg_copyconfig(rpc, Fetched)
    [] rpc.op = "edit-config" -> ncxml_rpc_get_cfg_editconfig(rpc)
    [] rpc.op = "validate" -> ncxml_rpc_get_cfg_validate(rpc)
    [] OTHER -> "null"

\* nc_rpc_build: the same steps for a dumped message, where a missing
\* parameter gives no request and commit gets no datastores
NeedsSource(op) == op \in {"get-config", "copy-config", "validate"}
NeedsTarget(op) == op \in {"edit-config", "copy-config", "delete-config", "lock", "unlock"}

nc_rpc_build(doc) ==
  LET r1 == nc_rpc_assign_op(nc_msg_create(doc))
      r2 == IF NeedsSource(r1.op) THEN nc_rpc_assign_source(r1) ELSE r1
      r3 == IF NeedsTarget(r2.op) THEN nc_rpc_assign_target(r2) ELSE r2
  IN IF \/ NeedsSource(r3.op) /\ r3.source = "error"
        \/ NeedsTarget(r3.op) /\ r3.target = "error"
     THEN NoRpc
     ELSE nc_rpc_parse_withdefaults(nc_rpc_parse_type(r3))

(***************************************************************************)
(* Errors: an nc_err structure is a function of its parameters             *)
(***************************************************************************)
ErrParams == {"tag", "type", "severity", "apptag", "path", "attribute", "element", "ns", "sid"}

\* nc_err_new: the predefined errors of RFC 6241 (their messages left out)
nc_err_new(tag) ==
  [p \in ErrParams |->
    CASE p = "tag" -> tag
      [] p = "type" -> IF tag \in {"lock-denied", "resource-denied"} THEN "protocol"
                       ELSE IF tag = "malformed-message" THEN "rpc" ELSE "application"
      [] p = "severity" -> "error"
      [] OTHER -> "null"]

nc_err_set(err, param, value) == [err EXCEPT ![param] = value]

\* the element that carries a parameter
ErrElement(param) ==
  CASE param \in {"tag", "type", "severity", "path"} -> <<"error", param>>
    [] param = "apptag" -> <<"error", "app-tag">>
    [] param \in {"attribute", "element"} -> <<"bad", param>>
    [] param = "ns" -> <<"bad", "namespace">>
    [] param = "sid" -> <<"session", "id">>

\* the element nc_err_parse looks for: it misspells the one of the attribute
ErrParsed(param) == IF param = "attribute" THEN <<"bad", "atribute">> ELSE ErrElement(param)

\* one <rpc-error>: the elements of the parameters that are set
ErrorContent(err) ==
  [el \in {ErrElement(p) : p \in {q \in ErrParams : err[q] # "null"}} |->
    err[CHOOSE p \in ErrParams : ErrElement(p) = el]]

new_reply_error_content(es) == [i \in DOMAIN es |-> ErrorContent(es[i])]

\* the last <rpc-error> comes first in the list
nc_err_parse(doc) ==
  Reverse([i \in DOMAIN doc |->
    [p \in ErrParams |-> IF ErrParsed(p) \in DOMAIN doc[i] THEN doc[i][ErrParsed(p)]
                         ELSE "null"]])

(***************************************************************************)
(* Replies                                                                 *)
(*                                                                         *)
(* A reply is its type, the rpc-error elements of its document and the     *)
(* list of nc_err structures beside it, and the pieces of its <data>.      *)
(***************************************************************************)
NoReply == [type |-> "null"]

nc_reply_ok == [type |-> "ok", doc |-> <<>>, errors |-> <<>>, data |-> <<>>]
nc_reply_data(data) == [type |-> "data", doc |-> <<>>, errors |-> <<>>, data |-> <<data>>]
nc_reply_error(es) ==
  [type |-> "error", doc |-> new_reply_error_content(es), errors |-> es, data |-> <<>>]

\* mutant: the description is left out of the document that is sent
nc_reply_error_add_struct(reply, es) ==
  IF reply.type # "error" \/ es = <<>> THEN reply
  ELSE [reply EXCEPT !.errors = <<es[Len(es)]>> \o @]

\* all the added errors reach the document; the struct's list gets the last
nc_reply_error_add(reply, es) ==
  IF reply.type # "error" \/ es = <<>> THEN reply
  ELSE [reply EXCEPT !.doc = @ \o new_reply_error_content(es),
                     !.errors = <<es[Len(es)]>> \o @]

\* the type of the merged reply while the arguments are read, "clash" when two
\* of them cannot be merged (ok with data, or an unknown type with another)
MergeType(type, next) ==
  IF type \in {"clash", next} THEN type
  ELSE IF type = "none" THEN next
  ELSE IF "unknown" \in {type, next} \/ {type, next} = {"ok", "data"} THEN "clash"
  ELSE "error"

MergedType(replies) ==
  FoldLeft(LAMBDA type, r : MergeType(type, r.type), "none", replies)

\* nc_err_dup copies the first of the listed errors only
nc_reply_dup(reply) ==
  [reply EXCEPT !.errors = IF @ = <<>> THEN @ ELSE <<Head(@)>>]

MergedErrors(replies) ==
  FoldLeft(LAMBDA merged, r : IF r.type # "error" THEN merged
                              ELSE IF merged = NoReply THEN nc_reply_dup(r)
                              ELSE nc_reply_error_add(merged, r.errors),
           NoReply, replies)

Joined(replies) == FlattenSeq([i \in DOMAIN replies |-> replies[i].data])

\* nc_reply_merge: NULL replies are left out, one reply is copied
nc_reply_merge(args) ==
  LET replies == SelectSeq(args, LAMBDA r : r # NoReply)
      type == MergedType(replies)
  IN CASE replies = <<>> -> NoReply
       [] Len(replies) = 1 -> nc_reply_dup(replies[1])
       [] Len(replies) > 1 /\ type = "clash" -> nc_reply_error(<<nc_err_new("operation-failed")>>)
       [] Len(replies) > 1 /\ type = "ok" -> nc_reply_ok
       [] Len(replies) > 1 /\ type = "data" -> [nc_reply_data("") EXCEPT !.data = Joined(replies)]
       [] Len(replies) > 1 /\ type = "error" -> MergedErrors(replies)
       [] OTHER -> NoReply

\* nc_reply_parse_type: what the client reads out of the document
nc_reply_parse_type(reply) ==
  IF reply.type = "error" THEN [reply EXCEPT !.errors = nc_err_parse(reply.doc)] ELSE reply
=============================================================================
