-------------------------------- MODULE Nacm --------------------------------
(***************************************************************************)
(* nacm.c: the access control rules, as the library keeps them in memory,  *)
(* and the decisions it takes from them.                                   *)
(*                                                                         *)
(* A configuration is the content of the NACM datastore with its default   *)
(* values filled in: the five scalars as texts, `groups` (a sequence of    *)
(* names with their users) and `lists` (a sequence of rule-lists: a set of *)
(* group names and a sequence of <rule> elements).  A <rule> has a module, *)
(* the rule-type cases it names, the listed access operations and an       *)
(* action.  nacm_config is the same with the rules parsed.  A node of data *)
(* or of a schema is the sequence of the names on the way to it.           *)
(* A "*" that follows another group of its rule-list leaves freed strings  *)
(* in the list; such configurations are left out.                          *)
(***************************************************************************)
EXTENDS Naturals, SequencesExt, FiniteSets

Accesses == <<"create", "read", "update", "delete", "exec">>
AllAccess == {Accesses[i] : i \in DOMAIN Accesses}
NoRule == [type |-> "null"]
NoNacm == [exec |-> "null"]

\* what the static nacm_config holds before the first refresh
InitialConfig ==
  [enabled |-> "false", read |-> "permit", write |-> "deny", exec |-> "permit",
   external |-> "true", groups |-> <<>>, lists |-> <<>>]

(***************************************************************************)
(* Reading the configuration                                               *)
(***************************************************************************)
\* access-operations is tested by an else-if chain: of several listed
\* operations the first in the order of Accesses is kept
RuleAccess(listed) ==
  IF "*" \in listed THEN AllAccess
  ELSE LET found == {i \in DOMAIN Accesses : Accesses[i] \in listed}
       IN IF found = {} THEN {}
          ELSE {Accesses[CHOOSE i \in found : \A j \in found : i <= j]}

nacm_get_rule(node) ==
  IF \/ Len(node.cases) > 1
     \/ node.action \notin {"permit", "deny"}
     \/ RuleAccess(node.access) = {}
  THEN NoRule
  ELSE [type |-> IF node.cases = <<>> THEN "notset" ELSE node.cases[1].type,
        names |-> IF node.cases = <<>> THEN {} ELSE node.cases[1].names,
        module |-> node.module, access |-> RuleAccess(node.access),
        action |-> node.action]

IsRule(rule) == rule # NoRule

\* a group without users, and a rule-list without groups or <rule> elements,
\* are dropped; a rule that does not parse is left out of its list
ReadGroups(groups) == SelectSeq(groups, LAMBDA g : g.users # {})

ReadLists(lists) ==
  LET kept == SelectSeq(lists, LAMBDA l : l.groups # {} /\ l.rules # <<>>)
  IN [i \in DOMAIN kept |->
       [groups |-> IF "*" \in kept[i].groups THEN {"*"} ELSE kept[i].groups,
        rules |-> SelectSeq([j \in DOMAIN kept[i].rules |->
                              nacm_get_rule(kept[i].rules[j])], IsRule)]]

\* the scalars in the order they are read
Scalars == <<"enabled", "read", "write", "exec", "external">>
ValidText(field) ==
  IF field \in {"enabled", "external"} THEN {"true", "false"} ELSE {"permit", "deny"}

\* nacm_config_refresh after the datastore was read: the first scalar with an
\* invalid value ends it, and what was read before stays
ReadConfig(mem, conf) ==
  LET valid == {n \in 0..5 : \A i \in 1..n : conf[Scalars[i]] \in ValidText(Scalars[i])}
      upto == CHOOSE n \in valid : \A k \in valid : k <= n
      read == {Scalars[i] : i \in 1..upto}
              \cup (IF upto = 5 THEN {"groups", "lists"} ELSE {})
  IN [f \in DOMAIN mem |->
       CASE f \notin read -> mem[f]
         [] f \in read /\ f = "groups" -> ReadGroups(conf.groups)
         [] f \in read /\ f = "lists" -> ReadLists(conf.lists)
         [] OTHER -> conf[f]]

(***************************************************************************)
(* The rules of one request                                                *)
(***************************************************************************)
UserGroups(mem, session) ==
  {mem.groups[i].name : i \in {k \in DOMAIN mem.groups : session.user \in mem.groups[k].users}}
  \cup (IF mem.external = "true" THEN session.groups ELSE {})

\* mutant: only the first rule-list of the user's groups is taken
nacm_rpc_struct_first(mem, session) ==
  LET groups == UserGroups(mem, session)
      mine == SelectSeq(mem.lists, LAMBDA l : (l.groups \cap groups) # {})
  IN [read |-> mem.read, write |-> mem.write, exec |-> mem.exec,
      lists |-> IF mine = <<>> THEN <<>> ELSE <<mine[1]>>]

\* a user without any group gets no rule-list, not even one for "*"
nacm_rpc_struct(mem, session) ==
  LET groups == UserGroups(mem, session)
  IN [read |-> mem.read, write |-> mem.write, exec |-> mem.exec,
      lists |-> SelectSeq(mem.lists,
                          LAMBDA l : \E g \in groups : l.groups \cap {g, "*"} # {})]

AllRules(nacm) == FlattenSeq([i \in DOMAIN nacm.lists |-> nacm.lists[i].rules])

\* the action of the first matching rule, "none" when no rule matches
FirstAction(rules) == IF rules = <<>> THEN "none" ELSE rules[1].action

\* compare_node_to_model: a node at the root of its document is taken for one
\* whose definition is NOT at the top of the module.  def starts with the name
\* of the module.
compare_node_to_model(node, def) ==
  /\ Len(def) >= Len(node)
  /\ node = SubSeq(def, Len(def) - Len(node) + 1, Len(def))
  /\ Len(def) # Len(node) + 1

DefaultDenied(node, defs) == \E def \in defs : compare_node_to_model(node, def)

\* nacm_check_operation: op is the name of the element in the message, known
\* what nc_rpc_get_op says (nothing before nc_rpc_assign_op), module the one
\* that defines the operation ("none": no module does), deny_all the schema
\* nodes with nacm:default-deny-all
nacm_check_operation(nacm, op, known, module, deny_all) ==
  LET matches(r) == /\ r.module \in {"*", module}
                    /\ \/ r.type = "notset"
                       \/ r.type = "operation" /\ r.names \cap {"*", op} # {}
                    /\ "exec" \in r.access
      action == IF module = "none" THEN "none"
                ELSE FirstAction(SelectSeq(AllRules(nacm), matches))
  IN IF nacm = NoNacm THEN "permit"
     ELSE IF action # "none" THEN action
     ELSE IF module # "none" /\ DefaultDenied(<<"rpc", op>>, deny_all) THEN "deny"
     ELSE IF known \in {"delete-config", "kill-session"} THEN "deny"
     ELSE nacm.exec

\* nacm_check_data: the names of a data rule are the nodes its path selects;
\* <<>> among them stands for a path that cannot be evaluated, which matches
nacm_check_data(nacm, node, access, module, deny_all, deny_write) ==
  LET matches(r) == /\ r.module \in {"*", module}
                    /\ access \in r.access
                    /\ r.type = "notset" \/ (r.type = "data" /\ r.names \cap {node, <<>>} # {})
      action == IF module = "none" THEN "none"
                ELSE FirstAction(SelectSeq(AllRules(nacm), matches))
      writes == access \in {"create", "delete", "update"}
  IN IF nacm = NoNacm THEN "permit"
     ELSE IF action # "none" THEN action
     ELSE IF \/ module # "none" /\ DefaultDenied(node, deny_all)
             \/ module # "none" /\ writes /\ DefaultDenied(node, deny_write) THEN "deny"
     ELSE IF access = "read" THEN nacm.read
     ELSE IF writes THEN nacm.write ELSE "deny"

\* nacm_check_data_read: a denied node goes with all that is under it
nacm_check_data_read(nacm, nodes, module, deny_all) ==
  {n \in nodes : \A k \in 1..Len(n) :
     nacm_check_data(nacm, SubSeq(n, 1, k), "read", module, deny_all, {}) # "deny"}

\* nacm_check_notification for a session that is not in recovery, after the
\* refresh; the two events that end a replay or a subscription always pass
nacm_check_notification(mem, session, event, module, deny_all) ==
  LET nacm == nacm_rpc_struct(mem, session)
      matches(r) == /\ r.module \in {"*", module}
                    /\ \/ r.type = "notset"
                       \/ r.type = "notification" /\ r.names \cap {"*", event} # {}
                    /\ "read" \in r.access
      action == IF module = "none" THEN "none"
                ELSE FirstAction(SelectSeq(AllRules(nacm), matches))
  IN IF mem.enabled = "false" \/ event \in {"replayComplete", "notificationComplete"}
     THEN "permit"
     ELSE IF action # "none" THEN action
     ELSE IF module # "none" /\ DefaultDenied(<<"notification", event>>, deny_all) THEN "deny"
     ELSE nacm.read
=============================================================================
