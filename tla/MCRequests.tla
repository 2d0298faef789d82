----------------------------- MODULE MCRequests -----------------------------
(* Requests on a small instance: three sessions, three NACM configurations. *)
EXTENDS Requests

Rule(cases, module, access, action) ==
  [cases |-> cases, module |-> module, access |-> access, action |-> action]
Case(type, names) == [type |-> type, names |-> names]

Default ==
  [enabled |-> "true", read |-> "permit", write |-> "deny", exec |-> "permit",
   external |-> "true", groups |-> <<>>, lists |-> <<>>]

\* the first list permits what the second one denies to everyone
Ruled ==
  [Default EXCEPT
    !.exec = "deny",
    !.groups = <<[name |-> "admin", users |-> {"alice"}], [name |-> "empty", users |-> {}]>>,
    !.lists =
      <<[groups |-> {"admin"},
         rules |-> <<Rule(<<Case("operation", {"get-config", "kill-session"})>>, "*", {"exec"}, "permit"),
                     Rule(<<Case("operation", {"edit-config"})>>, "base", {"read", "exec"}, "deny"),
                     Rule(<<Case("notification", {"alarm"})>>, "base", {"read"}, "deny"),
                     Rule(<<>>, "monitoring", {"*"}, "permit")>>],
        [groups |-> {"*"},
         rules |-> <<Rule(<<Case("operation", {"get-config"})>>, "*", {"*"}, "deny"),
                     Rule(<<Case("data", {<<"top", "leaf">>})>>, "*", {"*"}, "deny"),
                     Rule(<<Case("operation", {"*"})>>, "base", {"exec"}, "none"),
                     Rule(<<Case("operation", {"get", "edit-config"})>>, "base", {"exec"}, "permit")>>]>>]

\* the second scalar does not parse
Broken == [Default EXCEPT !.enabled = "true", !.read = "wrong", !.exec = "deny"]
Off == [Ruled EXCEPT !.enabled = "false"]

MCConfigs == {Ruled, Broken, Off}

MCSessions ==
  {[user |-> "alice", groups |-> {}, recovery |-> FALSE,
    caps |-> {"notification", "candidate", "monitoring"}, wd |-> {"report-all", "explicit"}],
   [user |-> "bob", groups |-> {"staff"}, recovery |-> FALSE, caps |-> {}, wd |-> {}],
   [user |-> "root", groups |-> {}, recovery |-> TRUE, caps |-> {"candidate"},
    wd |-> {"report-all", "trim"}]}

MCDocuments ==
  {[Element("get", "base") EXCEPT !.wd = <<"trim">>],
   Element("copy-config", "base"),
   [Element("copy-config", "base") EXCEPT !.source = {"running"}],
   [Element("lock", "other") EXCEPT !.target = {"running"}],
   Element("none", "base")}

MCStoreArgs == {"running", "candidate", "config", "url"}
MCData == {"A"}
MCFetched == [u \in {"url_a"} |-> "A"]
MCModule ==
  [op \in BaseOps \cup {"get-schema", "create-subscription"} |->
    IF op = "get-schema" THEN "monitoring"
    ELSE IF op = "create-subscription" THEN "none" ELSE "base"]
MCDenyAll == {<<"base", "discard-changes">>, <<"base", "top", "secret">>}
MCNodes == {<<"top">>, <<"top", "leaf">>, <<"top", "secret">>}
=============================================================================
