----------------------------- MODULE MCApplyRpc -----------------------------
(* Instances of ApplyRpc. *)
EXTENDS ApplyRpc

CONSTANTS s1, s2, nobody, a

\* two user datastores, NACM (1) and an empty internal datastore (0)
UsedList == <<3, 2, 1, 0>>

RpcOf(op, sid, tg, src, for, erropt, testopt) ==
  [op |-> op, sid |-> sid, tg |-> tg, src |-> src, for |-> for,
   new |-> IF for = {} THEN {} ELSE {a}, erropt |-> erropt, testopt |-> testopt]

Plain(op, sid, tg, src) == RpcOf(op, sid, tg, src, {}, "notset", "notset")

Edits ==
  {RpcOf("editconfig", s1, "running", "config", for, erropt, testopt) :
     for \in {{3, 2}, {3, 1}, {2}}, erropt \in {"stop", "continue", "rollback"},
     testopt \in {"notset", "set", "test-only"}}

Others ==
  {RpcOf("editconfig", s2, "candidate", "config", {3, 2}, "notset", "notset"),
   RpcOf("copyconfig", s2, "running", "config", {3, 2}, "notset", "notset"),
   RpcOf("copyconfig", s1, "url", "url", {3}, "notset", "notset"),
   Plain("copyconfig", s1, "running", "config"),
   Plain("copyconfig", s1, "running", "candidate"),
   Plain("copyconfig", s1, "running", "running"),
   Plain("copyconfig", s1, "url", "running"),
   Plain("lock", s2, "running", "running"),
   Plain("unlock", s2, "running", "running"),
   Plain("deleteconfig", s1, "candidate", "running"),
   Plain("deleteconfig", s1, "running", "running"),
   Plain("deleteconfig", s1, "url", "running"),
   Plain("commit", s1, "running", "candidate"),
   Plain("discard", s1, "candidate", "running")}
  \cup {Plain(op, s1, "running", "running") : op \in ReadOnlyOps \cup {"userrpc"}}

UsedRpcs == Edits \cup Others
=============================================================================
