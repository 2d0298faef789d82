----------------------------- MODULE Datastore -----------------------------
(***************************************************************************)
(* What the file datastore promises the sessions of all processes: one     *)
(* document, to which every operation applies at one instant.              *)
(***************************************************************************)
EXTENDS DatastoreDocs

CONSTANT Requests

VARIABLE doc

Init == doc = file_create_xmlframe

\* ncds_break_locks applies unlock to every datastore in turn
Perform(r) ==
  \E tg \in Targets :
    /\ r.op = "breaklocks" \/ tg = r.tg
    /\ doc' \in Results(doc, [r EXCEPT !.tg = tg])

Next == \E r \in Requests : Perform(r)

Spec == Init /\ [][Next]_doc

=============================================================================
