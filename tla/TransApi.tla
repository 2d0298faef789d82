------------------------------ MODULE TransApi ------------------------------
(***************************************************************************)
(* transapi_running_changed (src/transapi/transapi.c): the callbacks of a  *)
(* device module are called for the tree of differences between the old    *)
(* and the new running configuration, and called again to undo what was    *)
(* applied when one of them fails under rollback-on-error.                 *)
(*                                                                         *)
(* A node of the tree is a changed element.  Some paths have a callback,   *)
(* numbered by its place in the module's table.  The content of the        *)
(* document new_doc is left out: ncds_apply_transapi frees it unread when  *)
(* a callback fails, so the revert under stop-on-error, which only         *)
(* touches that document, has no effect that can be seen.                  *)
(***************************************************************************)
EXTENDS Integers, Sequences, FiniteSets, FiniteSetsExt, DeviceOutcomes

CONSTANTS
  Nodes,       \* the nodes of the trees: 1..n, in the order of the lists
  Diffs,       \* the trees of differences
  Orders,      \* the values of clbks_order
  Erropts,     \* the values of error-option
  MaxFails     \* bound on the callbacks that fail when they undo

PRIORITY_NONE == -1
Top == 0       \* the parent of the roots

DiffTree == [parent : [Nodes -> Nodes \cup {Top}],
             op : [Nodes -> {"ADD", "REM", "MOD"}],
             clbk : [Nodes -> Nat \cup {PRIORITY_NONE}]]

ASSUME TransApiAssumption ==
  /\ Nodes = 1..Cardinality(Nodes)
  /\ Diffs \subseteq DiffTree
  /\ \A d \in Diffs : \A n \in Nodes : d.parent[n] < n
  /\ Orders \subseteq {"LEAF_TO_ROOT", "ROOT_TO_LEAF"}
  /\ Erropts \subseteq {"stop", "continue", "rollback"}
  /\ MaxFails \in Nat

VARIABLES
  diff,        \* the tree
  order,       \* info.order
  erropt,      \* the error-option of the request
  phase,       \* apply, revert, done
  iter,        \* the root the loop of transapi_running_changed is at
  cur,         \* the node the recursion is at
  at,          \* what it does there: its own callback, or its children
  applied,     \* tree->applied
  kidFailed,   \* APPLY_CALLBACK_CONTINUE: a child failed, go on
  ret,         \* has a root failed?
  seen,        \* the nodes the second recursion has entered
  device,      \* the part of the device each callback configures
  calls,       \* history: the callbacks called to apply, in order
  failed,      \* history: those that failed
  undone,      \* history: the nodes whose callback was called to undo
  stuck        \* history: the callbacks that failed to undo

vars == <<diff, order, erropt, phase, iter, cur, at, applied, kidFailed, ret, seen,
          device, calls, failed, undone, stuck>>
input == <<diff, order, erropt>>

(***************************************************************************)
(* The tree                                                                *)
(***************************************************************************)
Parent(n) == diff.parent[n]
Kids(n) == {k \in Nodes : Parent(k) = n}
Callback(n) == diff.clbk[n] # PRIORITY_NONE

\* the ancestors of a node, itself included
Up[n \in Nodes \cup {Top}] == IF n = Top THEN {} ELSE {n} \cup Up[Parent(n)]
Below(n) == {k \in Nodes : n \in Up[k]}

\* xmldiff_set_priority_recursive: a node has the number of its callback, or
\* the lowest one of the callbacks below it
Priority(n) ==
  LET ps == {diff.clbk[k] : k \in {j \in Below(n) : Callback(j)}} IN
  IF Callback(n) THEN diff.clbk[n] ELSE IF ps = {} THEN PRIORITY_NONE ELSE Min(ps)

\* a child has a callback, or one below it has: CHAIN is added to the
\* operation of the node
Chain(n) == \E k \in Kids(n) : Priority(k) # PRIORITY_NONE

\* xmldiff_set_priorities succeeds
HasPriorities == \A n \in Kids(Top) : Priority(n) # PRIORITY_NONE

(***************************************************************************)
(* Applying the changes                                                    *)
(***************************************************************************)
NextRoot(n) ==
  LET later == {r \in Kids(Top) : r > n} IN IF later = {} THEN Top ELSE Min(later)

\* the end of the loop over the roots
Finished(failure) ==
  IF failure /\ erropt = "rollback" THEN "revert" ELSE "done"

\* the recursion starts at node n
Start(n) ==
  /\ cur' = n
  /\ IF order = "LEAF_TO_ROOT"
     THEN /\ at' = "kids"
          /\ applied' = [applied EXCEPT ![n] = "APPLYING_CHILDREN"]
     ELSE at' = "own" /\ UNCHANGED applied

ApplyRoot ==
  /\ phase = "apply"
  /\ cur = Top
  /\ iter # Top
  /\ Start(iter)
  /\ iter' = NextRoot(iter)
  /\ UNCHANGED <<input, phase, kidFailed, ret, seen, device, calls, failed, undone, stuck>>

RootsApplied ==
  /\ phase = "apply"
  /\ cur = Top
  /\ iter = Top
  /\ phase' = Finished(ret)
  /\ iter' = NextRoot(Top)
  /\ UNCHANGED <<input, cur, at, applied, kidFailed, ret, seen, device, calls, failed,
                 undone, stuck>>

\* mutant: only children with a callback of their own are looked at
WaitingOwn(n) == {k \in Kids(n) : Callback(k) /\ applied[k] = "NONE"}

\* the children whose turn has not come
Waiting(n) == {k \in Kids(n) : Priority(k) # PRIORITY_NONE /\ applied[k] = "NONE"}

\* mutant: the children are taken in the order of the list
FirstInList(n) == {Min(Waiting(n))}

\* the one the loop of transapi_apply_callbacks_recursive_children chooses
CurMin(n) ==
  {Min({k \in Waiting(n) : \A j \in Waiting(n) : Priority(k) <= Priority(j)})}

ApplyChild ==
  /\ phase = "apply"
  /\ cur # Top
  /\ at = "kids"
  /\ Waiting(cur) # {}
  /\ \E k \in CurMin(cur) : Start(k)
  /\ UNCHANGED <<input, phase, iter, kidFailed, ret, seen, device, calls, failed, undone,
                 stuck>>

\* transapi_apply_callbacks_recursive returns EXIT_SUCCESS
Succeed(n, status) ==
  /\ applied' = [applied EXCEPT ![n] = status]
  /\ cur' = Parent(n)
  /\ at' = "kids"
  /\ UNCHANGED <<ret, kidFailed>>

\* It returns EXIT_FAILURE: under continue-on-error the parent goes on,
\* otherwise all callers up to the root give up.
Fail(n) ==
  LET ups == Up[n] \ {n} IN
  IF erropt = "continue" /\ Parent(n) # Top
  THEN /\ applied' = [applied EXCEPT ![n] = "ERROR"]
       /\ kidFailed' = [kidFailed EXCEPT ![Parent(n)] = TRUE]
       /\ cur' = Parent(n)
       /\ at' = "kids"
       /\ UNCHANGED ret
  ELSE /\ applied' = [k \in Nodes |->
                        CASE k = n -> "ERROR"
                          [] k \in ups /\ order = "ROOT_TO_LEAF" -> "NOT_FULLY"
                          [] OTHER -> applied[k]]
       /\ cur' = Top
       /\ at' = "kids"
       /\ ret' = TRUE
       /\ UNCHANGED kidFailed

\* the loop over the children ends
KidsDone ==
  /\ phase = "apply"
  /\ cur # Top
  /\ at = "kids"
  /\ Waiting(cur) = {}
  /\ IF order = "LEAF_TO_ROOT"
     THEN /\ at' = "own"
          /\ applied' = [applied EXCEPT ![cur] =
                           IF kidFailed[cur] THEN "CHILDREN_ERROR" ELSE "CHILDREN_NO_ERROR"]
          /\ UNCHANGED <<cur, kidFailed, ret>>
     ELSE Succeed(cur, IF kidFailed[cur] THEN "NOT_FULLY" ELSE "FULLY")
  /\ UNCHANGED <<input, phase, iter, seen, device, calls, failed, undone, stuck>>

\* what follows the node's own callback when it succeeds
OwnDone ==
  IF order = "LEAF_TO_ROOT"
  THEN Succeed(cur, IF applied[cur] = "CHILDREN_NO_ERROR" THEN "FULLY" ELSE "NOT_FULLY")
  ELSE /\ applied' = [applied EXCEPT ![cur] = "APPLYING_CHILDREN"]
       /\ at' = "kids"
       /\ UNCHANGED <<cur, kidFailed, ret>>

NoCallback ==
  /\ phase = "apply"
  /\ at = "own"
  /\ ~Callback(cur)
  /\ OwnDone
  /\ UNCHANGED <<input, phase, iter, seen, device, calls, failed, undone, stuck>>

\* the elements a callback is responsible for: its own and those below it
\* for which there is no callback nearer to them
Owned(n) == {k \in Below(n) : \A j \in Up[k] : Callback(j) => j \in Up[n]}

\* What a callback configures: removing an element removes all that is below
\* it, any other operation is about the elements it is responsible for.
Reach(n, op) == IF op = "REM" THEN Below(n) ELSE Owned(n)

Configured(ns, state) == [k \in Nodes |-> IF k \in ns THEN state ELSE device[k]]

CallSucceeds ==
  /\ phase = "apply"
  /\ at = "own"
  /\ Callback(cur)
  /\ calls' = Append(calls, cur)
  /\ device' = Configured(Reach(cur, diff.op[cur]), "new")
  /\ OwnDone
  /\ UNCHANGED <<input, phase, iter, seen, failed, undone, stuck>>

CallFails ==
  /\ phase = "apply"
  /\ at = "own"
  /\ Callback(cur)
  /\ calls' = Append(calls, cur)
  /\ failed' = failed \cup {cur}
  /\ Fail(cur)
  /\ UNCHANGED <<input, phase, iter, seen, device, undone, stuck>>

(***************************************************************************)
(* Undoing them, under rollback-on-error                                   *)
(***************************************************************************)
Enter(n) ==
  /\ cur' = n
  /\ at' = IF order = "LEAF_TO_ROOT" THEN "kids" ELSE "own"
  /\ seen' = seen \cup {n}

RevertRoot ==
  /\ phase = "revert"
  /\ cur = Top
  /\ iter # Top
  /\ Enter(iter)
  /\ iter' = NextRoot(iter)
  /\ UNCHANGED <<input, phase, applied, kidFailed, ret, device, calls, failed, undone, stuck>>

RootsReverted ==
  /\ phase = "revert"
  /\ cur = Top
  /\ iter = Top
  /\ phase' = "done"
  /\ UNCHANGED <<input, iter, cur, at, applied, kidFailed, ret, seen, device, calls, failed,
                 undone, stuck>>

\* mutant: subtrees that were applied in full are left alone
OnlyUnfinished(n) ==
  {k \in Kids(n) \ seen : Priority(k) # PRIORITY_NONE /\ applied[k] \notin {"NONE", "FULLY"}}

ToRevert(n) ==
  {k \in Kids(n) \ seen : Priority(k) # PRIORITY_NONE /\ applied[k] # "NONE"}

RevertChild ==
  /\ phase = "revert"
  /\ cur # Top
  /\ at = "kids"
  /\ ToRevert(cur) # {}
  /\ Enter(Min(ToRevert(cur)))
  /\ UNCHANGED <<input, phase, iter, applied, kidFailed, ret, device, calls, failed, undone,
                 stuck>>

\* the recursion leaves the node
Leave == cur' = Parent(cur) /\ at' = "kids"

RevertKidsDone ==
  /\ phase = "revert"
  /\ cur # Top
  /\ at = "kids"
  /\ ToRevert(cur) = {}
  /\ IF order = "LEAF_TO_ROOT" THEN at' = "own" /\ UNCHANGED cur ELSE Leave
  /\ UNCHANGED <<input, phase, iter, applied, kidFailed, ret, seen, device, calls, failed,
                 undone, stuck>>

\* REVERT_CALLBACK_CONTINUE
SkipOwn == ~Callback(cur) \/ applied[cur] \in {"NONE", "APPLYING_CHILDREN"}

\* An added node with CHAIN is also looked for in the old configuration,
\* where it is not: REVERT_CALLBACK_ERROR before the callback is called.
CannotRevert == diff.op[cur] = "ADD" /\ Chain(cur)

\* After its own part the children of the node follow, in the order
\* root-to-leaf, unless it was an addition: "revert_own reversed ADD of the
\* parent (deleted the whole subtree with all the children, nothing left to
\* do)".
OwnReverted ==
  IF order = "LEAF_TO_ROOT" \/ diff.op[cur] = "ADD"
  THEN Leave
  ELSE at' = "kids" /\ UNCHANGED cur

RevertSkips ==
  /\ phase = "revert"
  /\ at = "own"
  /\ SkipOwn
  /\ OwnReverted
  /\ UNCHANGED <<input, phase, iter, applied, kidFailed, ret, seen, device, calls, failed,
                 undone, stuck>>

RevertNotFound ==
  /\ phase = "revert"
  /\ at = "own"
  /\ ~SkipOwn
  /\ CannotRevert
  /\ Leave
  /\ UNCHANGED <<input, phase, iter, applied, kidFailed, ret, seen, device, calls, failed,
                 undone, stuck>>

\* The operation that undoes the one of the node is called with the whole
\* subtree: the callback takes back what it did, and an addition is taken
\* back by a removal.
Reverse(op) == CASE op = "ADD" -> "REM" [] op = "REM" -> "ADD" [] op = "MOD" -> "MOD"
Undo(n) == Reach(n, diff.op[n]) \cup Reach(n, Reverse(diff.op[n]))

RevertSucceeds ==
  /\ phase = "revert"
  /\ at = "own"
  /\ ~SkipOwn
  /\ ~CannotRevert
  /\ undone' = undone \cup {cur}
  /\ device' = Configured(Undo(cur), "old")
  /\ OwnReverted
  /\ UNCHANGED <<input, phase, iter, applied, kidFailed, ret, seen, calls, failed, stuck>>

RevertFails ==
  /\ phase = "revert"
  /\ at = "own"
  /\ ~SkipOwn
  /\ ~CannotRevert
  /\ Cardinality(stuck) < MaxFails
  /\ stuck' = stuck \cup {cur}
  /\ Leave
  /\ UNCHANGED <<input, phase, iter, applied, kidFailed, ret, seen, device, calls, failed, undone>>

Done == phase = "done" /\ UNCHANGED vars

Init ==
  /\ diff \in Diffs
  /\ order \in Orders
  /\ erropt \in Erropts
  /\ phase = IF HasPriorities THEN "apply" ELSE "done"
  /\ iter = NextRoot(Top)
  /\ cur = Top
  /\ at = "kids"
  /\ applied = [n \in Nodes |-> "NONE"]
  /\ kidFailed = [n \in Nodes |-> FALSE]
  /\ ret = FALSE
  /\ seen = {}
  /\ device = [n \in Nodes |-> "old"]
  /\ calls = << >>
  /\ failed = {}
  /\ undone = {}
  /\ stuck = {}

Next ==
  \/ ApplyRoot \/ RootsApplied \/ ApplyChild \/ KidsDone \/ NoCallback
  \/ CallSucceeds \/ CallFails
  \/ RevertRoot \/ RootsReverted \/ RevertChild \/ RevertKidsDone
  \/ RevertSkips \/ RevertNotFound \/ RevertSucceeds \/ RevertFails
  \/ Done

Spec == Init /\ [][Next]_vars

(***************************************************************************)
(* Properties                                                              *)
(***************************************************************************)
\* The order in which a module sees its callbacks.  Of two callbacks, the one
\* of an ancestor comes first in the order root-to-leaf and second in the
\* order leaf-to-root; otherwise the subtrees of two siblings that hold them
\* are taken by priority.
InOrder ==
  \A i, j \in DOMAIN calls : i < j =>
    LET a == calls[i]
        b == calls[j]
    IN  /\ a # b
        /\ a \in Up[b] => order = "ROOT_TO_LEAF"
        /\ b \in Up[a] => order = "LEAF_TO_ROOT"
        /\ \A x \in Up[a], y \in Up[b] :
             (x # y /\ Parent(x) = Parent(y) /\ Parent(x) # Top) => Priority(x) <= Priority(y)

\* After a callback failed no other callback below the same root is called.
FailureStops ==
  erropt # "continue" =>
    \A i, j \in DOMAIN calls :
      (i < j /\ calls[i] \in failed) => Up[calls[i]] \cap Up[calls[j]] = {}

\* transapi_apply_callbacks_recursive_children: callbacks come in the order that
\* the module asked for, none of them twice, and stop-on-error and
\* rollback-on-error stop at the first failure below one root; the changes
\* below another root are still applied.
CallOrder == InOrder /\ FailureStops

\* A node under or at an addition whose children have callbacks.
InChainedAdd(n) == \E k \in Up[n] : diff.op[k] = "ADD" /\ Chain(k)

\* transapi_revert_callbacks_recursive asks a module to undo only what it was
\* asked to do; and after a failure under rollback-on-error the device is as it
\* was before, except for what a callback refused to undo and for additions
\* that have callbacks below them.
RollbackRestores ==
  /\ undone \cup stuck \subseteq {calls[i] : i \in DOMAIN calls}
  /\ (phase = "done" /\ ret /\ erropt = "rollback") =>
       \A n \in Nodes :
         \/ device[n] = "old"
         \/ \E k \in stuck : n \in Below(k)
         \/ InChainedAdd(n)

\* what the callbacks have made of the part they are responsible for
Device ==
  LET states == {device[n] : n \in {k \in Nodes : \E j \in Up[k] : Callback(j)}}
  IN  IF states \subseteq {"old"} THEN "old" ELSE IF states = {"new"} THEN "new" ELSE "mixed"

\* The result and the device are a pair that ncds_apply_transapi reckons
\* with: without continue-on-error, success means that all is configured,
\* and a failure under rollback-on-error that nothing is.
ResultTellsDevice ==
  phase = "done" =>
    [ret |-> ret, dev |-> Device] \in
      CallbackOutcomes(erropt, HasPriorities, stuck = {} /\ \A n \in Nodes : ~InChainedAdd(n))

\* "continue with processing next change, but remember that we have failed"
\* (transapi.c:331).
FailureRemembered == (phase = "done" /\ failed # {}) => ret

=============================================================================
