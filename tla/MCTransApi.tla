----------------------------- MODULE MCTransApi -----------------------------
(* Instances of TransApi. *)
EXTENDS TransApi

Ops == {"ADD", "REM", "MOD"}

\* below an addition all is added, below a removal all is removed
Consistent(parent, op) ==
  \A n \in Nodes : parent[n] # Top =>
    \/ op[parent[n]] = op[n]
    \/ op[parent[n]] = "MOD"

\* every tree and forest of the nodes
Shapes == {p \in [Nodes -> 0..(Cardinality(Nodes) - 1)] : \A n \in Nodes : p[n] < n}

\* the trees whose callbacks have different numbers
AllTrees ==
  {d \in [parent : Shapes, op : [Nodes -> Ops], clbk : [Nodes -> -1..(Cardinality(Nodes) - 1)]] :
     /\ Consistent(d.parent, d.op)
     /\ \A m, n \in Nodes : (m # n /\ d.clbk[m] = d.clbk[n]) => d.clbk[m] = PRIORITY_NONE}

UsedNodes == 1..3
=============================================================================
