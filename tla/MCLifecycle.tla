---------------------------- MODULE MCLifecycle ----------------------------
(***************************************************************************)
(* An instance of Lifecycle for TLC: two servers started from one command  *)
(* and an agent of a single-layer kind.                                    *)
(***************************************************************************)
EXTENDS Lifecycle, TLC

CONSTANTS s1, s2, a1

MCComm == s1 :> "server" @@ s2 :> "server" @@ a1 :> "agent"

Servers == Permutations({s1, s2})
=============================================================================
