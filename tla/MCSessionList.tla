--------------------------- MODULE MCSessionList ---------------------------
(***************************************************************************)
(* Instances of SessionList for TLC.                                       *)
(***************************************************************************)
EXTENDS SessionList, TLC

CONSTANTS pA, pB, pC, r1, d1, r2, r3, r4

\* a real and a dummy session with one id, and others of both sizes
MCIds == r1 :> 1 @@ d1 :> 1 @@ r2 :> 2 @@ r3 :> 3 @@ r4 :> 4
MCSizes == r1 :> 1 @@ d1 :> 1 @@ r2 :> 2 @@ r3 :> 1 @@ r4 :> 2
MCHomes == r1 :> pA @@ d1 :> pB @@ r2 :> pA @@ r3 :> pB @@ r4 :> pB

\* the structures of an instance
Use(f) == [h \in Handles |-> f[h]]
UsedIds == Use(MCIds)
UsedSizes == Use(MCSizes)
UsedHomes == Use(MCHomes)

\* with the alive check one session less
MCLoad == [alive \in BOOLEAN |-> IF alive THEN Handles \ {r4} ELSE Handles]
=============================================================================
