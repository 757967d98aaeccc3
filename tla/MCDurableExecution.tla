------------------------- MODULE MCDurableExecution -------------------------
(* Small instances of DurableExecution for TLC: two requests of one grant that *)
(* expires, or one request each of two grants, of which one expires at once.   *)
EXTENDS DurableExecution, TLC

CONSTANTS p1, p2, g1, g2, r1, r2

MCGrantOf == (r1 :> g1) @@ (r2 :> g1)
MCPrice == (r1 :> 1) @@ (r2 :> 1)
MCTotalUnits == (g1 :> 2)
MCExpiresAt == (g1 :> 2)

MCGrantEach == (r1 :> g1) @@ (r2 :> g2)
MCTotalEach == (g1 :> 2) @@ (g2 :> 1)
MCExpiresEach == (g1 :> 2) @@ (g2 :> 1)

Symmetry == Permutations(Procs) \cup Permutations(Requests)
=============================================================================
