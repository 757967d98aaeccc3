----------------------- MODULE MCSpendingReservations -----------------------
(***************************************************************************)
(* Instances of SpendingReservations for TLC: two payments of three        *)
(* originals, of which the first two fit one day, the first and the last   *)
(* fit the total but not one day, and the last two exceed the total; a     *)
(* session of each lane.                                                   *)
(***************************************************************************)
EXTENDS SpendingReservations, TLC

CONSTANTS s1, s2, p1, p2, o1, o2, o3

MCAmount == (o1 :> 1) @@ (o2 :> 2) @@ (o3 :> 3)

\* The identifiers of payments differ in nothing.
Symmetry == Permutations(Payments)
=============================================================================
