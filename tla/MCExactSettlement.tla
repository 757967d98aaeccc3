------------------------- MODULE MCExactSettlement --------------------------
(***************************************************************************)
(* Instances of ExactSettlement for TLC: all payments come from one payer, *)
(* whose payments the payer queue of each server takes one at a time.      *)
(***************************************************************************)
EXTENDS ExactSettlement, TLC

CONSTANTS s1, s2, p1, p2, payer

OnePayer == [p \in Payments |-> payer]

\* Servers differ in nothing where all of them run maintenance.
Symmetry == Permutations(Servers) \cup Permutations(Payments)
=============================================================================
