------------------------- MODULE MCFundingObserver -------------------------
(* The transaction on one branch only, on both at different heights, and   *)
(* below the fork; version 2 from the fork on, on one branch only or on    *)
(* both, and never.                                                        *)
EXTENDS FundingObserver, TLC

CONSTANTS p1, p2, s1, s2, e1, e2

Chain(fork, ta, tb, va, vb, native) ==
  [fork |-> fork, target |-> [a |-> ta, b |-> tb], v2 |-> [a |-> va, b |-> vb],
   native |-> native]

MCHistories ==
  {Chain(1, 2, 0, 5, 5, FALSE), Chain(1, 3, 2, 3, 5, FALSE),
   Chain(2, 2, 2, 3, 3, TRUE)}
\* Nothing tells two producers, two signers or two envelopes apart.
Interchangeable ==
  Permutations(Producers) \cup Permutations(Signers) \cup Permutations(Envelopes)
=============================================================================
