------------------------ MODULE MCServiceCreditModel ------------------------
(* A small instance of ServiceCreditModel for TLC. *)
EXTENDS ServiceCreditModel, TLC

CONSTANTS o1, scopeX, scopeY, s1, s2, tx1, tx2, c1, c2, res1, res2

MCOfferKeys == {o1}
MCScopes == {scopeX, scopeY}
MCResults == {res1, res2}

Funding(s, t, c, units, expires) ==
  [settlement |-> s, transaction |-> t, capability |-> c,
   offer |-> o1, scope |-> scopeX, totalUnits |-> units, expiresAt |-> expires]

\* Two honest fundings that expire at different times, and for each identity a
\* record that reuses it with everything else new.
MCClashing ==
  {Funding(s1, tx1, c1, 3, 2), Funding(s2, tx2, c2, 2, 1),
   Funding(s1, tx2, c2, 2, 2), Funding(s2, tx1, c2, 2, 2), Funding(s2, tx2, c1, 2, 2)}

MCTimes == 0..2

ResultSymmetry == Permutations(MCResults)
=============================================================================
