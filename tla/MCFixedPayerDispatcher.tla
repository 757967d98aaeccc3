----------------------- MODULE MCFixedPayerDispatcher -----------------------
(* Three payments of one payer: pa and pb spend the same transaction under *)
(* different terms, q is another transaction.                              *)
EXTENDS FixedPayerDispatcher

CONSTANTS pa, pb, q

MCTx == [p \in Payments |-> IF p = q THEN "t2" ELSE "t1"]
=============================================================================
