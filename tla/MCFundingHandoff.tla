-------------------------- MODULE MCFundingHandoff --------------------------
(* Two payments of the payer, so that the second may be refused, and one   *)
(* of the holder's other device.                                           *)
EXTENDS FundingHandoff

CONSTANTS v1, v2, p1, p2, r1
=============================================================================
