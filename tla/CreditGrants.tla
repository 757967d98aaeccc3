---------------------------- MODULE CreditGrants ----------------------------
(***************************************************************************)
(* The values the service-credit ledger is made of, and the four transfers *)
(* of units every handler of src/service-credit-model.js is built from.    *)
(* This module has no state: ServiceCreditModel (the in-memory ledger) and *)
(* DurableExecution (the SQLite store around it) both extend it.           *)
(*                                                                         *)
(* A grant keeps its units in three counters.  Reserving a request moves   *)
(* its cost from available to held; the end of the request moves it on to  *)
(* consumed, or back to available.                                         *)
(***************************************************************************)
EXTENDS Integers

GrantLifecycle == {"ACTIVE", "EXPIRED", "REVOKED"}

RequestState ==
  {"RESERVED", "EXECUTING", "SUCCEEDED", "FAILED_RELEASED", "OUTCOME_UNKNOWN"}

\* The request states in which a request's cost stands in heldUnits.
HoldingStates == {"RESERVED", "EXECUTING", "OUTCOME_UNKNOWN"}

\* The request states that close the admission gate of the whole ledger.
UnresolvedStates == {"EXECUTING", "OUTCOME_UNKNOWN"}

\* "NONE" stands for a grant, or a request, the ledger has no record of.
Grant ==
  [lifecycle : GrantLifecycle \cup {"NONE"},
   available : Int, held : Int, consumed : Int]

NoGrant == [lifecycle |-> "NONE", available |-> 0, held |-> 0, consumed |-> 0]

\* Slip: a new grant gets the initial state of a request.
GrantBornReserved(total) ==
  [lifecycle |-> "RESERVED", available |-> total, held |-> 0, consumed |-> 0]

NewGrant(total) ==
  [lifecycle |-> "ACTIVE", available |-> total, held |-> 0, consumed |-> 0]

\* Slip: a grant still serves at the very moment it expires.
RefreshedLate(g, expiresAt, now) ==
  IF g.lifecycle = "ACTIVE" /\ now > expiresAt
  THEN [g EXCEPT !.lifecycle = "EXPIRED"]
  ELSE g

\* The grant g, expiring at expiresAt, after one reading of the clock at now.
Refreshed(g, expiresAt, now) ==
  IF g.lifecycle = "ACTIVE" /\ now >= expiresAt
  THEN [g EXCEPT !.lifecycle = "EXPIRED"]
  ELSE g

Hold(g, cost) ==
  [g EXCEPT !.available = @ - cost, !.held = @ + cost]

ReturnHeld(g, cost) ==
  [g EXCEPT !.held = @ - cost, !.available = @ + cost]

\* Slip: the units of a completed request are taken a second time.
ConsumeAvailable(g, cost) ==
  [g EXCEPT !.available = @ - cost, !.consumed = @ + cost]

ConsumeHeld(g, cost) ==
  [g EXCEPT !.held = @ - cost, !.consumed = @ + cost]
=============================================================================
