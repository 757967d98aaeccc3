--------------------------- MODULE MeteredService ---------------------------
(***************************************************************************)
(* What durable execution promises the holder of a grant and the operator  *)
(* of the service, without processes, revisions, fences or clocks:         *)
(*                                                                         *)
(*   - one request at a time is open, and it is called at most once;       *)
(*   - a request is charged only after it was called, and released only if *)
(*     it never was and never will be;                                     *)
(*   - a request whose outcome is not known stays so, keeps its units, and *)
(*     no further request is admitted.                                     *)
(***************************************************************************)
CONSTANT Requests

VARIABLES
  settlement,     \* [Requests -> Settlement]
  invoked         \* the requests the application was called for

Settlement == {"none", "open", "charged", "released", "unresolved"}

vars == <<settlement, invoked>>

Init ==
  /\ settlement = [r \in Requests |-> "none"]
  /\ invoked = {}

Settle(r, outcome) ==
  /\ settlement[r] = "open"
  /\ settlement' = [settlement EXCEPT ![r] = outcome]
  /\ UNCHANGED invoked

Admit(r) ==
  /\ settlement[r] = "none"
  /\ \A q \in Requests : settlement[q] \notin {"open", "unresolved"}
  /\ settlement' = [settlement EXCEPT ![r] = "open"]
  /\ UNCHANGED invoked

\* The call may come after the outcome was given up: a recovery that overtakes
\* a live owner cannot stop it between its last check and the call.
Invoke(r) ==
  /\ settlement[r] \in {"open", "unresolved"}
  /\ r \notin invoked
  /\ invoked' = invoked \cup {r}
  /\ UNCHANGED settlement

Charge(r) == r \in invoked /\ Settle(r, "charged")

Release(r) == r \notin invoked /\ Settle(r, "released")

GiveUp(r) == Settle(r, "unresolved")

Next ==
  \E r \in Requests : Admit(r) \/ Invoke(r) \/ Charge(r) \/ Release(r) \/ GiveUp(r)

Spec == Init /\ [][Next]_vars
=============================================================================
