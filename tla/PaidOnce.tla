------------------------------ MODULE PaidOnce ------------------------------
(***************************************************************************)
(* What a payer is promised of one signed payment, whatever servers it is  *)
(* submitted to and however often they crash: the resource is handed over  *)
(* at most once, only for a payment the chain confirmed, only after the    *)
(* claim to do so was made durable; and a payment that was given up stays  *)
(* given up.                                                               *)
(***************************************************************************)
CONSTANT Payments

VARIABLES status, published, confirmed, handed
vars == <<status, published, confirmed, handed>>

Init ==
  /\ status = [p \in Payments |-> "unseen"]
  /\ published = {}
  /\ confirmed = {}
  /\ handed = [p \in Payments |-> 0]

Move(p, from, to) ==
  /\ status[p] = from
  /\ status' = [status EXCEPT ![p] = to]

\* The payment is written down before anything is done with it.
Open(p) == Move(p, "unseen", "open") /\ UNCHANGED <<published, confirmed, handed>>

\* The signed transaction is sent to the node; sending it again is a stutter.
Publish(p) ==
  /\ status[p] = "open" /\ p \notin published
  /\ published' = published \cup {p}
  /\ UNCHANGED <<status, confirmed, handed>>

\* The chain confirms the transaction, whoever sent it and whenever.
Confirm(p) ==
  /\ confirmed' = confirmed \cup {p}
  /\ UNCHANGED <<status, published, handed>>

Claim(p) ==
  /\ p \in confirmed
  /\ Move(p, "open", "claimed")
  /\ UNCHANGED <<published, confirmed, handed>>

Hand(p) ==
  /\ status[p] = "claimed" /\ handed[p] = 0
  /\ handed' = [handed EXCEPT ![p] = 1]
  /\ UNCHANGED <<status, published, confirmed>>

Finish(p) ==
  /\ handed[p] = 1
  /\ Move(p, "claimed", "finished")
  /\ UNCHANGED <<published, confirmed, handed>>

GiveUp(p) ==
  Move(p, "open", "closed") /\ UNCHANGED <<published, confirmed, handed>>

Next ==
  \E p \in Payments :
    \/ Open(p) \/ Publish(p) \/ Confirm(p)
    \/ Claim(p) \/ Hand(p) \/ Finish(p) \/ GiveUp(p)

Spec == Init /\ [][Next]_vars
=============================================================================
