------------------------ MODULE ExactSettlementProofs ------------------------
(***************************************************************************)
(* Proofs about ExactSettlement and the journal it keeps, for any servers, *)
(* payments and payers, any number of confirmations asked for and any      *)
(* capacity of the journal.                                                *)
(*                                                                         *)
(* Two owners cannot change the evidence of a payment at the same time,    *)
(* since all of them need the SDK; so what a session read is what is on    *)
(* record, but for the delivery, which is claimed outside every session.   *)
(* That claim needs an inclusion with enough confirmations, which no       *)
(* maintenance may give up, and there is one claim at most.                *)
(***************************************************************************)
EXTENDS ExactSettlement, TLAPS

-----------------------------------------------------------------------------
(* The inductive invariant. *)

\* What the journal says of a payment, the chain and the handler bear out.
EntryOK(p) ==
  LET r == journal[p] IN
  /\ r.kind = "none" => r = NoEntry
  /\ r.delivery # "NONE" => Enough(r, MinConfs)
  /\ r.kind = "record" =>
       IF r.evidence = "INCLUDED" THEN 2 + r.confs <= chain[p] ELSE r.confs = 0
  /\ published[p] => r.kind # "none"
  /\ handled[p] \in {0, 1}
  /\ handled[p] = 1 => r.delivery # "NONE"
  /\ r.delivery = "DELIVERED" => handled[p] = 1

\* What a session read is on record, but for a delivery that moved on.
Current(v, r) ==
  /\ v.kind = r.kind /\ v.evidence = r.evidence /\ v.confs = r.confs
  /\ v.kind # "tombstone"
  /\ v.delivery # "NONE" => r.delivery # "NONE"
  /\ v.delivery = "DELIVERED" => r.delivery = "DELIVERED"

\* The node was seen to have a transaction the chain has.
Sighted(o, k) == o = 0 \/ (2 <= o /\ o <= k)

\* A call at x that read v, saw o and holds the answer a, of a payment with the
\* entry r, h runs of its handler and the stage k of the chain.
Fits(r, h, k, x, v, o, a) ==
  /\ Sighted(o, k)
  /\ x \in InSession \ {"reread", "leave"} => Current(v, r)
  /\ x \in {"publish", "sending", "noteUnknown", "noteSeen", "noteSent",
            "wait", "momentum"} => v.kind = "record"
  /\ x \in {"frontier", "record", "publish", "sending", "noteUnknown",
            "noteSeen", "noteSent", "wait"} => v.evidence # "INCLUDED"
  /\ x = "momentum" =>
       /\ o > 2
       /\ v.evidence = "INCLUDED" => Confirmations(o) > v.confs
       /\ ~ Enough(v, MinConfs)
  /\ x = "leave" /\ a = "success" => Enough(r, MinConfs)
  /\ x = "claim" => Enough(r, MinConfs)
  /\ x = "handler" => r.delivery = "PENDING" /\ h = 0
  /\ x = "store" => r.delivery = "PENDING" /\ h = 1
  /\ a = "delivered" => r.delivery = "DELIVERED"
  /\ a = "terminal" => r.kind = "tombstone"

CallOK(c) ==
  Fits(journal[Of(c)], handled[Of(c)], chain[Of(c)],
       pc[c], view[c], seen[c], answer[c])

MaintOK(s) ==
  LET m == maint[s] IN
  m.step # "idle" =>
    /\ m.p \in Payments
    /\ RetentionEligible(m.entry) \/ m.entry.kind = "tombstone"
    /\ Sighted(m.seen, chain[m.p])

\* One owner of the SDK, and one delivery of a payment.
Looking == {"look", "write"}
Exclusive ==
  /\ \A c, d \in Calls : pc[c] \in InSession /\ pc[d] \in InSession => c = d
  /\ \A c \in Calls, s \in Servers :
       ~ (pc[c] \in InSession /\ maint[s].step \in Looking)
  /\ \A s, t \in Servers :
       maint[s].step \in Looking /\ maint[t].step \in Looking => s = t
  /\ \A c, d \in Calls :
       pc[c] \in {"handler", "store"} /\ pc[d] \in {"handler", "store"}
         /\ Of(c) = Of(d) => c = d

SettlementInv ==
  /\ TypeOK
  /\ \A p \in Payments : EntryOK(p)
  /\ \A c \in Calls : CallOK(c)
  /\ \A s \in Servers : MaintOK(s)
  /\ Exclusive

-----------------------------------------------------------------------------
(* What a step may do to a payment. *)

Steps == {"idle", "queue"} \cup InQueue \cup InDelivery
Replies == {"none", "success", "delivered", "recovery", "internal", "rejected",
            "terminal"}
Sightings == {0} \cup 2 .. 2 + MaxConfs

\* What may become of an entry: written down, strengthened, claimed, delivered,
\* given up, or included late.
EntryMove(old, new) ==
  \/ new = old
  \/ old = NoEntry /\ new = NewRecord
  \/ /\ old.kind = "record" /\ new.kind = "record" /\ new.delivery = old.delivery
     /\ Rank[old.evidence] <= Rank[new.evidence] /\ old.confs <= new.confs
  \/ old.kind = "record" /\ old.delivery = "NONE" /\ new = Claimed(old)
  \/ old.kind = "record" /\ old.delivery = "PENDING" /\ new = Delivered(old)
  \/ RetentionEligible(old) /\ new = TombstoneOf(old)
  \/ old.kind = "tombstone" /\ old.confs = 0 /\ \E n \in Nat : new = [old EXCEPT !.confs = n]

Unmoved(q) ==
  /\ journal'[q] = journal[q] /\ published'[q] = published[q]
  /\ handled'[q] = handled[q] /\ chain'[q] = chain[q]

\* A step concerns one payment: its entry, its publication, its handler, or
\* where the chain has it.
PaymentMove(p) ==
  /\ \A q \in Payments \ {p} : Unmoved(q)
  /\ \/ /\ EntryMove(journal[p], journal'[p])
        /\ published'[p] = published[p] /\ handled'[p] = handled[p]
        /\ chain'[p] = chain[p]
     \/ /\ journal'[p] = journal[p] /\ handled'[p] = handled[p]
        /\ journal[p].kind = "record" /\ journal[p].delivery = "NONE"
        /\ published'[p] = TRUE
        /\ chain'[p] = chain[p] \/ (chain[p] = 0 /\ chain'[p] = 1)
     \/ /\ journal'[p] = journal[p] /\ published'[p] = published[p]
        /\ chain'[p] = chain[p]
        /\ journal[p].delivery = "PENDING" /\ handled[p] = 0 /\ handled'[p] = 1
     \/ /\ journal'[p] = journal[p] /\ published'[p] = published[p]
        /\ handled'[p] = handled[p]
        /\ chain[p] >= 2 => chain'[p] >= chain[p]

\* What is shown of every step: the invariant, what becomes of the payments,
\* and that a call is only rejected for a payment nobody wrote down.
StepOK ==
  /\ SettlementInv'
  /\ (\A q \in Payments : Unmoved(q)) \/ (\E p \in Payments : PaymentMove(p))
  /\ \A c \in Calls : answer'[c] = "rejected" =>
       answer[c] = "rejected" \/ journal[Of(c)].kind = "none"

WorldTypes ==
  /\ journal \in [Payments -> Entry]
  /\ chain \in [Payments -> 0 .. 2 + MaxConfs]
  /\ published \in [Payments -> BOOLEAN]
  /\ handled \in [Payments -> Nat]

-----------------------------------------------------------------------------
(* The operations of the journal. *)

LEMMA Constants ==
  /\ MinConfs \in Nat /\ MinConfs >= 1 /\ MaxConfs \in Nat
  /\ Maintainers \subseteq Servers
BY ConstantsAssumption

LEMMA Ranks ==
  /\ Rank["VALIDATED"] = 0 /\ Rank["UNKNOWN"] = 1
  /\ Rank["ACKNOWLEDGED"] = 2 /\ Rank["INCLUDED"] = 3
BY DEF Rank

LEMMA EntryTypes ==
  /\ NoEntry \in Entry /\ NoEntry.kind = "none" /\ NoEntry.evidence = "VALIDATED"
  /\ NoEntry.confs = 0 /\ NoEntry.delivery = "NONE"
  /\ NewRecord \in Entry /\ NewRecord.kind = "record"
  /\ NewRecord.evidence = "VALIDATED" /\ NewRecord.confs = 0
  /\ NewRecord.delivery = "NONE"
BY DEF NoEntry, NewRecord, Entry, EvidenceStates, DeliveryStates

LEMMA StrengthenedShape ==
  ASSUME NEW r \in Entry, NEW evidence \in EvidenceStates, NEW n \in Nat
  PROVE  LET new == Strengthened(r, evidence, n) IN
         /\ new \in Entry /\ new.kind = r.kind /\ new.delivery = r.delivery
         /\ \/ new = r /\ Rank[evidence] < Rank[r.evidence]
            \/ /\ new.evidence = evidence /\ new.confs = n
               /\ Rank[r.evidence] <= Rank[evidence]
<1>1. Rank[evidence] \in Nat /\ Rank[r.evidence] \in Nat
  BY Ranks DEF Entry, EvidenceStates
<1>2. [r EXCEPT !.evidence = evidence] \in Entry
  BY DEF Entry
<1>3. /\ [r EXCEPT !.evidence = evidence, !.confs = n] \in Entry
      /\ [r EXCEPT !.evidence = evidence, !.confs = n].kind = r.kind
      /\ [r EXCEPT !.evidence = evidence, !.confs = n].delivery = r.delivery
      /\ [r EXCEPT !.evidence = evidence, !.confs = n].evidence = evidence
      /\ [r EXCEPT !.evidence = evidence, !.confs = n].confs = n
  BY <1>2 DEF Entry
<1> QED
  BY <1>1, <1>3 DEF Strengthened

LEMMA DeliveryShape ==
  ASSUME NEW r \in Entry
  PROVE  /\ Claimed(r) \in Entry /\ Claimed(r).delivery = "PENDING"
         /\ Delivered(r) \in Entry /\ Delivered(r).delivery = "DELIVERED"
         /\ TombstoneOf(r) \in Entry /\ TombstoneOf(r).kind = "tombstone"
         /\ \A new \in {Claimed(r), Delivered(r)} :
              new.kind = r.kind /\ new.evidence = r.evidence /\ new.confs = r.confs
         /\ TombstoneOf(r).evidence = r.evidence /\ TombstoneOf(r).confs = r.confs
         /\ TombstoneOf(r).delivery = r.delivery
BY DEF Claimed, Delivered, TombstoneOf, Entry, DeliveryStates

\* What an entry that moves keeps.
LEMMA MoveKeeps ==
  ASSUME NEW old \in Entry, NEW new \in Entry, EntryMove(old, new),
         old.kind = "none" => old = NoEntry
  PROVE  /\ Enough(old, MinConfs) => Enough(new, MinConfs)
         /\ old.kind = "tombstone" => new.kind = "tombstone"
         /\ old.kind # "none" => new.kind # "none"
         /\ old.delivery = "DELIVERED" => new.delivery = "DELIVERED"
         /\ old.delivery # "NONE" => new.delivery # "NONE"
         /\ new.delivery # old.delivery =>
              /\ old.kind = new.kind /\ old.evidence = new.evidence
              /\ old.confs = new.confs
              /\ old.delivery \in {"NONE", "PENDING"}
<1>1. MinConfs \in Nat /\ old.confs \in Nat /\ new.confs \in Nat
  BY Constants DEF Entry
<1>2. old.evidence \in EvidenceStates /\ new.evidence \in EvidenceStates
  BY DEF Entry
<1>3. CASE old = NoEntry /\ new = NewRecord
  BY <1>3, EntryTypes DEF Enough
<1>4. CASE /\ old.kind = "record" /\ new.kind = "record" /\ new.delivery = old.delivery
           /\ Rank[old.evidence] <= Rank[new.evidence] /\ old.confs <= new.confs
  <2>1. old.evidence = "INCLUDED" => new.evidence = "INCLUDED"
    BY <1>2, <1>4, Ranks DEF EvidenceStates
  <2> QED
    BY <1>1, <1>4, <2>1 DEF Enough
<1>5. CASE new \in {Claimed(old), Delivered(old)} /\ old.kind = "record"
           /\ old.delivery \in {"NONE", "PENDING"} /\ new.delivery # "NONE"
           /\ (new = Claimed(old) => old.delivery = "NONE")
  BY <1>1, <1>5, DeliveryShape DEF Enough
<1>6. CASE RetentionEligible(old) /\ new = TombstoneOf(old)
  BY <1>6, DeliveryShape DEF RetentionEligible, PriorStates, Enough
<1>7. CASE /\ old.kind = "tombstone" /\ old.confs = 0
           /\ \E n \in Nat : new = [old EXCEPT !.confs = n]
  BY <1>7 DEF Entry, Enough
<1>8. CASE old.kind = "record" /\ old.delivery = "NONE" /\ new = Claimed(old)
  BY <1>5, <1>8, DeliveryShape
<1>9. CASE old.kind = "record" /\ old.delivery = "PENDING" /\ new = Delivered(old)
  <2>1. new # Claimed(old)
    BY <1>9, DeliveryShape
  <2> QED
    BY <1>5, <1>9, <2>1, DeliveryShape
<1> QED
  BY <1>3, <1>4, <1>6, <1>7, <1>8, <1>9 DEF EntryMove

-----------------------------------------------------------------------------
(* What a step leaves as it was. *)

\* The call c goes to x having read v, seen o and holding the answer a; the
\* other calls stay where they are.
CallMove(c, x, v, o, a) ==
  /\ x \in Steps /\ v \in Entry /\ o \in Sightings /\ a \in Replies
  /\ pc' = [pc EXCEPT ![c] = x] /\ view' = [view EXCEPT ![c] = v]
  /\ seen' = [seen EXCEPT ![c] = o] /\ answer' = [answer EXCEPT ![c] = a]
  /\ doubt' \in [Calls -> 0 .. 2]

\* Neither what is on record nor its delivery is changed under a call at x
\* that relies on it.
Undisturbed(r, s, h, i, x) ==
  /\ x \in InSession =>
       s.kind = r.kind /\ s.evidence = r.evidence /\ s.confs = r.confs
  /\ x \in {"handler", "store"} => s.delivery = r.delivery /\ i = h

\* A call that stands still fits the entry its payment has after a step.
LEMMA StillFits ==
  ASSUME NEW r \in Entry, NEW s \in Entry, NEW h, NEW i, NEW k, NEW m,
         NEW x, NEW v \in Entry, NEW o, NEW a,
         Fits(r, h, k, x, v, o, a), Undisturbed(r, s, h, i, x),
         Sighted(o, m),
         Enough(r, MinConfs) => Enough(s, MinConfs),
         r.kind = "tombstone" => s.kind = "tombstone",
         r.delivery = "DELIVERED" => s.delivery = "DELIVERED",
         r.delivery # "NONE" => s.delivery # "NONE"
  PROVE  Fits(s, i, m, x, v, o, a)
<1>1. x \in InSession \ {"reread", "leave"} => Current(v, s)
  BY DEF Fits, Undisturbed, Current
<1> QED
  BY <1>1 DEF Fits, Undisturbed

\* The chain may lose a transaction on its way, but none it has.
LEMMA StillSighted ==
  ASSUME NEW o \in Sightings, NEW k \in 0 .. 2 + MaxConfs,
         NEW m \in 0 .. 2 + MaxConfs, Sighted(o, k), k >= 2 => m >= k
  PROVE  Sighted(o, m)
BY Constants DEF Sighted, Sightings

\* What a step that concerns the payment p does to any payment.
LEMMA PaymentsMove ==
  ASSUME SettlementInv, WorldTypes', NEW p \in Payments, PaymentMove(p),
         NEW q \in Payments
  PROVE  /\ Enough(journal[q], MinConfs) => Enough(journal'[q], MinConfs)
         /\ journal[q].kind = "tombstone" => journal'[q].kind = "tombstone"
         /\ journal[q].delivery = "DELIVERED" => journal'[q].delivery = "DELIVERED"
         /\ journal[q].delivery # "NONE" => journal'[q].delivery # "NONE"
         /\ chain[q] >= 2 => chain'[q] >= chain[q]
         /\ journal[q] \in Entry /\ journal'[q] \in Entry
         /\ chain[q] \in 0 .. 2 + MaxConfs /\ chain'[q] \in 0 .. 2 + MaxConfs
<1>1. /\ journal[q] \in Entry /\ journal'[q] \in Entry
      /\ chain[q] \in 0 .. 2 + MaxConfs /\ chain'[q] \in 0 .. 2 + MaxConfs
  BY DEF SettlementInv, TypeOK, WorldTypes
<1>2. chain[q] \in Int /\ chain'[q] \in Int
  BY <1>1, Constants
<1>3. journal[q].kind = "none" => journal[q] = NoEntry
  BY DEF SettlementInv, EntryOK
<1>4. CASE q = p
  <2>1. CASE journal'[q] = journal[q]
    <3>1. chain[q] >= 2 => chain'[q] >= chain[q]
      BY <1>2, <1>4 DEF PaymentMove
    <3> QED
      BY <1>1, <2>1, <3>1
  <2>2. CASE EntryMove(journal[q], journal'[q]) /\ chain'[q] = chain[q]
    BY <1>1, <1>2, <1>3, <2>2, MoveKeeps
  <2> QED
    BY <1>4, <2>1, <2>2 DEF PaymentMove
<1>5. CASE q # p
  BY <1>1, <1>2, <1>5 DEF PaymentMove, Unmoved
<1> QED
  BY <1>4, <1>5

LEMMA EntriesKept ==
  ASSUME SettlementInv, NEW p \in Payments, PaymentMove(p), EntryOK(p)'
  PROVE  \A q \in Payments : EntryOK(q)'
<1> SUFFICES ASSUME NEW q \in Payments, q # p PROVE EntryOK(q)'
  OBVIOUS
<1> QED
  BY DEF SettlementInv, EntryOK, PaymentMove, Unmoved

\* A call that a step does not concern.
LEMMA CallKept ==
  ASSUME SettlementInv, WorldTypes', NEW p \in Payments, PaymentMove(p),
         NEW d \in Calls,
         pc'[d] = pc[d], view'[d] = view[d], seen'[d] = seen[d],
         answer'[d] = answer[d],
         Of(d) = p => Undisturbed(journal[p], journal'[p], handled[p], handled'[p],
                                  pc[d])
  PROVE  CallOK(d)'
<1> DEFINE q == Of(d)
<1>1. q \in Payments
  BY DEF Calls, Of
<1>2. view[d] \in Entry /\ seen[d] \in Sightings
  BY DEF SettlementInv, TypeOK, Sightings
<1>3. Fits(journal[q], handled[q], chain[q], pc[d], view[d], seen[d], answer[d])
  BY DEF SettlementInv, CallOK
<1>4. Sighted(seen[d], chain[q])
  BY <1>3 DEF Fits
<1>5. Undisturbed(journal[q], journal'[q], handled[q], handled'[q], pc[d])
  <2>1. CASE q = p
    BY <2>1
  <2>2. CASE q # p
    BY <1>1, <2>2 DEF PaymentMove, Unmoved, Undisturbed
  <2> QED
    BY <2>1, <2>2
<1> HIDE DEF q
<1>6. Sighted(seen[d], chain'[q])
  BY <1>1, <1>2, <1>4, PaymentsMove, StillSighted
<1>7. Fits(journal'[q], handled'[q], chain'[q], pc[d], view[d], seen[d], answer[d])
  BY <1>1, <1>2, <1>3, <1>5, <1>6, PaymentsMove, StillFits
<1> QED
  BY <1>7 DEF CallOK, q

\* A maintenance candidate that a step does not concern.
LEMMA CandidateKept ==
  ASSUME SettlementInv, WorldTypes', NEW p \in Payments, PaymentMove(p),
         NEW s \in Servers, maint'[s] = maint[s]
  PROVE  MaintOK(s)'
<1> SUFFICES ASSUME maint[s].step # "idle"
             PROVE  Sighted(maint[s].seen, chain'[maint[s].p])
  BY DEF SettlementInv, MaintOK
<1> DEFINE q == maint[s].p
           o == maint[s].seen
<1>1. q \in Payments /\ Sighted(o, chain[q])
  BY DEF SettlementInv, MaintOK
<1>2. o \in Sightings
  BY DEF SettlementInv, TypeOK, Sightings
<1> HIDE DEF q, o
<1>3. Sighted(o, chain'[q])
  BY <1>1, <1>2, PaymentsMove, StillSighted
<1> QED
  BY <1>3 DEF q, o

-----------------------------------------------------------------------------
(* A step of a call. *)

\* Where a call may go: the SDK is entered when it is free, and a delivery is
\* begun by the call that made the claim.
Entitled(c, x) ==
  /\ x \in InSession => pc[c] \in InSession \/ SessionFree
  /\ x \in {"handler", "store"} =>
       pc[c] \in {"handler", "store"} \/ journal[Of(c)].delivery = "NONE"

LEMMA CallTypes ==
  ASSUME SettlementInv, NEW c \in Calls, NEW x, NEW v, NEW o, NEW a,
         CallMove(c, x, v, o, a), maint' = maint, poisoned' \in BOOLEAN,
         WorldTypes'
  PROVE  /\ TypeOK'
         /\ pc'[c] = x /\ view'[c] = v /\ seen'[c] = o /\ answer'[c] = a
         /\ \A d \in Calls \ {c} :
              /\ pc'[d] = pc[d] /\ view'[d] = view[d] /\ seen'[d] = seen[d]
              /\ answer'[d] = answer[d]
<1>1. TypeOK
  BY DEF SettlementInv
<1>2. /\ pc' \in [Calls -> Steps] /\ pc'[c] = x
      /\ \A d \in Calls \ {c} : pc'[d] = pc[d]
  BY <1>1 DEF TypeOK, CallMove, Steps
<1>3. /\ view' \in [Calls -> Entry] /\ view'[c] = v
      /\ \A d \in Calls \ {c} : view'[d] = view[d]
  BY <1>1 DEF TypeOK, CallMove
<1>4. /\ seen' \in [Calls -> Sightings] /\ seen'[c] = o
      /\ \A d \in Calls \ {c} : seen'[d] = seen[d]
  BY <1>1 DEF TypeOK, CallMove, Sightings
<1>5. /\ answer' \in [Calls -> Replies] /\ answer'[c] = a
      /\ \A d \in Calls \ {c} : answer'[d] = answer[d]
  BY <1>1 DEF TypeOK, CallMove, Replies
<1>6. TypeOK'
  BY <1>1, <1>2, <1>3, <1>4, <1>5
     DEF TypeOK, WorldTypes, CallMove, Steps, Sightings, Replies
<1> QED
  BY <1>2, <1>3, <1>4, <1>5, <1>6

\* A step in which the call c changes what is known of its payment.
LEMMA CallStep ==
  ASSUME SettlementInv, NEW c \in Calls, NEW x, NEW v, NEW o, NEW a,
         CallMove(c, x, v, o, a), maint' = maint, poisoned' \in BOOLEAN,
         WorldTypes', PaymentMove(Of(c)), EntryOK(Of(c))',
         Fits(journal'[Of(c)], handled'[Of(c)], chain'[Of(c)], x, v, o, a),
         Entitled(c, x),
         pc[c] \in InSession \/ /\ journal'[Of(c)].kind = journal[Of(c)].kind
                                /\ journal'[Of(c)].evidence = journal[Of(c)].evidence
                                /\ journal'[Of(c)].confs = journal[Of(c)].confs,
         \/ pc[c] \in {"handler", "store"}
         \/ journal[Of(c)].delivery = "NONE" /\ handled'[Of(c)] = handled[Of(c)]
         \/ /\ journal'[Of(c)].delivery = journal[Of(c)].delivery
            /\ handled'[Of(c)] = handled[Of(c)],
         a = "rejected" => answer[c] = "rejected" \/ journal[Of(c)].kind = "none"
  PROVE  StepOK
<1> DEFINE p == Of(c)
<1>0. p \in Payments
  BY DEF Calls, Of
<1>1. /\ TypeOK'
      /\ pc'[c] = x /\ view'[c] = v /\ seen'[c] = o /\ answer'[c] = a
      /\ \A d \in Calls \ {c} :
           /\ pc'[d] = pc[d] /\ view'[d] = view[d] /\ seen'[d] = seen[d]
           /\ answer'[d] = answer[d]
  BY CallTypes
<1>2. \A q \in Payments : EntryOK(q)'
  BY <1>0, EntriesKept
<1>3. Exclusive
  BY DEF SettlementInv
<1>4. \A d \in Calls : CallOK(d)'
  <2> SUFFICES ASSUME NEW d \in Calls PROVE CallOK(d)'
    OBVIOUS
  <2>1. CASE d = c
    BY <1>1, <2>1 DEF CallOK
  <2>2. CASE d # c
    <3>1. Of(d) = p /\ pc[d] \in {"handler", "store"} =>
            pc[c] \notin {"handler", "store"} /\ journal[p].delivery = "PENDING"
      <4>1. CallOK(d)
        BY DEF SettlementInv
      <4> QED
        BY <1>3, <2>2, <4>1 DEF Exclusive, CallOK, Fits
    <3>2. pc[d] \in InSession => pc[c] \notin InSession
      BY <1>3, <2>2 DEF Exclusive
    <3>3. Of(d) = p => Undisturbed(journal[p], journal'[p], handled[p], handled'[p],
                                   pc[d])
      BY <3>1, <3>2 DEF Undisturbed
    <3> QED
      BY <1>0, <1>1, <2>2, <3>3, CallKept
  <2> QED
    BY <2>1, <2>2
<1>5. \A s \in Servers : MaintOK(s)'
  BY <1>0, CandidateKept
<1>6. Exclusive'
  <2>1. x \in InSession => /\ \A d \in Calls \ {c} : pc[d] \notin InSession
                           /\ \A s \in Servers : maint[s].step \notin Looking
    BY <1>3 DEF Entitled, Exclusive, SessionFree, Looking
  <2>2. x \in {"handler", "store"} =>
          \A d \in Calls \ {c} :
            ~ (pc[d] \in {"handler", "store"} /\ Of(d) = p)
    <3> SUFFICES ASSUME x \in {"handler", "store"}, NEW d \in Calls, d # c,
                        pc[d] \in {"handler", "store"}, Of(d) = p
                 PROVE  FALSE
      OBVIOUS
    <3>1. CallOK(d)
      BY DEF SettlementInv
    <3>2. journal[p].delivery = "PENDING"
      BY <3>1 DEF CallOK, Fits
    <3> QED
      BY <1>3, <3>2 DEF Entitled, Exclusive
  <2>3. \A d, e \in Calls : pc'[d] \in InSession /\ pc'[e] \in InSession => d = e
    BY <1>1, <1>3, <2>1 DEF Exclusive
  <2>4. \A d \in Calls, s \in Servers :
          ~ (pc'[d] \in InSession /\ maint'[s].step \in Looking)
    BY <1>1, <1>3, <2>1 DEF Exclusive
  <2>5. \A d, e \in Calls :
          pc'[d] \in {"handler", "store"} /\ pc'[e] \in {"handler", "store"}
            /\ Of(d) = Of(e) => d = e
    BY <1>1, <1>3, <2>2 DEF Exclusive
  <2> QED
    BY <1>3, <2>3, <2>4, <2>5 DEF Exclusive
<1>7. \A d \in Calls : answer'[d] = "rejected" =>
        answer[d] = "rejected" \/ journal[Of(d)].kind = "none"
  BY <1>1
<1> QED
  BY <1>0, <1>1, <1>2, <1>4, <1>5, <1>6, <1>7 DEF StepOK, SettlementInv

\* A step in which it changes nothing but where it stands.
LEMMA LocalStep ==
  ASSUME SettlementInv, NEW c \in Calls, NEW x, NEW v, NEW o, NEW a,
         CallMove(c, x, v, o, a), maint' = maint, poisoned' \in BOOLEAN,
         UNCHANGED <<journal, chain, published, handled>>,
         Fits(journal[Of(c)], handled[Of(c)], chain[Of(c)], x, v, o, a),
         x \in InSession => pc[c] \in InSession \/ SessionFree,
         x \in {"handler", "store"} => pc[c] = x,
         a = "rejected" => answer[c] = "rejected" \/ journal[Of(c)].kind = "none"
  PROVE  StepOK
<1>1. Of(c) \in Payments
  BY DEF Calls, Of
<1>2. WorldTypes'
  BY DEF SettlementInv, TypeOK, WorldTypes
<1>3. PaymentMove(Of(c))
  BY <1>1 DEF PaymentMove, Unmoved, EntryMove
<1>4. EntryOK(Of(c))'
  BY <1>1 DEF SettlementInv, EntryOK
<1>5. Entitled(c, x)
  BY DEF Entitled
<1>6. Fits(journal'[Of(c)], handled'[Of(c)], chain'[Of(c)], x, v, o, a)
  OBVIOUS
<1>7. journal' = journal /\ handled' = handled
  OBVIOUS
<1> QED
  BY <1>2, <1>3, <1>4, <1>5, <1>6, <1>7, CallStep

-----------------------------------------------------------------------------
(* How a call moves. *)

LEMMA CallNow ==
  ASSUME SettlementInv, NEW c \in Calls
  PROVE  /\ Of(c) \in Payments
         /\ Fits(journal[Of(c)], handled[Of(c)], chain[Of(c)],
                 pc[c], view[c], seen[c], answer[c])
         /\ EntryOK(Of(c)) /\ journal[Of(c)] \in Entry /\ handled[Of(c)] \in Nat
         /\ chain[Of(c)] \in 0 .. 2 + MaxConfs
         /\ pc[c] \in Steps /\ view[c] \in Entry /\ seen[c] \in Sightings
         /\ answer[c] \in Replies /\ doubt[c] \in 0 .. 2
         /\ poisoned \in BOOLEAN
<1>1. Of(c) \in Payments
  BY DEF Calls, Of
<1>2. EntryOK(Of(c)) /\ CallOK(c) /\ TypeOK
  BY <1>1 DEF SettlementInv
<1> QED
  BY <1>1, <1>2 DEF TypeOK, CallOK, Steps, Sightings, Replies

LEMMA DoubtTypes ==
  /\ \A r : RecordDoubt(r) \in 0 .. 2
  /\ \A o \in Int : SeenDoubt(o) \in 0 .. 2
  /\ \A d, e \in 0 .. 2 : Worse(d, e) \in 0 .. 2
BY DEF RecordDoubt, SeenDoubt, Worse

LEMMA DoubtMove ==
  ASSUME SettlementInv, NEW c \in Calls,
         \/ doubt' = doubt
         \/ doubt' = [doubt EXCEPT ![c] = 0]
         \/ \E d \in 0 .. 2 : Doubts(c, d)
  PROVE  doubt' \in [Calls -> 0 .. 2]
<1>1. doubt \in [Calls -> 0 .. 2]
  BY DEF SettlementInv, TypeOK
<1>2. CASE doubt' = doubt
  BY <1>1, <1>2
<1>3. CASE doubt' = [doubt EXCEPT ![c] = 0]
  BY <1>1, <1>3
<1>4. CASE \E d \in 0 .. 2 : Doubts(c, d)
  <2>1. PICK d \in 0 .. 2 : doubt' = [doubt EXCEPT ![c] = Worse(doubt[c], d)]
    BY <1>4 DEF Doubts
  <2>2. Worse(doubt[c], d) \in 0 .. 2
    BY <1>1, DoubtTypes
  <2> QED
    BY <1>1, <2>1, <2>2
<1> QED
  BY <1>2, <1>3, <1>4

LEMMA Standing ==
  ASSUME SettlementInv, NEW c \in Calls
  PROVE  /\ view = [view EXCEPT ![c] = view[c]]
         /\ seen = [seen EXCEPT ![c] = seen[c]]
         /\ answer = [answer EXCEPT ![c] = answer[c]]
BY DEF SettlementInv, TypeOK

LEMMA GoesMove ==
  ASSUME SettlementInv, NEW c \in Calls, NEW x \in Steps, Goes(c, x),
         UNCHANGED <<view, seen, doubt, answer>>
  PROVE  CallMove(c, x, view[c], seen[c], answer[c])
<1>1. doubt' \in [Calls -> 0 .. 2]
  BY DoubtMove
<1>2. view[c] \in Entry /\ seen[c] \in Sightings /\ answer[c] \in Replies
  BY CallNow
<1> QED
  BY <1>1, <1>2, Standing DEF CallMove, Goes

LEMMA AnswersMove ==
  ASSUME SettlementInv, NEW c \in Calls, NEW a, a \in Replies, Answers(c, a)
  PROVE  CallMove(c, "idle", NoEntry, 0, a)
<1>1. doubt' \in [Calls -> 0 .. 2]
  BY DoubtMove DEF Answers
<1>2. NoEntry \in Entry
  BY EntryTypes
<1> QED
  BY <1>1, <1>2 DEF CallMove, Answers, Goes, Views, Sights, Steps, Sightings

LEMMA ReturnsMove ==
  ASSUME SettlementInv, NEW c \in Calls, NEW a, a \in Replies, Returns(c, a)
  PROVE  IF a = "success" THEN CallMove(c, "claim", NoEntry, 0, "none")
                          ELSE CallMove(c, "idle", NoEntry, 0, a)
<1>1. CASE a = "success"
  <2>1. doubt' \in [Calls -> 0 .. 2]
    BY <1>1, DoubtMove DEF Returns
  <2> QED
    BY <1>1, <2>1, EntryTypes
       DEF CallMove, Returns, Goes, Views, Sights, Steps, Sightings, Replies,
           InDelivery
<1>2. CASE a # "success"
  <2>1. Answers(c, a)
    BY <1>2 DEF Returns
  <2> QED
    BY <1>2, <2>1, AnswersMove
<1> QED
  BY <1>1, <1>2

LEMMA LeavesMove ==
  ASSUME SettlementInv, NEW c \in Calls, NEW a, a \in Replies, Leaves(c, a),
         seen' = seen, NEW v, v \in Entry, Views(c, v),
         doubt' \in [Calls -> 0 .. 2]
  PROVE  CallMove(c, "leave", v, seen[c], a)
<1>1. seen[c] \in Sightings
  BY CallNow
<1> QED
  BY <1>1, Standing
     DEF CallMove, Leaves, Goes, Views, Steps, InQueue, InSession

LEMMA ThrowsMove ==
  ASSUME SettlementInv, NEW c \in Calls, NEW d \in 0 .. 2, Throws(c, d)
  PROVE  /\ CallMove(c, "fail", NoEntry, 0, answer[c])
         /\ maint' = maint /\ poisoned' \in BOOLEAN
<1>1. doubt' \in [Calls -> 0 .. 2]
  BY DoubtMove DEF Throws
<1>2. answer[c] \in Replies /\ poisoned \in BOOLEAN
  BY CallNow
<1>3. poisoned' \in BOOLEAN
  BY <1>2 DEF Throws
<1> QED
  BY <1>1, <1>2, <1>3, Standing, EntryTypes
     DEF CallMove, Throws, Goes, Views, Sights, Steps, InQueue, Sightings

LEMMA RecoveredAnswers ==
  ASSUME NEW r \in Entry
  PROVE  /\ RecoveredAnswer(r) \in {"delivered", "internal", "recovery", "success"}
         /\ RecoveredAnswer(r) = "delivered" => r.delivery = "DELIVERED"
         /\ RecoveredAnswer(r) = "success" /\ Recovered(r) => Enough(r, MinConfs)
BY DEF RecoveredAnswer, FailedInclusion, Recovered, Entry, DeliveryStates

LEMMA FailureAnswers ==
  ASSUME NEW d
  PROVE  /\ FailureAnswer(d) \in {"rejected", "recovery", "internal"}
         /\ FailureAnswer(d) = "rejected" => d = 0
BY DEF FailureAnswer, FailedInclusion

-----------------------------------------------------------------------------
(* Answers and errors. *)

LEMMA AnswerStep ==
  ASSUME SettlementInv, NEW c \in Calls, NEW a, a \in Replies, Answers(c, a),
         UNCHANGED <<journal, world, poisoned, maint>>,
         a = "delivered" => journal[Of(c)].delivery = "DELIVERED",
         a = "terminal" => journal[Of(c)].kind = "tombstone",
         a = "rejected" => answer[c] = "rejected" \/ journal[Of(c)].kind = "none"
  PROVE  StepOK
<1>1. CallMove(c, "idle", NoEntry, 0, a)
  BY AnswersMove
<1>2. Fits(journal[Of(c)], handled[Of(c)], chain[Of(c)], "idle", NoEntry, 0, a)
  BY DEF Fits, Sighted, InSession
<1>3. poisoned' \in BOOLEAN /\ maint' = maint
  BY CallNow
<1>4. UNCHANGED <<journal, chain, published, handled>>
  BY DEF world
<1> QED
  BY <1>1, <1>2, <1>3, <1>4, LocalStep DEF InSession

LEMMA ReturnStep ==
  ASSUME SettlementInv, NEW c \in Calls, NEW a, a \in Replies, Returns(c, a),
         UNCHANGED <<journal, world, poisoned, maint>>,
         a = "delivered" => journal[Of(c)].delivery = "DELIVERED",
         a = "terminal" => journal[Of(c)].kind = "tombstone",
         a = "success" => Enough(journal[Of(c)], MinConfs),
         a = "rejected" => answer[c] = "rejected" \/ journal[Of(c)].kind = "none"
  PROVE  StepOK
<1>1. CASE a = "success"
  <2>1. CallMove(c, "claim", NoEntry, 0, "none")
    BY <1>1, ReturnsMove
  <2>2. Fits(journal[Of(c)], handled[Of(c)], chain[Of(c)], "claim", NoEntry, 0, "none")
    BY <1>1 DEF Fits, Sighted, InSession
  <2>3. poisoned' \in BOOLEAN /\ maint' = maint
    BY CallNow
  <2>4. UNCHANGED <<journal, chain, published, handled>>
    BY DEF world
  <2> QED
    BY <2>1, <2>2, <2>3, <2>4, LocalStep DEF InSession
<1>2. CASE a # "success"
  BY <1>2, AnswerStep DEF Returns
<1> QED
  BY <1>1, <1>2

LEMMA ThrowStep ==
  ASSUME SettlementInv, NEW c \in Calls, NEW d \in 0 .. 2, Throws(c, d),
         UNCHANGED <<journal, world>>
  PROVE  StepOK
<1>1. /\ CallMove(c, "fail", NoEntry, 0, answer[c])
      /\ maint' = maint /\ poisoned' \in BOOLEAN
  BY ThrowsMove
<1>2. Fits(journal[Of(c)], handled[Of(c)], chain[Of(c)], "fail", NoEntry, 0, answer[c])
  BY CallNow DEF Fits, Sighted, InSession
<1>3. UNCHANGED <<journal, chain, published, handled>>
  BY DEF world
<1> QED
  BY <1>1, <1>2, <1>3, LocalStep DEF InSession

\* #settleWithNode returns an answer while the records stay as they are.
LEMMA LeaveStep ==
  ASSUME SettlementInv, NEW c \in Calls, NEW a, a \in Replies \ {"rejected"},
         Leaves(c, a), pc[c] \in InSession,
         UNCHANGED <<journal, world, view, seen, doubt, maint>>,
         poisoned' \in BOOLEAN,
         a = "delivered" => journal[Of(c)].delivery = "DELIVERED",
         a = "terminal" => journal[Of(c)].kind = "tombstone",
         a = "success" => Enough(journal[Of(c)], MinConfs)
  PROVE  StepOK
<1>1. doubt' \in [Calls -> 0 .. 2]
  BY DoubtMove
<1>2. Views(c, view[c]) /\ view[c] \in Entry
  BY Standing, CallNow DEF Views
<1>3. CallMove(c, "leave", view[c], seen[c], a)
  BY <1>1, <1>2, LeavesMove
<1>4. Fits(journal[Of(c)], handled[Of(c)], chain[Of(c)], "leave", view[c], seen[c], a)
  BY CallNow DEF Fits
<1>5. UNCHANGED <<journal, chain, published, handled>>
  BY DEF world
<1> QED
  BY <1>3, <1>4, <1>5, LocalStep

\* The call goes on, inside the session or before it.
LEMMA GoStep ==
  ASSUME SettlementInv, NEW c \in Calls, NEW x \in Steps, Goes(c, x),
         UNCHANGED <<journal, world, view, seen, doubt, answer, maint>>,
         poisoned' \in BOOLEAN,
         Fits(journal[Of(c)], handled[Of(c)], chain[Of(c)], x, view[c], seen[c],
              answer[c]),
         x \in InSession => pc[c] \in InSession \/ SessionFree,
         x \notin {"handler", "store"}
  PROVE  StepOK
<1>1. CallMove(c, x, view[c], seen[c], answer[c])
  BY GoesMove
<1>2. UNCHANGED <<journal, chain, published, handled>>
  BY DEF world
<1> QED
  BY <1>1, <1>2, LocalStep

-----------------------------------------------------------------------------
(* The steps of a call that write nothing. *)

LEMMA SubmitOK ==
  ASSUME SettlementInv, NEW c \in Calls, Submit(c)
  PROVE  StepOK
<1>1. CallMove(c, "queue", view[c], seen[c], "none")
  <2>1. doubt' \in [Calls -> 0 .. 2]
    BY DoubtMove DEF Submit
  <2> QED
    BY <2>1, CallNow, Standing DEF Submit, CallMove, Goes, Steps, Replies
<1>2. Fits(journal[Of(c)], handled[Of(c)], chain[Of(c)], "queue", view[c], seen[c],
           "none")
  BY CallNow DEF Fits, InSession
<1>3. UNCHANGED <<journal, chain, published, handled>> /\ maint' = maint
  BY DEF Submit, world
<1>4. poisoned' \in BOOLEAN
  BY CallNow DEF Submit
<1> QED
  BY <1>1, <1>2, <1>3, <1>4, LocalStep DEF InSession

LEMMA EnterQueueOK ==
  ASSUME SettlementInv, NEW c \in Calls, EnterQueue(c)
  PROVE  StepOK
<1>1. Fits(journal[Of(c)], handled[Of(c)], chain[Of(c)], "journal", view[c], seen[c],
           answer[c])
  BY CallNow DEF Fits, InSession
<1>2. poisoned' \in BOOLEAN
  BY CallNow DEF EnterQueue
<1> QED
  BY <1>1, <1>2, GoStep DEF EnterQueue, Steps, InQueue, InSession

LEMMA ReadJournalOK ==
  ASSUME SettlementInv, NEW c \in Calls, ReadJournal(c)
  PROVE  StepOK
<1> DEFINE r == journal[Of(c)]
<1>0. r \in Entry
  BY CallNow
<1>1. CASE r.kind = "tombstone" /\ Answers(c, "terminal") /\ UNCHANGED <<poisoned, maint>>
  BY <1>1, AnswerStep DEF ReadJournal, Replies
<1>2. CASE Recovered(r) /\ Returns(c, RecoveredAnswer(r)) /\ UNCHANGED <<poisoned, maint>>
  <2>1. /\ RecoveredAnswer(r) \in Replies \ {"rejected", "terminal"}
        /\ RecoveredAnswer(r) = "delivered" => r.delivery = "DELIVERED"
        /\ RecoveredAnswer(r) = "success" => Enough(r, MinConfs)
    BY <1>0, <1>2, RecoveredAnswers DEF Replies
  <2> QED
    BY <1>2, <2>1, ReturnStep DEF ReadJournal
<1>3. CASE /\ Goes(c, "session") /\ Doubts(c, RecordDoubt(r))
           /\ UNCHANGED <<view, seen, answer>> /\ UNCHANGED <<poisoned, maint>>
  <2>1. doubt' \in [Calls -> 0 .. 2]
    BY <1>3, DoubtMove, DoubtTypes
  <2>2. CallMove(c, "session", view[c], seen[c], answer[c])
    BY <1>3, <2>1, CallNow, Standing DEF CallMove, Goes, Steps, InQueue
  <2>3. Fits(r, handled[Of(c)], chain[Of(c)], "session", view[c], seen[c], answer[c])
    BY CallNow DEF Fits, InSession
  <2>4. UNCHANGED <<journal, chain, published, handled>> /\ maint' = maint
    BY <1>3 DEF ReadJournal, world
  <2>5. poisoned' \in BOOLEAN
    BY <1>3, CallNow
  <2> QED
    BY <2>2, <2>3, <2>4, <2>5, LocalStep DEF InSession
<1>4. CASE Throws(c, 1)
  BY <1>4, ThrowStep DEF ReadJournal
<1> QED
  BY <1>1, <1>2, <1>3, <1>4 DEF ReadJournal

LEMMA EnterSessionOK ==
  ASSUME SettlementInv, NEW c \in Calls, EnterSession(c)
  PROVE  StepOK
<1>1. Fits(journal[Of(c)], handled[Of(c)], chain[Of(c)], "reread", view[c], seen[c],
           answer[c])
  BY CallNow DEF Fits
<1>2. poisoned' \in BOOLEAN
  BY CallNow DEF EnterSession
<1> QED
  BY <1>1, <1>2, GoStep DEF EnterSession, Steps, InQueue, InSession

LEMMA SessionRefusedOK ==
  ASSUME SettlementInv, NEW c \in Calls, SessionRefused(c)
  PROVE  StepOK
BY ThrowStep DEF SessionRefused

LEMMA NodeFailsOK ==
  ASSUME SettlementInv, NEW c \in Calls, NodeFails(c)
  PROVE  StepOK
<1>1. PICK d \in 0 .. 2 : Throws(c, d)
  BY DEF NodeFails
<1> QED
  BY <1>1, ThrowStep DEF NodeFails

LEMMA RereadOK ==
  ASSUME SettlementInv, NEW c \in Calls, Reread(c)
  PROVE  StepOK
<1> DEFINE r == journal[Of(c)]
<1>0. /\ pc[c] = "reread" /\ maint' = maint /\ poisoned' \in BOOLEAN
      /\ UNCHANGED <<journal, chain, published, handled>>
  BY CallNow DEF Reread, At, world
<1>1. CASE r.kind = "tombstone"
  BY <1>0, <1>1, LeaveStep DEF Reread, Replies, InSession
<1>2. CASE r.kind # "tombstone"
  <2>1. doubt' \in [Calls -> 0 .. 2]
    BY <1>2, DoubtMove, DoubtTypes DEF Reread
  <2>2. CallMove(c, "lookup", r, seen[c], answer[c])
    BY <1>2, <2>1, CallNow, Standing
       DEF Reread, CallMove, Goes, Views, Steps, InQueue, InSession
  <2>3. Fits(r, handled[Of(c)], chain[Of(c)], "lookup", r, seen[c], answer[c])
    BY <1>2, CallNow DEF Fits, Current
  <2> QED
    BY <1>0, <2>2, <2>3, LocalStep DEF InSession
<1> QED
  BY <1>1, <1>2

LEMMA SeesSighted ==
  ASSUME SettlementInv, NEW p \in Payments, NEW o \in Sees(p)
  PROVE  o \in Sightings /\ Sighted(o, chain[p]) /\ SeenDoubt(o) \in 0 .. 2
<1>1. chain[p] \in 0 .. 2 + MaxConfs
  BY DEF SettlementInv, TypeOK
<1> QED
  BY <1>1, Constants DEF Sees, Sightings, Sighted, SeenDoubt

LEMMA LookupOK ==
  ASSUME SettlementInv, NEW c \in Calls, Lookup(c)
  PROVE  StepOK
<1>0. /\ pc[c] = "lookup" /\ maint' = maint /\ poisoned' \in BOOLEAN
      /\ UNCHANGED <<journal, chain, published, handled>>
  BY CallNow DEF Lookup, At, world
<1>1. PICK o \in Sees(Of(c)) :
        /\ Sights(c, o) /\ Doubts(c, SeenDoubt(o))
        /\ Goes(c, IF view[c].kind = "none" /\ o = 0 THEN "balance" ELSE "decide")
  BY DEF Lookup
<1>2. o \in Sightings /\ Sighted(o, chain[Of(c)]) /\ SeenDoubt(o) \in 0 .. 2
  BY CallNow, SeesSighted
<1>3. doubt' \in [Calls -> 0 .. 2]
  BY <1>1, <1>2, DoubtMove
<1>4. PICK x \in {"balance", "decide"} : Goes(c, x)
  BY <1>1
<1>5. CallMove(c, x, view[c], o, answer[c])
  BY <1>1, <1>2, <1>3, <1>4, CallNow, Standing
     DEF Lookup, CallMove, Goes, Sights, Steps, InQueue, InSession
<1>6. Fits(journal[Of(c)], handled[Of(c)], chain[Of(c)], x, view[c], o, answer[c])
  BY <1>0, <1>2, CallNow DEF Fits, InSession
<1> QED
  BY <1>0, <1>5, <1>6, LocalStep DEF InSession

LEMMA LookupFailsOK ==
  ASSUME SettlementInv, NEW c \in Calls, LookupFails(c)
  PROVE  StepOK
<1>1. poisoned' \in BOOLEAN
  BY CallNow DEF LookupFails
<1> QED
  BY <1>1, LeaveStep DEF LookupFails, At, Replies, InSession

LEMMA BalanceOK ==
  ASSUME SettlementInv, NEW c \in Calls, Balance(c)
  PROVE  StepOK
<1>0. /\ pc[c] = "balance" /\ maint' = maint /\ poisoned' \in BOOLEAN
      /\ UNCHANGED <<journal, chain, published, handled>>
  BY CallNow DEF Balance, At, world
<1>1. PICK o \in Sees(Of(c)) :
        /\ Sights(c, o)
        /\ LET r == IF o = 0 THEN journal[Of(c)] ELSE view[c] IN
             Views(c, r) /\ Doubts(c, Worse(SeenDoubt(o), RecordDoubt(r)))
  BY DEF Balance
<1> DEFINE r == IF o = 0 THEN journal[Of(c)] ELSE view[c]
<1>2. o \in Sightings /\ Sighted(o, chain[Of(c)]) /\ SeenDoubt(o) \in 0 .. 2
  BY CallNow, SeesSighted
<1>3. Worse(SeenDoubt(o), RecordDoubt(r)) \in 0 .. 2
  BY <1>2, DoubtTypes
<1>4. doubt' \in [Calls -> 0 .. 2]
  BY <1>1, <1>3, DoubtMove
<1>5. r \in Entry
  BY CallNow
<1>6. CallMove(c, "decide", r, o, answer[c])
  BY <1>1, <1>2, <1>4, <1>5, CallNow, Standing
     DEF Balance, CallMove, Goes, Views, Sights, Steps, InQueue, InSession
<1>7. Fits(journal[Of(c)], handled[Of(c)], chain[Of(c)], "decide", r, o, answer[c])
  BY <1>0, <1>2, CallNow DEF Fits, InSession, Current
<1> QED
  BY <1>0, <1>6, <1>7, LocalStep DEF InSession

LEMMA DecideOK ==
  ASSUME SettlementInv, NEW c \in Calls, Decide(c)
  PROVE  StepOK
<1> DEFINE r == view[c]
           o == seen[c]
           j == journal[Of(c)]
           undecided == r.kind = "none" \/ r.evidence = "VALIDATED"
<1>0. /\ pc[c] = "decide" /\ poisoned' \in BOOLEAN
      /\ UNCHANGED <<journal, world, view, seen, doubt, maint>>
  BY CallNow DEF Decide, At
<1>1. /\ r \in Entry /\ j \in Entry /\ o \in Int /\ r.confs \in Nat
      /\ Current(r, j) /\ Sighted(o, chain[Of(c)]) /\ EntryOK(Of(c))
  BY <1>0, CallNow, Constants DEF Fits, InSession, Sightings, Entry
<1>2. j.kind = "none" => j = NoEntry
  BY <1>1 DEF EntryOK
<1>3. CASE Recovered(r) /\ Leaves(c, RecoveredAnswer(r))
  <2>1. /\ RecoveredAnswer(r) \in Replies \ {"rejected", "terminal"}
        /\ RecoveredAnswer(r) = "delivered" => r.delivery = "DELIVERED"
        /\ RecoveredAnswer(r) = "success" => Enough(r, MinConfs)
    BY <1>1, <1>3, RecoveredAnswers DEF Replies
  <2>2. /\ RecoveredAnswer(r) = "delivered" => j.delivery = "DELIVERED"
        /\ RecoveredAnswer(r) = "success" => Enough(j, MinConfs)
    BY <1>1, <2>1 DEF Current, Enough
  <2> QED
    BY <1>0, <1>3, <2>1, <2>2, LeaveStep DEF InSession
<1>4. CASE Leaves(c, "recovery")
  BY <1>0, <1>4, LeaveStep DEF InSession, Replies
<1>5. CASE /\ ~ Recovered(r) /\ SubThreshold(r) /\ Confirmations(o) > r.confs
           /\ Goes(c, "momentum") /\ UNCHANGED answer
  <2>1. Fits(j, handled[Of(c)], chain[Of(c)], "momentum", r, o, answer[c])
    BY <1>0, <1>1, <1>5, CallNow
       DEF Fits, InSession, SubThreshold, Confirmations, Recovered
  <2> QED
    BY <1>0, <1>5, <2>1, GoStep DEF Steps, InQueue, InSession
<1>6. CASE /\ ~ Recovered(r) /\ ~ SubThreshold(r)
           /\ Goes(c, IF o # 0 THEN "record" ELSE IF undecided THEN "frontier" ELSE "wait")
           /\ UNCHANGED answer
  <2>1. PICK x \in {"record", "frontier", "wait"} :
          Goes(c, x) /\ (x = "wait" => ~ undecided)
    BY <1>6
  <2>2. r.evidence # "INCLUDED"
    <3>1. CASE r.kind = "record"
      BY <1>6, <3>1 DEF Recovered, SubThreshold
    <3>2. CASE r.kind # "record"
      BY <1>1, <1>2, <3>2, EntryTypes DEF Current, Entry
    <3> QED
      BY <3>1, <3>2
  <2>3. ~ undecided => r.kind = "record"
    BY <1>1 DEF Current, Entry
  <2>4. Fits(j, handled[Of(c)], chain[Of(c)], x, r, o, answer[c])
    BY <1>0, <1>1, <2>1, <2>2, <2>3, CallNow DEF Fits, InSession
  <2> QED
    BY <1>0, <1>6, <2>1, <2>4, GoStep DEF Steps, InQueue, InSession
<1>7. \/ Recovered(r) /\ Leaves(c, RecoveredAnswer(r))
      \/ Leaves(c, "recovery")
      \/ /\ ~ Recovered(r) /\ SubThreshold(r) /\ Confirmations(o) > r.confs
         /\ Goes(c, "momentum") /\ UNCHANGED answer
      \/ /\ ~ Recovered(r) /\ ~ SubThreshold(r)
         /\ Goes(c, IF o # 0 THEN "record" ELSE IF undecided THEN "frontier" ELSE "wait")
         /\ UNCHANGED answer
  BY DEF Decide
<1> QED
  BY <1>3, <1>4, <1>5, <1>6, <1>7

LEMMA FrontierOK ==
  ASSUME SettlementInv, NEW c \in Calls, Frontier(c)
  PROVE  StepOK
<1>1. Fits(journal[Of(c)], handled[Of(c)], chain[Of(c)], "record", view[c], seen[c],
           answer[c])
  BY CallNow DEF Frontier, At, Fits, InSession
<1>2. poisoned' \in BOOLEAN
  BY CallNow DEF Frontier
<1> QED
  BY <1>1, <1>2, GoStep DEF Frontier, At, Steps, InQueue, InSession

LEMMA PublishReturnsOK ==
  ASSUME SettlementInv, NEW c \in Calls, PublishReturns(c)
  PROVE  StepOK
<1>0. /\ pc[c] = "sending" /\ maint' = maint /\ poisoned' \in BOOLEAN
      /\ UNCHANGED <<journal, chain, published, handled>>
  BY CallNow DEF PublishReturns, At, world
<1>1. PICK o \in Sightings, x \in {"noteSent", "noteUnknown", "momentum"} :
        /\ Sighted(o, chain[Of(c)]) /\ Sights(c, o) /\ Goes(c, x)
        /\ x = "momentum" => o > 2
  <2>1. CASE chain[Of(c)] >= 2 /\ Goes(c, "noteSent") /\ UNCHANGED seen
    <3>1. Sights(c, seen[c]) /\ seen[c] \in Sightings /\ Sighted(seen[c], chain[Of(c)])
      BY <2>1, Standing, CallNow DEF Sights, Fits
    <3> QED
      BY <2>1, <3>1
  <2>2. CASE \E o \in Sees(Of(c)) :
               /\ Sights(c, o)
               /\ Goes(c, IF o > 2 THEN "momentum"
                          ELSE IF o = 2 THEN "noteSent" ELSE "noteUnknown")
    <3>1. PICK o \in Sees(Of(c)) :
            /\ Sights(c, o)
            /\ Goes(c, IF o > 2 THEN "momentum"
                       ELSE IF o = 2 THEN "noteSent" ELSE "noteUnknown")
      BY <2>2
    <3>2. o \in Sightings /\ Sighted(o, chain[Of(c)])
      BY CallNow, SeesSighted
    <3> QED
      BY <3>1, <3>2
  <2> QED
    BY <2>1, <2>2 DEF PublishReturns
<1>2. doubt' \in [Calls -> 0 .. 2]
  BY DoubtMove DEF PublishReturns
<1>3. CallMove(c, x, view[c], o, answer[c])
  BY <1>1, <1>2, CallNow, Standing
     DEF PublishReturns, CallMove, Goes, Sights, Steps, InQueue, InSession
<1>4. Fits(journal[Of(c)], handled[Of(c)], chain[Of(c)], x, view[c], o, answer[c])
  BY <1>0, <1>1, CallNow DEF Fits, InSession, Enough
<1> QED
  BY <1>0, <1>3, <1>4, LocalStep DEF InSession

LEMMA PublishTimesOutOK ==
  ASSUME SettlementInv, NEW c \in Calls, PublishTimesOut(c)
  PROVE  StepOK
<1>1. Fits(journal[Of(c)], handled[Of(c)], chain[Of(c)], "noteUnknown", view[c],
           seen[c], answer[c])
  BY CallNow DEF PublishTimesOut, At, Fits, InSession
<1> QED
  BY <1>1, GoStep DEF PublishTimesOut, At, Steps, InQueue, InSession

LEMMA WaitEndsOK ==
  ASSUME SettlementInv, NEW c \in Calls, WaitEnds(c)
  PROVE  StepOK
<1>0. /\ pc[c] = "wait" /\ maint' = maint /\ poisoned' \in BOOLEAN
      /\ UNCHANGED <<journal, chain, published, handled>>
  BY CallNow DEF WaitEnds, At, world
<1>1. PICK o \in Sees(Of(c)) : o > 2 /\ Sights(c, o) /\ Goes(c, "momentum")
  BY DEF WaitEnds
<1>2. o \in Sightings /\ Sighted(o, chain[Of(c)])
  BY CallNow, SeesSighted
<1>3. doubt' \in [Calls -> 0 .. 2]
  BY DoubtMove DEF WaitEnds
<1>4. CallMove(c, "momentum", view[c], o, answer[c])
  BY <1>1, <1>2, <1>3, CallNow, Standing
     DEF WaitEnds, CallMove, Goes, Sights, Steps, InQueue, InSession
<1>5. Fits(journal[Of(c)], handled[Of(c)], chain[Of(c)], "momentum", view[c], o,
           answer[c])
  BY <1>0, <1>1, <1>2, CallNow DEF Fits, InSession, Enough
<1> QED
  BY <1>0, <1>4, <1>5, LocalStep DEF InSession

LEMMA WaitTimesOutOK ==
  ASSUME SettlementInv, NEW c \in Calls, WaitTimesOut(c)
  PROVE  StepOK
<1>1. poisoned' \in BOOLEAN
  BY CallNow DEF WaitTimesOut
<1> QED
  BY <1>1, LeaveStep DEF WaitTimesOut, At, Replies, InSession

LEMMA LeaveSessionOK ==
  ASSUME SettlementInv, NEW c \in Calls, LeaveSession(c)
  PROVE  StepOK
<1>1. /\ answer[c] \in Replies
      /\ answer[c] = "delivered" => journal[Of(c)].delivery = "DELIVERED"
      /\ answer[c] = "terminal" => journal[Of(c)].kind = "tombstone"
      /\ answer[c] = "success" => Enough(journal[Of(c)], MinConfs)
  BY CallNow DEF LeaveSession, At, Fits
<1> QED
  BY <1>1, ReturnStep DEF LeaveSession

LEMMA LeavingFailsOK ==
  ASSUME SettlementInv, NEW c \in Calls, LeavingFails(c)
  PROVE  StepOK
<1>1. doubt' \in [Calls -> 0 .. 2]
  BY DoubtMove DEF LeavingFails
<1>2. CallMove(c, "fail", NoEntry, 0, "none")
  BY <1>1, EntryTypes
     DEF LeavingFails, CallMove, Goes, Views, Sights, Steps, InQueue, Sightings,
         Replies
<1>3. Fits(journal[Of(c)], handled[Of(c)], chain[Of(c)], "fail", NoEntry, 0, "none")
  BY DEF Fits, Sighted, InSession
<1>4. /\ UNCHANGED <<journal, chain, published, handled>>
      /\ maint' = maint /\ poisoned' \in BOOLEAN
  BY DEF LeavingFails, world
<1> QED
  BY <1>2, <1>3, <1>4, LocalStep DEF InSession

LEMMA FailOK ==
  ASSUME SettlementInv, NEW c \in Calls, Fail(c)
  PROVE  StepOK
<1> DEFINE r == journal[Of(c)]
           d == Worse(doubt[c], IF poisoned THEN 1 ELSE 0)
<1>0. d \in 0 .. 2 /\ r \in Entry /\ RecordDoubt(r) \in 0 .. 2
  BY CallNow, DoubtTypes DEF Worse
<1>1. CASE r.kind = "tombstone" /\ Answers(c, "terminal")
  BY <1>1, AnswerStep DEF Fail, Replies
<1>2. CASE r.kind # "tombstone" /\ Answers(c, FailureAnswer(Worse(d, RecordDoubt(r))))
  <2> DEFINE a == FailureAnswer(Worse(d, RecordDoubt(r)))
  <2>1. a \in {"rejected", "recovery", "internal"}
    BY FailureAnswers
  <2>2. a = "rejected" => Worse(d, RecordDoubt(r)) = 0
    BY FailureAnswers
  <2>3. a = "rejected" => r.kind = "none"
    BY <1>0, <1>2, <2>2 DEF Worse, RecordDoubt, Entry
  <2>4. UNCHANGED <<journal, world, poisoned, maint>> /\ Answers(c, a)
    BY <1>2 DEF Fail
  <2> HIDE DEF a
  <2> QED
    BY <2>1, <2>3, <2>4, AnswerStep DEF Replies
<1>3. ASSUME NEW e \in {1, RecordDoubt(r)},
             Answers(c, FailureAnswer(Worse(Worse(d, 1), e)))
      PROVE  StepOK
  <2> DEFINE a == FailureAnswer(Worse(Worse(d, 1), e))
  <2>1. a \in {"rejected", "recovery", "internal"}
    BY FailureAnswers
  <2>2. a = "rejected" => Worse(Worse(d, 1), e) = 0
    BY FailureAnswers
  <2>3. a # "rejected"
    BY <1>0, <2>2 DEF Worse
  <2>4. UNCHANGED <<journal, world, poisoned, maint>> /\ Answers(c, a)
    BY <1>3 DEF Fail
  <2> HIDE DEF a
  <2> QED
    BY <2>1, <2>3, <2>4, AnswerStep DEF Replies
<1>4. \/ r.kind = "tombstone" /\ Answers(c, "terminal")
      \/ r.kind # "tombstone" /\ Answers(c, FailureAnswer(Worse(d, RecordDoubt(r))))
      \/ \E e \in {1, RecordDoubt(r)} : Answers(c, FailureAnswer(Worse(Worse(d, 1), e)))
  BY DEF Fail
<1> QED
  BY <1>1, <1>2, <1>3, <1>4

-----------------------------------------------------------------------------
(* The steps of a call that write. *)

\* What an entry must be for what the chain and the handler have done.
Borne(r, h, k) ==
  /\ r.delivery # "NONE" => Enough(r, MinConfs)
  /\ r.kind = "record" =>
       IF r.evidence = "INCLUDED" THEN 2 + r.confs <= k ELSE r.confs = 0
  /\ h = 1 => r.delivery # "NONE"
  /\ r.delivery = "DELIVERED" => h = 1

LEMMA EntryMoved ==
  ASSUME SettlementInv, NEW p \in Payments, NEW r \in Entry,
         journal' = [journal EXCEPT ![p] = r], UNCHANGED world,
         EntryMove(journal[p], r), Borne(r, handled[p], chain[p])
  PROVE  /\ WorldTypes' /\ PaymentMove(p) /\ EntryOK(p)'
         /\ journal'[p] = r /\ handled'[p] = handled[p] /\ chain'[p] = chain[p]
<1>1. /\ journal \in [Payments -> Entry] /\ EntryOK(p)
      /\ chain' = chain /\ published' = published /\ handled' = handled
  BY DEF SettlementInv, TypeOK, world
<1>2. journal' \in [Payments -> Entry] /\ journal'[p] = r
  BY <1>1
<1>3. WorldTypes'
  BY <1>1, <1>2 DEF SettlementInv, TypeOK, WorldTypes
<1>4. PaymentMove(p)
  BY <1>1, <1>2 DEF PaymentMove, Unmoved
<1>5. r.kind = "none" => r = NoEntry /\ journal[p].kind = "none"
  <2>1. journal[p].kind = "none" => journal[p] = NoEntry
    BY <1>1 DEF EntryOK
  <2>2. journal[p].kind # "none" => r.kind # "none"
    BY <1>1, <2>1, MoveKeeps
  <2> QED
    BY <2>1, <2>2, EntryTypes DEF EntryMove, RetentionEligible
<1>6. EntryOK(p)'
  BY <1>1, <1>2, <1>5 DEF EntryOK, Borne
<1> QED
  BY <1>1, <1>2, <1>3, <1>4, <1>6

\* A session writes the evidence.
LEMMA WriteStep ==
  ASSUME SettlementInv, NEW c \in Calls, NEW r \in Entry, Writes(c, r),
         UNCHANGED world, pc[c] \in InSession,
         EntryMove(journal[Of(c)], r), Borne(r, handled[Of(c)], chain[Of(c)]),
         r.delivery = journal[Of(c)].delivery,
         NEW x, NEW v, NEW o, NEW a,
         CallMove(c, x, v, o, a), maint' = maint, poisoned' \in BOOLEAN,
         Fits(r, handled[Of(c)], chain[Of(c)], x, v, o, a),
         x \notin {"handler", "store"},
         a = "rejected" => answer[c] = "rejected"
  PROVE  StepOK
<1>1. Of(c) \in Payments
  BY CallNow
<1>2. /\ WorldTypes' /\ PaymentMove(Of(c)) /\ EntryOK(Of(c))'
      /\ journal'[Of(c)] = r /\ handled'[Of(c)] = handled[Of(c)]
      /\ chain'[Of(c)] = chain[Of(c)]
  BY <1>1, EntryMoved DEF Writes
<1>3. Entitled(c, x)
  BY DEF Entitled
<1>4. Fits(journal'[Of(c)], handled'[Of(c)], chain'[Of(c)], x, v, o, a)
  BY <1>2
<1> QED
  BY <1>2, <1>3, <1>4, CallStep

\* A write is reported as failed, whether or not it was done.
LEMMA FailedWriteStep ==
  ASSUME SettlementInv, NEW c \in Calls, NEW r \in Entry, FailsToWrite(c, r),
         NEW d \in 0 .. 2, Throws(c, d), UNCHANGED world, pc[c] \in InSession,
         EntryMove(journal[Of(c)], r), Borne(r, handled[Of(c)], chain[Of(c)]),
         r.delivery = journal[Of(c)].delivery
  PROVE  StepOK
<1>1. CASE UNCHANGED journal
  BY <1>1, ThrowStep
<1>2. CASE Writes(c, r)
  <2>1. /\ CallMove(c, "fail", NoEntry, 0, answer[c])
        /\ maint' = maint /\ poisoned' \in BOOLEAN
    BY ThrowsMove
  <2>2. /\ journal[Of(c)] \in Entry
        /\ journal[Of(c)].kind = "none" => journal[Of(c)] = NoEntry
    BY CallNow DEF EntryOK
  <2>3. journal[Of(c)].kind = "tombstone" => r.kind = "tombstone"
    BY <2>2, MoveKeeps
  <2>4. Fits(r, handled[Of(c)], chain[Of(c)], "fail", NoEntry, 0, answer[c])
    BY <2>3, CallNow DEF Fits, Sighted, InSession
  <2> QED
    BY <1>2, <2>1, <2>4, WriteStep
<1> QED
  BY <1>1, <1>2 DEF FailsToWrite

\* What follows a record without an inclusion: where the call goes, and what
\* holds of it there if the journal has the entry j.
LEMMA ProceedsMove ==
  ASSUME SettlementInv, NEW c \in Calls, pc[c] = "record",
         NEW r \in Entry, r.kind = "record", r.evidence # "INCLUDED",
         Proceeds(c, r), Views(c, r), seen' = seen, doubt' \in [Calls -> 0 .. 2],
         NEW j \in Entry, Current(r, j),
         answer[c] = "delivered" => j.delivery = "DELIVERED",
         answer[c] = "terminal" => j.kind = "tombstone"
  PROVE  \E x \in InSession, a \in Replies :
           /\ CallMove(c, x, r, seen[c], a)
           /\ Fits(j, handled[Of(c)], chain[Of(c)], x, r, seen[c], a)
           /\ a = "rejected" => answer[c] = "rejected"
<1>1. Sighted(seen[c], chain[Of(c)]) /\ seen[c] \in Int
  BY CallNow, Constants DEF Fits, Sightings
<1>2. ~ Enough(r, MinConfs)
  BY DEF Enough
<1>3. CASE Recovered(r) /\ Leaves(c, RecoveredAnswer(r))
  <2> DEFINE a == RecoveredAnswer(r)
  <2>1. /\ a \in Replies \ {"rejected", "terminal", "success"}
        /\ a = "delivered" => r.delivery = "DELIVERED"
    BY <1>2, <1>3, RecoveredAnswers DEF Replies
  <2>2. Leaves(c, a)
    BY <1>3
  <2> HIDE DEF a
  <2>3. CallMove(c, "leave", r, seen[c], a)
    BY <2>1, <2>2, LeavesMove
  <2>4. Fits(j, handled[Of(c)], chain[Of(c)], "leave", r, seen[c], a)
    BY <1>1, <2>1 DEF Fits, Current
  <2> QED
    BY <2>1, <2>3, <2>4 DEF InSession
<1>4. CASE /\ Goes(c, IF seen[c] > 2 THEN "momentum"
                      ELSE IF seen[c] = 2 THEN "noteSeen"
                      ELSE IF r.evidence = "VALIDATED" THEN "publish" ELSE "wait")
           /\ answer' = answer
  <2>1. PICK x \in {"momentum", "noteSeen", "publish", "wait"} :
          Goes(c, x) /\ (x = "momentum" => seen[c] > 2)
    BY <1>4
  <2>2. CallMove(c, x, r, seen[c], answer[c])
    BY <1>4, <2>1, CallNow, Standing
       DEF CallMove, Goes, Views, Steps, InQueue, InSession
  <2>3. Fits(j, handled[Of(c)], chain[Of(c)], x, r, seen[c], answer[c])
    BY <1>1, <1>2, <2>1, CallNow DEF Fits
  <2>4. x \in InSession /\ answer[c] \in Replies
    BY CallNow DEF InSession
  <2> QED
    BY <2>2, <2>3, <2>4
<1> QED
  BY <1>3, <1>4 DEF Proceeds

LEMMA RecordOK ==
  ASSUME SettlementInv, NEW c \in Calls, Record(c)
  PROVE  StepOK
<1> DEFINE j == journal[Of(c)]
           v == view[c]
<1>0. /\ pc[c] = "record" /\ UNCHANGED world
      /\ UNCHANGED <<chain, published, handled>>
  BY DEF Record, At, world
<1>1. /\ v \in Entry /\ j \in Entry /\ Current(v, j) /\ v.evidence # "INCLUDED"
      /\ EntryOK(Of(c)) /\ poisoned \in BOOLEAN
      /\ answer[c] = "delivered" => j.delivery = "DELIVERED"
      /\ answer[c] = "terminal" => j.kind = "tombstone"
  BY <1>0, CallNow DEF Fits, InSession
<1>2. CASE /\ v.kind = "record" /\ Proceeds(c, v)
           /\ UNCHANGED <<journal, poisoned, view, seen, doubt, maint>>
  <2>1. Views(c, v) /\ doubt' \in [Calls -> 0 .. 2]
    BY <1>2, Standing, DoubtMove DEF Views
  <2>2. PICK x \in InSession, a \in Replies :
          /\ CallMove(c, x, v, seen[c], a)
          /\ Fits(j, handled[Of(c)], chain[Of(c)], x, v, seen[c], a)
          /\ a = "rejected" => answer[c] = "rejected"
    BY <1>0, <1>1, <1>2, <2>1, ProceedsMove
  <2>3. /\ maint' = maint /\ poisoned' \in BOOLEAN
        /\ UNCHANGED <<journal, chain, published, handled>>
    BY <1>0, <1>1, <1>2
  <2> QED
    BY <1>0, <2>2, <2>3, LocalStep DEF InSession
<1>3. CASE Throws(c, 0) /\ UNCHANGED journal
  BY <1>0, <1>3, ThrowStep
<1>4. CASE v.kind # "record"
  <2>1. v.kind = "none" /\ j.kind = "none" /\ j = NoEntry
    BY <1>1, <1>4 DEF Current, Entry, EntryOK
  <2>2. EntryMove(j, NewRecord) /\ NewRecord.delivery = j.delivery
    BY <2>1, EntryTypes DEF EntryMove
  <2>3. Borne(NewRecord, handled[Of(c)], chain[Of(c)])
    BY <1>1, <2>1, EntryTypes DEF Borne, EntryOK
  <2>4. CASE /\ Writes(c, NewRecord) /\ Views(c, NewRecord)
             /\ Doubts(c, RecordDoubt(NewRecord)) /\ Proceeds(c, NewRecord)
             /\ UNCHANGED <<poisoned, seen, maint>>
    <3>1. doubt' \in [Calls -> 0 .. 2]
      BY <2>4, DoubtTypes, DoubtMove
    <3>2. Current(NewRecord, NewRecord)
      BY EntryTypes DEF Current
    <3>3. answer[c] # "delivered" /\ answer[c] # "terminal"
      BY <1>1, <2>1, EntryTypes
    <3>4. PICK x \in InSession, a \in Replies :
            /\ CallMove(c, x, NewRecord, seen[c], a)
            /\ Fits(NewRecord, handled[Of(c)], chain[Of(c)], x, NewRecord, seen[c], a)
            /\ a = "rejected" => answer[c] = "rejected"
      BY <1>0, <2>4, <3>1, <3>2, <3>3, EntryTypes, ProceedsMove
    <3>5. maint' = maint /\ poisoned' \in BOOLEAN
      BY <1>1, <2>4
    <3>6. x \notin {"handler", "store"} /\ pc[c] \in InSession
      BY <1>0 DEF InSession
    <3> QED
      BY <1>0, <2>2, <2>3, <2>4, <3>4, <3>5, <3>6, EntryTypes, WriteStep
  <2>5. CASE Throws(c, 1) /\ FailsToWrite(c, NewRecord)
    <3>1. pc[c] \in InSession /\ 1 \in 0 .. 2
      BY <1>0 DEF InSession
    <3>2. NewRecord \in Entry
      BY EntryTypes
    <3> QED
      BY <1>0, <2>2, <2>3, <2>5, <3>1, <3>2, FailedWriteStep
  <2> QED
    BY <1>3, <1>4, <2>1, <2>4, <2>5 DEF Record
<1> QED
  BY <1>2, <1>4 DEF Record

LEMMA PublishOK ==
  ASSUME SettlementInv, NEW c \in Calls, Publish(c)
  PROVE  StepOK
<1> DEFINE p == Of(c)
           j == journal[p]
<1>0. /\ pc[c] = "publish" /\ journal' = journal /\ handled' = handled
      /\ maint' = maint /\ poisoned' \in BOOLEAN
      /\ published' = [published EXCEPT ![p] = TRUE]
      /\ UNCHANGED <<view, seen, doubt, answer>> /\ Goes(c, "sending")
  BY CallNow DEF Publish, At
<1>1. /\ p \in Payments /\ j \in Entry /\ EntryOK(p)
      /\ Fits(j, handled[p], chain[p], "publish", view[c], seen[c], answer[c])
  BY <1>0, CallNow
<1>2. j.kind = "record" /\ j.evidence # "INCLUDED" /\ j.delivery = "NONE"
  BY <1>1 DEF Fits, InSession, Current, EntryOK, Enough
<1>3. /\ journal \in [Payments -> Entry] /\ handled \in [Payments -> Nat]
      /\ chain \in [Payments -> 0 .. 2 + MaxConfs]
      /\ published \in [Payments -> BOOLEAN]
  BY DEF SettlementInv, TypeOK
<1>4. /\ chain' \in [Payments -> 0 .. 2 + MaxConfs]
      /\ \A q \in Payments \ {p} : chain'[q] = chain[q]
      /\ chain'[p] = chain[p] \/ (chain[p] = 0 /\ chain'[p] = 1)
  <2>1. CASE chain' = chain
    BY <1>3, <2>1
  <2>2. CASE chain' = [chain EXCEPT ![p] = Worse(chain[p], 1)]
    <3>1. chain[p] \in 0 .. 2 + MaxConfs
      BY <1>1, <1>3
    <3>2. /\ Worse(chain[p], 1) \in 0 .. 2 + MaxConfs
          /\ Worse(chain[p], 1) = chain[p] \/ (chain[p] = 0 /\ Worse(chain[p], 1) = 1)
      BY <3>1, Constants DEF Worse
    <3> QED
      BY <1>1, <1>3, <2>2, <3>2
  <2> QED
    BY <2>1, <2>2 DEF Publish
<1>5. /\ published' \in [Payments -> BOOLEAN] /\ published'[p] = TRUE
      /\ \A q \in Payments \ {p} : published'[q] = published[q]
  BY <1>0, <1>1, <1>3
<1>6. WorldTypes'
  BY <1>0, <1>3, <1>4, <1>5 DEF WorldTypes
<1>7. PaymentMove(p)
  BY <1>0, <1>2, <1>4, <1>5 DEF PaymentMove, Unmoved
<1>8. EntryOK(p)'
  BY <1>0, <1>1, <1>2 DEF EntryOK
<1>9. Sighted(seen[c], chain'[p])
  <2>1. seen[c] \in Sightings /\ Sighted(seen[c], chain[p])
    BY <1>1, CallNow DEF Fits
  <2>2. chain[p] \in Int /\ chain'[p] \in Int
    BY <1>1, <1>3, <1>4, Constants
  <2> QED
    BY <1>4, <2>1, <2>2 DEF Sighted, Sightings
<1>10. Fits(journal'[p], handled'[p], chain'[p], "sending", view[c], seen[c], answer[c])
  BY <1>0, <1>1, <1>9 DEF Fits, InSession
<1>11. CallMove(c, "sending", view[c], seen[c], answer[c])
  BY <1>0, GoesMove DEF Steps, InQueue, InSession
<1>12. Entitled(c, "sending") /\ pc[c] \in InSession
  BY <1>0 DEF Entitled, InSession
<1>13. journal'[p].delivery = j.delivery /\ handled'[p] = handled[p]
  BY <1>0
<1>14. answer[c] = "rejected" => answer[c] = "rejected"
  OBVIOUS
<1> HIDE DEF p, j
<1> QED
  BY <1>0, <1>6, <1>7, <1>8, <1>10, <1>11, <1>12, <1>13, <1>14, CallStep DEF p, j

LEMMA NoteOK ==
  ASSUME SettlementInv, NEW c \in Calls, Note(c)
  PROVE  StepOK
<1> DEFINE j == journal[Of(c)]
           e == Noted[pc[c]]
           r == Strengthened(j, e, 0)
<1>0. /\ pc[c] \in {"noteUnknown", "noteSeen", "noteSent"} /\ pc[c] \in InSession
      /\ UNCHANGED world
  BY DEF Note, Noted, InSession
<1>1. /\ j \in Entry /\ EntryOK(Of(c)) /\ poisoned \in BOOLEAN
      /\ Current(view[c], j) /\ view[c].kind = "record"
      /\ view[c].evidence # "INCLUDED" /\ Sighted(seen[c], chain[Of(c)])
      /\ answer[c] = "delivered" => j.delivery = "DELIVERED"
      /\ answer[c] = "terminal" => j.kind = "tombstone"
  BY <1>0, CallNow DEF Fits, InSession
<1>2. e \in EvidenceStates \ {"INCLUDED"}
  BY <1>0 DEF Noted, EvidenceStates
<1>3. /\ j.kind = "record" /\ j.evidence # "INCLUDED" /\ j.confs = 0
      /\ j.delivery = "NONE" /\ handled[Of(c)] # 1
  BY <1>1 DEF Current, EntryOK, Enough
<1>4. /\ r \in Entry /\ r.kind = "record" /\ r.delivery = "NONE"
      /\ r.evidence # "INCLUDED" /\ r.confs = 0
      /\ Rank[j.evidence] <= Rank[r.evidence]
  <2>1. /\ r \in Entry /\ r.kind = j.kind /\ r.delivery = j.delivery
        /\ \/ r = j /\ Rank[e] < Rank[j.evidence]
           \/ r.evidence = e /\ r.confs = 0 /\ Rank[j.evidence] <= Rank[e]
    BY <1>1, <1>2, StrengthenedShape
  <2>2. Rank[j.evidence] \in Nat
    BY <1>1, Ranks DEF Entry, EvidenceStates
  <2> QED
    BY <1>2, <1>3, <2>1, <2>2
<1>5. EntryMove(j, r) /\ r.delivery = j.delivery
  BY <1>1, <1>3, <1>4 DEF EntryMove
<1>6. Borne(r, handled[Of(c)], chain[Of(c)])
  BY <1>3, <1>4 DEF Borne
<1>7. \/ /\ Writes(c, r) /\ Views(c, r) /\ Doubts(c, 1)
         /\ IF At(c, "noteUnknown") \/ (At(c, "noteSeen") /\ MinConfs > 1)
            THEN Leaves(c, "recovery")
            ELSE Goes(c, "wait") /\ answer' = answer
         /\ UNCHANGED <<poisoned, seen, maint>>
      \/ Throws(c, 1) /\ FailsToWrite(c, r)
  BY DEF Note
<1>8. 1 \in 0 .. 2
  OBVIOUS
<1>9. Current(r, r)
  BY <1>4 DEF Current
<1> HIDE DEF r, e
<1>10. CASE /\ Writes(c, r) /\ Views(c, r) /\ Doubts(c, 1)
            /\ Leaves(c, "recovery") /\ UNCHANGED <<poisoned, seen, maint>>
  <2>1. doubt' \in [Calls -> 0 .. 2]
    BY <1>8, <1>10, DoubtMove
  <2>2. CallMove(c, "leave", r, seen[c], "recovery")
    BY <1>4, <1>10, <2>1, LeavesMove DEF Replies
  <2>3. Fits(r, handled[Of(c)], chain[Of(c)], "leave", r, seen[c], "recovery")
    BY <1>1 DEF Fits
  <2>4. maint' = maint /\ poisoned' \in BOOLEAN
    BY <1>1, <1>10
  <2> QED
    BY <1>0, <1>4, <1>5, <1>6, <1>10, <2>2, <2>3, <2>4, WriteStep
<1>11. CASE /\ Writes(c, r) /\ Views(c, r) /\ Doubts(c, 1)
            /\ Goes(c, "wait") /\ answer' = answer
            /\ UNCHANGED <<poisoned, seen, maint>>
  <2>1. doubt' \in [Calls -> 0 .. 2]
    BY <1>8, <1>11, DoubtMove
  <2>2. CallMove(c, "wait", r, seen[c], answer[c])
    BY <1>4, <1>11, <2>1, CallNow, Standing
       DEF CallMove, Goes, Views, Steps, InQueue, InSession
  <2>3. Fits(r, handled[Of(c)], chain[Of(c)], "wait", r, seen[c], answer[c])
    BY <1>1, <1>3, <1>4, <1>9 DEF Fits
  <2>4. maint' = maint /\ poisoned' \in BOOLEAN
    BY <1>1, <1>11
  <2> QED
    BY <1>0, <1>4, <1>5, <1>6, <1>11, <2>2, <2>3, <2>4, WriteStep
<1>12. CASE Throws(c, 1) /\ FailsToWrite(c, r)
  BY <1>0, <1>4, <1>5, <1>6, <1>8, <1>12, FailedWriteStep
<1> QED
  BY <1>7, <1>10, <1>11, <1>12

LEMMA MomentumOK ==
  ASSUME SettlementInv, NEW c \in Calls, Momentum(c)
  PROVE  StepOK
<1> DEFINE j == journal[Of(c)]
           n == Confirmations(seen[c])
           r == Strengthened(j, "INCLUDED", n)
<1>0. pc[c] = "momentum" /\ pc[c] \in InSession /\ UNCHANGED world
  BY DEF Momentum, At, InSession
<1>1. /\ j \in Entry /\ EntryOK(Of(c)) /\ poisoned \in BOOLEAN
      /\ Current(view[c], j) /\ view[c].kind = "record" /\ view[c] \in Entry
      /\ Sighted(seen[c], chain[Of(c)]) /\ seen[c] > 2 /\ seen[c] \in Int
      /\ view[c].evidence = "INCLUDED" => n > view[c].confs
      /\ ~ Enough(view[c], MinConfs)
  BY <1>0, CallNow, Constants DEF Fits, InSession, Sightings
<1>2. n \in Nat /\ 2 + n <= chain[Of(c)]
  BY <1>1, CallNow, Constants DEF Confirmations, Sighted
<1>3. /\ j.kind = "record" /\ j.delivery = "NONE" /\ handled[Of(c)] # 1
      /\ j.confs \in Nat /\ j.confs <= n
  BY <1>1, <1>2 DEF Current, EntryOK, Enough, Entry
<1>4. /\ r \in Entry /\ r.kind = "record" /\ r.delivery = "NONE"
      /\ r.evidence = "INCLUDED" /\ r.confs = n
      /\ Rank[j.evidence] <= Rank[r.evidence]
  <2>1. /\ r \in Entry /\ r.kind = j.kind /\ r.delivery = j.delivery
        /\ \/ r = j /\ Rank["INCLUDED"] < Rank[j.evidence]
           \/ /\ r.evidence = "INCLUDED" /\ r.confs = n
              /\ Rank[j.evidence] <= Rank["INCLUDED"]
    <3>1. "INCLUDED" \in EvidenceStates
      BY DEF EvidenceStates
    <3> HIDE DEF n, j
    <3> QED
      BY <1>1, <1>2, <3>1, StrengthenedShape
  <2>2. Rank[j.evidence] \in Nat /\ Rank[j.evidence] <= 3
    BY <1>1, Ranks DEF Entry, EvidenceStates
  <2> QED
    BY <1>3, <2>1, <2>2, Ranks
<1>5. EntryMove(j, r) /\ r.delivery = j.delivery
  BY <1>3, <1>4 DEF EntryMove
<1>6. Borne(r, handled[Of(c)], chain[Of(c)])
  BY <1>2, <1>3, <1>4 DEF Borne
<1>7. \/ /\ Writes(c, r) /\ Views(c, r) /\ Doubts(c, 2)
         /\ Leaves(c, IF Enough(r, MinConfs) THEN "success" ELSE "recovery")
         /\ UNCHANGED <<poisoned, seen, maint>>
      \/ Throws(c, 2) /\ FailsToWrite(c, r)
  BY DEF Momentum
<1>8. 2 \in 0 .. 2
  OBVIOUS
<1> HIDE DEF r
<1>9. CASE /\ Writes(c, r) /\ Views(c, r) /\ Doubts(c, 2)
           /\ Leaves(c, IF Enough(r, MinConfs) THEN "success" ELSE "recovery")
           /\ UNCHANGED <<poisoned, seen, maint>>
  <2>1. PICK a \in {"success", "recovery"} :
          Leaves(c, a) /\ (a = "success" => Enough(r, MinConfs))
    BY <1>9
  <2>2. doubt' \in [Calls -> 0 .. 2]
    BY <1>8, <1>9, DoubtMove
  <2>3. CallMove(c, "leave", r, seen[c], a)
    BY <1>4, <1>9, <2>1, <2>2, LeavesMove DEF Replies
  <2>4. Fits(r, handled[Of(c)], chain[Of(c)], "leave", r, seen[c], a)
    BY <1>1, <2>1 DEF Fits
  <2>5. maint' = maint /\ poisoned' \in BOOLEAN
    BY <1>1, <1>9
  <2> QED
    BY <1>0, <1>4, <1>5, <1>6, <1>9, <2>3, <2>4, <2>5, WriteStep
<1>10. CASE Throws(c, 2) /\ FailsToWrite(c, r)
  BY <1>0, <1>4, <1>5, <1>6, <1>8, <1>10, FailedWriteStep
<1> QED
  BY <1>7, <1>9, <1>10

-----------------------------------------------------------------------------
(* Delivery. *)

\* A delivery is claimed or recorded, or neither, and the call goes to x.
LEMMA DeliveryStep ==
  ASSUME SettlementInv, NEW c \in Calls, NEW r \in Entry,
         pc[c] \in {"claim", "store"}, UNCHANGED <<world, poisoned, maint>>,
         \/ /\ pc[c] = "claim" /\ journal[Of(c)].delivery = "NONE"
            /\ r = Claimed(journal[Of(c)])
         \/ pc[c] = "store" /\ r = Delivered(journal[Of(c)]),
         Writes(c, r),
         NEW x, NEW v, NEW o, NEW a, CallMove(c, x, v, o, a),
         Fits(r, handled[Of(c)], chain[Of(c)], x, v, o, a),
         x \in {"handler", "idle"}, x = "handler" => pc[c] = "claim",
         a = "rejected" => answer[c] = "rejected"
  PROVE  StepOK
<1> DEFINE j == journal[Of(c)]
<1>1. /\ Of(c) \in Payments /\ j \in Entry /\ EntryOK(Of(c))
      /\ pc[c] = "claim" => Enough(j, MinConfs)
      /\ pc[c] = "store" => j.delivery = "PENDING" /\ handled[Of(c)] = 1
      /\ poisoned' \in BOOLEAN /\ maint' = maint
  BY CallNow DEF Fits
<1>2. j.kind = "record" /\ Enough(j, MinConfs)
  BY <1>1 DEF EntryOK, Enough
<1>3. /\ r.kind = j.kind /\ r.evidence = j.evidence /\ r.confs = j.confs
      /\ r.delivery \in {"PENDING", "DELIVERED"}
      /\ pc[c] = "claim" => r.delivery = "PENDING"
  BY <1>1, DeliveryShape
<1>4. EntryMove(j, r)
  BY <1>1, <1>2 DEF EntryMove
<1>5. Borne(r, handled[Of(c)], chain[Of(c)])
  BY <1>1, <1>2, <1>3 DEF Borne, EntryOK, Enough
<1>6. UNCHANGED world
  OBVIOUS
<1>7. /\ WorldTypes' /\ PaymentMove(Of(c)) /\ EntryOK(Of(c))'
      /\ journal'[Of(c)] = r /\ handled'[Of(c)] = handled[Of(c)]
      /\ chain'[Of(c)] = chain[Of(c)]
  BY <1>1, <1>4, <1>5, <1>6, EntryMoved DEF Writes
<1>8. Entitled(c, x)
  BY DEF Entitled, InSession
<1>9. Fits(journal'[Of(c)], handled'[Of(c)], chain'[Of(c)], x, v, o, a)
  BY <1>7
<1> QED
  BY <1>1, <1>3, <1>7, <1>8, <1>9, CallStep

LEMMA ClaimOK ==
  ASSUME SettlementInv, NEW c \in Calls, Claim(c)
  PROVE  StepOK
<1> DEFINE j == journal[Of(c)]
<1>0. /\ pc[c] = "claim" /\ UNCHANGED <<world, poisoned, maint>>
      /\ j \in Entry /\ EntryOK(Of(c)) /\ Sighted(seen[c], chain[Of(c)])
      /\ Fits(j, handled[Of(c)], chain[Of(c)], "claim", view[c], seen[c], answer[c])
  BY CallNow DEF Claim, At, Fits
<1>1. CASE j.delivery = "DELIVERED" /\ Answers(c, "delivered") /\ UNCHANGED journal
  BY <1>0, <1>1, AnswerStep DEF Replies
<1>2. CASE Answers(c, "recovery") /\ UNCHANGED journal
  BY <1>0, <1>2, AnswerStep DEF Replies
<1>3. CASE /\ j.delivery = "NONE" /\ Enough(j, MinConfs) /\ Writes(c, Claimed(j))
  <2>1. /\ Claimed(j) \in Entry /\ Claimed(j).delivery = "PENDING"
        /\ Claimed(j).kind = "record" /\ Claimed(j).evidence = j.evidence
        /\ Claimed(j).confs = j.confs
    BY <1>0, <1>3, DeliveryShape DEF Enough
  <2>2. handled[Of(c)] = 0
    BY <1>0, <1>3 DEF EntryOK
  <2>3. CASE Goes(c, "handler") /\ UNCHANGED <<view, seen, doubt, answer>>
    <3>1. CallMove(c, "handler", view[c], seen[c], answer[c])
      BY <2>3, GoesMove DEF Steps, InDelivery
    <3>2. Fits(Claimed(j), handled[Of(c)], chain[Of(c)], "handler", view[c], seen[c],
               answer[c])
      BY <1>0, <1>3, <2>1, <2>2 DEF Fits, InSession, Enough
    <3> QED
      BY <1>0, <1>3, <2>1, <3>1, <3>2, DeliveryStep
  <2>4. CASE Answers(c, "recovery")
    <3>1. CallMove(c, "idle", NoEntry, 0, "recovery")
      BY <2>4, AnswersMove DEF Replies
    <3>2. Fits(Claimed(j), handled[Of(c)], chain[Of(c)], "idle", NoEntry, 0, "recovery")
      BY DEF Fits, Sighted, InSession
    <3> QED
      BY <1>0, <1>3, <2>1, <3>1, <3>2, DeliveryStep
  <2>5. \/ Goes(c, "handler") /\ UNCHANGED <<view, seen, doubt, answer>>
        \/ Answers(c, "recovery") \/ j.delivery = "DELIVERED"
        \/ ~ (Enough(j, MinConfs) /\ Claimable(j))
    BY DEF Claim
  <2> QED
    BY <1>3, <2>3, <2>4, <2>5 DEF Claimable
<1> QED
  BY <1>1, <1>2, <1>3 DEF Claim, Claimable, FailsToWrite

LEMMA StoreOK ==
  ASSUME SettlementInv, NEW c \in Calls, Store(c)
  PROVE  StepOK
<1> DEFINE j == journal[Of(c)]
           r == Delivered(j)
<1>0. pc[c] = "store" /\ UNCHANGED <<world, poisoned, maint>> /\ j \in Entry
  BY CallNow DEF Store, At
<1>1. r \in Entry /\ r.delivery = "DELIVERED"
  BY <1>0, DeliveryShape
<1>2. CASE Answers(c, "recovery") /\ UNCHANGED journal
  BY <1>0, <1>2, AnswerStep DEF Replies
<1>3. ASSUME NEW a \in {"delivered", "recovery"}, Answers(c, a), Writes(c, r)
      PROVE  StepOK
  <2>1. CallMove(c, "idle", NoEntry, 0, a)
    BY <1>3, AnswersMove DEF Replies
  <2>2. Fits(r, handled[Of(c)], chain[Of(c)], "idle", NoEntry, 0, a)
    BY <1>1 DEF Fits, Sighted, InSession
  <2> QED
    BY <1>0, <1>1, <1>3, <2>1, <2>2, DeliveryStep
<1> QED
  BY <1>2, <1>3 DEF Store, FailsToWrite

LEMMA HandleOK ==
  ASSUME SettlementInv, NEW c \in Calls, Handle(c)
  PROVE  StepOK
<1> DEFINE p == Of(c)
           j == journal[p]
<1>0. /\ pc[c] = "handler" /\ journal' = journal /\ chain' = chain
      /\ published' = published /\ maint' = maint /\ poisoned' \in BOOLEAN
      /\ handled' = [handled EXCEPT ![p] = handled[p] + 1]
  BY CallNow DEF Handle, At
<1>1. /\ p \in Payments /\ j \in Entry /\ EntryOK(p)
      /\ Fits(j, handled[p], chain[p], "handler", view[c], seen[c], answer[c])
      /\ j.delivery = "PENDING" /\ handled[p] = 0
  BY <1>0, CallNow DEF Fits
<1>2. handled \in [Payments -> Nat]
  BY DEF SettlementInv, TypeOK
<1>3. /\ handled' \in [Payments -> Nat] /\ handled'[p] = 1
      /\ \A q \in Payments \ {p} : handled'[q] = handled[q]
  BY <1>0, <1>1, <1>2
<1>4. WorldTypes'
  BY <1>0, <1>3 DEF SettlementInv, TypeOK, WorldTypes
<1>5. PaymentMove(p)
  BY <1>0, <1>1, <1>3 DEF PaymentMove, Unmoved
<1>6. EntryOK(p)'
  BY <1>0, <1>1, <1>3 DEF EntryOK
<1>7. /\ journal'[p].kind = j.kind /\ journal'[p].evidence = j.evidence
      /\ journal'[p].confs = j.confs /\ pc[c] \in {"handler", "store"}
  BY <1>0
<1>8. CASE Goes(c, "store") /\ UNCHANGED <<view, seen, doubt, answer>>
  <2>1. CallMove(c, "store", view[c], seen[c], answer[c])
    BY <1>8, GoesMove DEF Steps, InDelivery
  <2>2. Fits(journal'[p], handled'[p], chain'[p], "store", view[c], seen[c], answer[c])
    BY <1>0, <1>1, <1>3 DEF Fits, InSession
  <2>3. Entitled(c, "store")
    BY <1>0 DEF Entitled, InSession
  <2>4. answer[c] = "rejected" => answer[c] = "rejected"
    OBVIOUS
  <2> HIDE DEF j, p
  <2> QED
    BY <1>0, <1>4, <1>5, <1>6, <1>7, <2>1, <2>2, <2>3, <2>4, CallStep DEF j, p
<1>9. CASE Answers(c, "recovery")
  <2>1. CallMove(c, "idle", NoEntry, 0, "recovery")
    BY <1>9, AnswersMove DEF Replies
  <2>2. Fits(journal'[p], handled'[p], chain'[p], "idle", NoEntry, 0, "recovery")
    BY DEF Fits, Sighted, InSession
  <2>3. Entitled(c, "idle") /\ "recovery" # "rejected"
    BY DEF Entitled, InSession
  <2> HIDE DEF j, p
  <2> QED
    BY <1>0, <1>4, <1>5, <1>6, <1>7, <2>1, <2>2, <2>3, CallStep DEF j, p
<1> QED
  BY <1>8, <1>9 DEF Handle

-----------------------------------------------------------------------------
(* Maintenance. *)

\* The candidate of s becomes m; the calls and the payments stay as they are.
LEMMA CandidateStep ==
  ASSUME SettlementInv, NEW s \in Servers, NEW m,
         m \in [step : {"idle", "queued", "session", "look", "write"},
                p : Payments \cup {"none"}, entry : Entry, seen : Sightings],
         maint' = [maint EXCEPT ![s] = m],
         UNCHANGED <<journal, world, calls>>, poisoned' \in BOOLEAN,
         m.step # "idle" =>
           /\ m.p \in Payments
           /\ RetentionEligible(m.entry) \/ m.entry.kind = "tombstone"
           /\ Sighted(m.seen, chain[m.p]),
         m.step \in Looking => maint[s].step \in Looking \/ SessionFree
  PROVE  StepOK
<1>1. /\ maint'[s] = m
      /\ \A t \in Servers \ {s} : maint'[t] = maint[t]
  BY DEF SettlementInv, TypeOK
<1>2. TypeOK'
  BY DEF SettlementInv, TypeOK, world, calls, Sightings
<1>3. \A p \in Payments : EntryOK(p)'
  BY DEF SettlementInv, EntryOK, world
<1>4. \A c \in Calls : CallOK(c)'
  BY DEF SettlementInv, CallOK, world, calls
<1>5. \A t \in Servers : MaintOK(t)'
  BY <1>1 DEF SettlementInv, MaintOK, world
<1>6. Exclusive'
  <2>1. Exclusive
    BY DEF SettlementInv
  <2>2. m.step \in Looking =>
          /\ \A t \in Servers \ {s} : maint[t].step \notin Looking
          /\ \A c \in Calls : pc[c] \notin InSession
    BY <2>1 DEF Exclusive, SessionFree, Looking
  <2>3. pc' = pc
    BY DEF calls
  <2> QED
    BY <1>1, <2>1, <2>2, <2>3 DEF Exclusive
<1>7. \A q \in Payments : Unmoved(q)
  BY DEF Unmoved, world
<1>8. answer' = answer
  BY DEF calls
<1> QED
  BY <1>2, <1>3, <1>4, <1>5, <1>6, <1>7, <1>8 DEF StepOK, SettlementInv

LEMMA IdleCandidate ==
  /\ Idle \in [step : {"idle", "queued", "session", "look", "write"},
               p : Payments \cup {"none"}, entry : Entry, seen : Sightings]
  /\ Idle.step = "idle"
BY EntryTypes DEF Idle, Sightings

LEMMA CandidateNow ==
  ASSUME SettlementInv, NEW s \in Servers
  PROVE  /\ maint[s] \in [step : {"idle", "queued", "session", "look", "write"},
                          p : Payments \cup {"none"}, entry : Entry,
                          seen : Sightings]
         /\ MaintOK(s) /\ poisoned \in BOOLEAN
BY DEF SettlementInv, TypeOK, Sightings

LEMMA ListOK ==
  ASSUME SettlementInv, NEW s \in Servers, NEW p \in Payments, List(s, p)
  PROVE  StepOK
<1> DEFINE m == [step |-> "queued", p |-> p, entry |-> journal[p], seen |-> 0]
<1>1. m \in [step : {"idle", "queued", "session", "look", "write"},
             p : Payments \cup {"none"}, entry : Entry, seen : Sightings]
  BY DEF SettlementInv, TypeOK, Sightings
<1>2. /\ m.p \in Payments
      /\ RetentionEligible(m.entry) \/ m.entry.kind = "tombstone"
      /\ Sighted(m.seen, chain[m.p]) /\ m.step \notin Looking
  BY DEF List, Sighted, Looking
<1>3. /\ maint' = [maint EXCEPT ![s] = m] /\ poisoned' \in BOOLEAN
      /\ UNCHANGED <<journal, world, calls>>
  BY CandidateNow DEF List
<1> HIDE DEF m
<1> QED
  BY <1>1, <1>2, <1>3, CandidateStep

\* The maintenance of s goes on with the candidate it has.
LEMMA MaintainsStep ==
  ASSUME SettlementInv, NEW s \in Servers, NEW x \in {"session", "look"},
         Maintains(s, x), maint[s].step \in {"queued", "session"},
         UNCHANGED <<journal, world, poisoned, calls>>,
         x = "look" => SessionFree
  PROVE  StepOK
<1> DEFINE m == [maint[s] EXCEPT !.step = x]
<1>1. /\ m \in [step : {"idle", "queued", "session", "look", "write"},
                p : Payments \cup {"none"}, entry : Entry, seen : Sightings]
      /\ m.p = maint[s].p /\ m.entry = maint[s].entry /\ m.seen = maint[s].seen
      /\ m.step = x
  BY CandidateNow
<1>2. /\ m.p \in Payments
      /\ RetentionEligible(m.entry) \/ m.entry.kind = "tombstone"
      /\ Sighted(m.seen, chain[m.p])
  BY <1>1, CandidateNow DEF MaintOK
<1>3. m.step \in Looking => SessionFree
  BY <1>1 DEF Looking
<1>4. maint' = [maint EXCEPT ![s] = m] /\ poisoned' \in BOOLEAN
  BY CandidateNow DEF Maintains
<1> HIDE DEF m
<1> QED
  BY <1>1, <1>2, <1>3, <1>4, CandidateStep

\* It is given up.
LEMMA GivesUpStep ==
  ASSUME SettlementInv, NEW s \in Servers, maint' = [maint EXCEPT ![s] = Idle],
         UNCHANGED <<journal, world, calls>>, poisoned' \in BOOLEAN
  PROVE  StepOK
BY IdleCandidate, CandidateStep DEF Looking

LEMMA MaintenanceQueuedOK ==
  ASSUME SettlementInv, NEW s \in Servers, MaintenanceQueued(s)
  PROVE  StepOK
BY MaintainsStep DEF MaintenanceQueued

LEMMA MaintenanceEntersOK ==
  ASSUME SettlementInv, NEW s \in Servers, MaintenanceEnters(s)
  PROVE  StepOK
<1>1. CASE SessionFree /\ Maintains(s, "look")
  BY <1>1, MaintainsStep DEF MaintenanceEnters
<1>2. CASE maint' = [maint EXCEPT ![s] = Idle]
  BY <1>2, CandidateNow, GivesUpStep DEF MaintenanceEnters
<1> QED
  BY <1>1, <1>2 DEF MaintenanceEnters

LEMMA MaintenanceLooksOK ==
  ASSUME SettlementInv, NEW s \in Servers, MaintenanceLooks(s)
  PROVE  StepOK
<1> DEFINE p == maint[s].p
           now == journal[p]
<1>0. /\ maint[s].step = "look" /\ p \in Payments /\ poisoned \in BOOLEAN
      /\ RetentionEligible(maint[s].entry) \/ maint[s].entry.kind = "tombstone"
  BY CandidateNow DEF MaintenanceLooks, MaintOK
<1>1. ASSUME SameCandidate(maint[s].entry, now), poisoned' = poisoned,
             NEW o \in Sees(p),
             maint' = [maint EXCEPT ![s] = [step |-> "write", p |-> p,
                                            entry |-> now, seen |-> o]]
      PROVE  StepOK
  <2> DEFINE m == [step |-> "write", p |-> p, entry |-> now, seen |-> o]
  <2>1. now \in Entry
    BY <1>0 DEF SettlementInv, TypeOK
  <2>2. o \in Sightings /\ Sighted(o, chain[p])
    BY <1>0, SeesSighted
  <2>3. m \in [step : {"idle", "queued", "session", "look", "write"},
               p : Payments \cup {"none"}, entry : Entry, seen : Sightings]
    BY <1>0, <2>1, <2>2
  <2>4. RetentionEligible(now) \/ now.kind = "tombstone"
    BY <1>0, <1>1 DEF SameCandidate
  <2>5. /\ m.p \in Payments
        /\ RetentionEligible(m.entry) \/ m.entry.kind = "tombstone"
        /\ Sighted(m.seen, chain[m.p]) /\ maint[s].step \in Looking
    BY <1>0, <2>2, <2>4 DEF Looking
  <2>6. /\ maint' = [maint EXCEPT ![s] = m] /\ poisoned' \in BOOLEAN
        /\ UNCHANGED <<journal, world, calls>>
    BY <1>0, <1>1 DEF MaintenanceLooks
  <2> HIDE DEF m
  <2> QED
    BY <2>3, <2>5, <2>6, CandidateStep
<1>2. CASE maint' = [maint EXCEPT ![s] = Idle] /\ poisoned' \in {poisoned, TRUE}
  BY <1>0, <1>2, GivesUpStep DEF MaintenanceLooks
<1> QED
  BY <1>1, <1>2 DEF MaintenanceLooks

\* What a reconciled entry is.
LEMMA ReconciledMoves ==
  ASSUME SettlementInv, NEW p \in Payments, NEW o \in Sightings,
         Sighted(o, chain[p]),
         RetentionEligible(journal[p]) \/ journal[p].kind = "tombstone"
  PROVE  LET e == journal[p]
             r == Reconciled(e, o)
         IN /\ r \in Entry /\ EntryMove(e, r) /\ r.delivery = e.delivery
            /\ Borne(r, handled[p], chain[p])
<1> DEFINE e == journal[p]
           r == Reconciled(e, o)
<1>1. /\ e \in Entry /\ e.delivery = "NONE" /\ handled[p] # 1 /\ o \in Int
      /\ chain[p] \in Int /\ e.confs \in Nat
      /\ e.kind = "record" => e.confs = 0 /\ e.evidence # "INCLUDED"
  BY Constants
     DEF SettlementInv, TypeOK, EntryOK, Entry, Enough, RetentionEligible, PriorStates,
         Sightings
<1>2. o > 2 => Confirmations(o) \in Nat /\ 2 + Confirmations(o) <= chain[p]
  BY <1>1 DEF Confirmations, Sighted
<1>3. CASE e.kind = "tombstone" /\ ~ (o > 2 /\ e.confs = 0)
  BY <1>1, <1>3 DEF Reconciled, WithLateInclusion, EntryMove, Borne
<1>4. CASE e.kind = "tombstone" /\ o > 2 /\ e.confs = 0
  <2>1. r = [e EXCEPT !.confs = Confirmations(o)]
    BY <1>4 DEF Reconciled, WithLateInclusion
  <2>2. r \in Entry /\ r.kind = "tombstone" /\ r.delivery = e.delivery
    BY <1>1, <1>2, <1>4, <2>1 DEF Entry
  <2>3. EntryMove(e, r)
    BY <1>2, <1>4, <2>1 DEF EntryMove
  <2> QED
    BY <1>1, <2>2, <2>3 DEF Borne
<1>5. ASSUME e.kind = "record", NEW ev \in {"INCLUDED", "ACKNOWLEDGED"}, NEW n \in Nat,
             r = Strengthened(e, ev, n),
             IF ev = "INCLUDED" THEN 2 + n <= chain[p] ELSE n = 0
      PROVE  /\ r \in Entry /\ EntryMove(e, r) /\ r.delivery = e.delivery
             /\ Borne(r, handled[p], chain[p])
  <2>1. ev \in EvidenceStates
    BY DEF EvidenceStates
  <2> HIDE DEF e, r
  <2>2. /\ r \in Entry /\ r.kind = e.kind /\ r.delivery = e.delivery
        /\ \/ r = e /\ Rank[ev] < Rank[e.evidence]
           \/ r.evidence = ev /\ r.confs = n /\ Rank[e.evidence] <= Rank[ev]
    BY <1>1, <1>5, <2>1, StrengthenedShape
  <2>3. EntryMove(e, r)
    BY <1>1, <1>5, <2>2 DEF EntryMove
  <2>4. Borne(r, handled[p], chain[p])
    BY <1>1, <1>5, <2>2 DEF Borne
  <2> QED
    BY <2>2, <2>3, <2>4
<1>6. CASE e.kind = "record" /\ o > 2
  BY <1>2, <1>5, <1>6 DEF Reconciled
<1>7. CASE e.kind = "record" /\ o = 2
  BY <1>5, <1>7 DEF Reconciled
<1>8. CASE e.kind = "record" /\ ~ (o > 2) /\ o # 2
  <2>1. r = TombstoneOf(e) /\ RetentionEligible(e)
    BY <1>8 DEF Reconciled
  <2>2. r \in Entry /\ r.kind = "tombstone" /\ r.delivery = e.delivery
    BY <1>1, <2>1, DeliveryShape
  <2> QED
    BY <1>1, <2>1, <2>2 DEF EntryMove, Borne
<1>9. e.kind \in {"record", "tombstone"}
  BY DEF RetentionEligible
<1> QED
  BY <1>3, <1>4, <1>6, <1>7, <1>8, <1>9

LEMMA MaintenanceWritesOK ==
  ASSUME SettlementInv, NEW s \in Servers, MaintenanceWrites(s)
  PROVE  StepOK
<1> DEFINE m == maint[s]
           r == Reconciled(m.entry, m.seen)
<1>p. PICK p \in Payments : p = m.p
  BY CandidateNow DEF MaintenanceWrites, MaintOK
<1>0. /\ m.step = "write" /\ p \in Payments /\ poisoned' \in BOOLEAN
      /\ RetentionEligible(m.entry) \/ m.entry.kind = "tombstone"
      /\ m.seen \in Sightings /\ Sighted(m.seen, chain[p])
      /\ maint' = [maint EXCEPT ![s] = Idle] /\ UNCHANGED <<world, calls>>
  BY <1>p, CandidateNow DEF MaintenanceWrites, MaintOK
<1>1. CASE journal' = journal
  BY <1>0, <1>1, GivesUpStep
<1>2. CASE journal[p] = m.entry /\ journal' = [journal EXCEPT ![p] = r]
  <2>1. /\ r \in Entry /\ EntryMove(journal[p], r)
        /\ r.delivery = journal[p].delivery /\ Borne(r, handled[p], chain[p])
    BY <1>0, <1>2, ReconciledMoves
  <2> HIDE DEF r
  <2>2. /\ WorldTypes' /\ PaymentMove(p) /\ EntryOK(p)'
        /\ journal'[p] = r /\ handled'[p] = handled[p] /\ chain'[p] = chain[p]
    BY <1>0, <1>2, <2>1, EntryMoved
  <2>3. maint'[s] = Idle /\ \A t \in Servers \ {s} : maint'[t] = maint[t]
    BY <1>0 DEF SettlementInv, TypeOK
  <2>4. TypeOK'
    BY <1>0, <2>2, IdleCandidate
       DEF SettlementInv, TypeOK, WorldTypes, calls, Sightings
  <2>5. \A q \in Payments : EntryOK(q)'
    BY <1>0, <2>2, EntriesKept
  <2>6. Exclusive /\ \A c \in Calls : pc[c] \notin InSession
    BY <1>0 DEF SettlementInv, Exclusive, Looking
  <2>7. \A c \in Calls : CallOK(c)'
    <3> SUFFICES ASSUME NEW c \in Calls PROVE CallOK(c)'
      OBVIOUS
    <3>1. /\ pc'[c] = pc[c] /\ view'[c] = view[c] /\ seen'[c] = seen[c]
          /\ answer'[c] = answer[c]
      BY <1>0 DEF calls
    <3>2. Undisturbed(journal[p], journal'[p], handled[p], handled'[p], pc[c])
      BY <2>1, <2>2, <2>6 DEF Undisturbed
    <3> QED
      BY <1>0, <2>2, <3>1, <3>2, CallKept
  <2>8. \A t \in Servers : MaintOK(t)'
    <3> SUFFICES ASSUME NEW t \in Servers PROVE MaintOK(t)'
      OBVIOUS
    <3>1. CASE t = s
      BY <2>3, <3>1, IdleCandidate DEF MaintOK
    <3>2. CASE t # s
      BY <1>0, <2>2, <2>3, <3>2, CandidateKept
    <3> QED
      BY <3>1, <3>2
  <2>9. Exclusive'
    <3>1. pc' = pc
      BY <1>0 DEF calls
    <3> QED
      BY <2>3, <2>6, <3>1, IdleCandidate DEF Exclusive, Looking
  <2>10. answer' = answer
    BY <1>0 DEF calls
  <2> QED
    BY <1>0, <2>2, <2>4, <2>5, <2>7, <2>8, <2>9, <2>10 DEF StepOK, SettlementInv
<1> QED
  BY <1>p, <1>1, <1>2 DEF MaintenanceWrites

-----------------------------------------------------------------------------
(* The world. *)

LEMMA WorldOK ==
  ASSUME SettlementInv, NEW p \in Payments,
         Arrives(p) \/ IsLost(p) \/ PublishedElsewhere(p) \/ Confirmed(p)
  PROVE  StepOK
<1>1. PICK k \in 0 .. 2 + MaxConfs :
        /\ chain' = [chain EXCEPT ![p] = k]
        /\ chain[p] >= 2 => k >= chain[p]
        /\ journal' = journal /\ published' = published /\ handled' = handled
        /\ process' = process
  <2>1. chain[p] \in 0 .. 2 + MaxConfs
    BY DEF SettlementInv, TypeOK
  <2>2. chain[p] \in 2 .. 1 + MaxConfs =>
          chain[p] + 1 \in 0 .. 2 + MaxConfs /\ chain[p] + 1 >= chain[p]
    BY Constants
  <2> QED
    BY <2>1, <2>2, Constants
       DEF Arrives, IsLost, PublishedElsewhere, Confirmed, Stage
<1>2. /\ chain' \in [Payments -> 0 .. 2 + MaxConfs] /\ chain'[p] = k
      /\ \A q \in Payments \ {p} : chain'[q] = chain[q]
  BY <1>1 DEF SettlementInv, TypeOK
<1>3. UNCHANGED <<pc, view, seen, doubt, answer, maint, poisoned>>
  BY <1>1 DEF process
<1>4. TypeOK' /\ WorldTypes'
  BY <1>1, <1>2, <1>3 DEF SettlementInv, TypeOK, WorldTypes
<1>5. PaymentMove(p)
  BY <1>1, <1>2 DEF PaymentMove, Unmoved
<1>6. EntryOK(p)'
  <2>1. EntryOK(p) /\ journal[p].confs \in Nat /\ chain[p] \in Int /\ k \in Int
    BY Constants DEF SettlementInv, TypeOK, Entry
  <2> QED
    BY <1>1, <1>2, <2>1 DEF EntryOK
<1>7. \A c \in Calls : CallOK(c)'
  <2> SUFFICES ASSUME NEW c \in Calls PROVE CallOK(c)'
    OBVIOUS
  <2>1. Undisturbed(journal[p], journal'[p], handled[p], handled'[p], pc[c])
    BY <1>1 DEF Undisturbed
  <2> QED
    BY <1>3, <1>4, <1>5, <2>1, CallKept
<1>8. \A s \in Servers : MaintOK(s)'
  BY <1>3, <1>4, <1>5, CandidateKept
<1>9. Exclusive'
  BY <1>3 DEF SettlementInv, Exclusive
<1> QED
  BY <1>3, <1>4, <1>5, <1>6, <1>7, <1>8, <1>9, EntriesKept DEF StepOK, SettlementInv

LEMMA CrashOK ==
  ASSUME SettlementInv, Crash
  PROVE  StepOK
<1>1. /\ poisoned' = FALSE /\ UNCHANGED <<journal, chain, published, handled>>
      /\ pc' = [c \in Calls |-> "idle"] /\ view' = [c \in Calls |-> NoEntry]
      /\ seen' = [c \in Calls |-> 0] /\ doubt' = [c \in Calls |-> 0]
      /\ answer' = [c \in Calls |-> IF At(c, "idle") THEN answer[c] ELSE "none"]
      /\ maint' = [s \in Servers |-> Idle]
  BY DEF Crash, world
<1>2. TypeOK'
  <2>1. answer' \in [Calls -> Replies]
    BY <1>1 DEF SettlementInv, TypeOK, Replies
  <2>2. /\ pc' \in [Calls -> Steps] /\ view' \in [Calls -> Entry]
        /\ seen' \in [Calls -> Sightings] /\ doubt' \in [Calls -> 0 .. 2]
    BY <1>1, EntryTypes DEF Steps, Sightings
  <2>3. maint' \in [Servers -> [step : {"idle", "queued", "session", "look", "write"},
                                p : Payments \cup {"none"}, entry : Entry,
                                seen : Sightings]]
    BY <1>1, IdleCandidate
  <2> QED
    BY <1>1, <2>1, <2>2, <2>3
       DEF SettlementInv, TypeOK, Replies, Sightings, Steps
<1>3. \A p \in Payments : EntryOK(p)'
  BY <1>1 DEF SettlementInv, EntryOK
<1>4. ASSUME NEW c \in Calls
      PROVE  CallOK(c)' /\ (answer'[c] = "rejected" => answer[c] = "rejected")
  <2>1. pc'[c] = "idle" /\ view'[c] = NoEntry /\ seen'[c] = 0
        /\ answer'[c] \in {answer[c], "none"}
    BY <1>1
  <2>2. Fits(journal[Of(c)], handled[Of(c)], chain[Of(c)], "idle", NoEntry, 0,
             answer'[c])
    BY <2>1, CallNow DEF Fits, Sighted, InSession
  <2>3. Fits(journal'[Of(c)], handled'[Of(c)], chain'[Of(c)], pc'[c], view'[c],
             seen'[c], answer'[c])
    BY <1>1, <2>1, <2>2
  <2> QED
    BY <2>1, <2>3 DEF CallOK
<1>5. \A s \in Servers : MaintOK(s)'
  BY <1>1, IdleCandidate DEF MaintOK
<1>6. Exclusive'
  BY <1>1, IdleCandidate DEF Exclusive, InSession, Looking
<1>7. \A q \in Payments : Unmoved(q)
  BY <1>1 DEF Unmoved
<1> QED
  BY <1>2, <1>3, <1>4, <1>5, <1>6, <1>7 DEF StepOK, SettlementInv

-----------------------------------------------------------------------------
(* The invariant. *)

LEMMA InitOK == Init => SettlementInv
<1> SUFFICES ASSUME Init PROVE SettlementInv
  OBVIOUS
<1>1. TypeOK
  <2>1. /\ journal \in [Payments -> Entry] /\ chain \in [Payments -> 0 .. 2 + MaxConfs]
        /\ published \in [Payments -> BOOLEAN] /\ handled \in [Payments -> Nat]
        /\ poisoned \in BOOLEAN
    <3>1. 0 \in 0 .. 2 + MaxConfs /\ NoEntry \in Entry
      BY EntryTypes, Constants
    <3>2. /\ journal = [p \in Payments |-> NoEntry] /\ chain = [p \in Payments |-> 0]
          /\ handled = [p \in Payments |-> 0]
      BY DEF Init
    <3>3. published \in [Payments -> BOOLEAN] /\ poisoned \in BOOLEAN
      BY DEF Init
    <3> QED
      BY <3>1, <3>2, <3>3
  <2>2. /\ pc \in [Calls -> Steps] /\ view \in [Calls -> Entry]
        /\ seen \in [Calls -> Sightings] /\ doubt \in [Calls -> 0 .. 2]
        /\ answer \in [Calls -> Replies]
    BY EntryTypes DEF Init, Steps, Sightings, Replies
  <2>3. maint \in [Servers -> [step : {"idle", "queued", "session", "look", "write"},
                               p : Payments \cup {"none"}, entry : Entry,
                               seen : Sightings]]
    BY IdleCandidate DEF Init
  <2> QED
    BY <2>1, <2>2, <2>3 DEF TypeOK, Replies, Sightings, Steps
<1>2. \A p \in Payments : EntryOK(p)
  BY EntryTypes DEF Init, EntryOK
<1>3. \A c \in Calls : CallOK(c)
  <2> SUFFICES ASSUME NEW c \in Calls PROVE CallOK(c)
    OBVIOUS
  <2>1. pc[c] = "idle" /\ view[c] = NoEntry /\ seen[c] = 0 /\ answer[c] = "none"
    BY DEF Init
  <2> QED
    BY <2>1 DEF CallOK, Fits, Sighted, InSession
<1>4. \A s \in Servers : MaintOK(s)
  BY IdleCandidate DEF Init, MaintOK
<1>5. Exclusive
  BY IdleCandidate DEF Init, Exclusive, InSession, Looking
<1> QED
  BY <1>1, <1>2, <1>3, <1>4, <1>5 DEF SettlementInv

LEMMA StutterOK ==
  ASSUME SettlementInv, UNCHANGED vars
  PROVE  StepOK
<1>1. UNCHANGED <<journal, chain, published, handled, poisoned, pc, view, seen,
                  doubt, answer, maint>>
  BY DEF vars, process
<1>2. SettlementInv'
  BY <1>1 DEF SettlementInv, TypeOK, EntryOK, CallOK, MaintOK, Exclusive
<1>3. \A q \in Payments : Unmoved(q)
  BY <1>1 DEF Unmoved
<1> QED
  BY <1>1, <1>2, <1>3 DEF StepOK

LEMMA WorksOK ==
  ASSUME SettlementInv, NEW c \in Calls, Works(c)
  PROVE  StepOK
BY ReadJournalOK, RereadOK, LookupOK, LookupFailsOK, BalanceOK, NodeFailsOK, DecideOK,
   FrontierOK, RecordOK, PublishOK, PublishReturnsOK, PublishTimesOutOK, NoteOK,
   WaitEndsOK, WaitTimesOutOK, MomentumOK, LeaveSessionOK, LeavingFailsOK, FailOK,
   ClaimOK, StoreOK
   DEF Works

LEMMA NextOK ==
  ASSUME SettlementInv, [Next]_vars
  PROVE  StepOK
<1>1. ASSUME NEW c \in Calls,
             \/ Submit(c) \/ EnterQueue(c) \/ EnterSession(c) \/ SessionRefused(c)
             \/ Works(c) \/ Handle(c)
      PROVE  StepOK
  BY <1>1, SubmitOK, EnterQueueOK, EnterSessionOK, SessionRefusedOK, WorksOK, HandleOK
<1>2. ASSUME NEW s \in Maintainers,
             \/ \E p \in Payments : List(s, p)
             \/ MaintenanceQueued(s) \/ Maintenance(s)
      PROVE  StepOK
  <2>1. s \in Servers
    BY Constants
  <2> QED
    BY <1>2, <2>1, ListOK, MaintenanceQueuedOK, MaintenanceEntersOK,
       MaintenanceLooksOK, MaintenanceWritesOK DEF Maintenance
<1>3. CASE Environment
  BY <1>3, WorldOK, CrashOK DEF Environment
<1>4. CASE UNCHANGED vars
  BY <1>4, StutterOK
<1> QED
  BY <1>1, <1>2, <1>3, <1>4 DEF Next

(***************************************************************************)
(* What the journal, the chain and the handler say of a payment agrees     *)
(* with what its calls believe, through every crash and restart.           *)
(***************************************************************************)
THEOREM SettlementInvHolds == Spec => []SettlementInv
<1>1. Init => SettlementInv
  BY InitOK
<1>2. SettlementInv /\ [Next]_vars => SettlementInv'
  BY NextOK DEF StepOK
<1> QED
  BY <1>1, <1>2, PTL DEF Spec

(***************************************************************************)
(* Every variable of the settlement has its type.                          *)
(***************************************************************************)
THEOREM TypeCorrect == Spec => []TypeOK
<1>1. SettlementInv => TypeOK
  BY DEF SettlementInv
<1> QED
  BY <1>1, SettlementInvHolds, PTL

(***************************************************************************)
(* A transaction this process may have published is in the journal, so     *)
(* that a restarted process finds it.                                      *)
(***************************************************************************)
THEOREM PublishedIsRecordedHolds == Spec => []PublishedIsRecorded
<1>1. SettlementInv => PublishedIsRecorded
  BY DEF SettlementInv, EntryOK, PublishedIsRecorded
<1> QED
  BY <1>1, SettlementInvHolds, PTL

(***************************************************************************)
(* Maintenance gives up on no payment that is being published, waited for  *)
(* or delivered, and the evidence a session read is the evidence on record *)
(* until it ends.                                                          *)
(***************************************************************************)
THEOREM NoPublicationCrossesTombstoneHolds == Spec => []NoPublicationCrossesTombstone
<1>1. ASSUME SettlementInv, NEW c \in Calls
      PROVE  /\ pc[c] \in {"publish", "sending", "noteUnknown", "noteSeen", "noteSent",
                           "wait", "momentum"} \cup InDelivery =>
                  journal[Of(c)].kind = "record"
             /\ pc[c] \in InSession \ {"reread", "leave"} =>
                  view[c] = [journal[Of(c)] EXCEPT !.delivery = view[c].delivery]
  <2> DEFINE j == journal[Of(c)]
             v == view[c]
  <2>1. /\ j \in Entry /\ v \in Entry /\ EntryOK(Of(c))
        /\ Fits(j, handled[Of(c)], chain[Of(c)], pc[c], v, seen[c], answer[c])
    BY <1>1, CallNow
  <2>2. CASE pc[c] \in InSession \ {"reread", "leave"}
    <3>1. Current(v, j)
      BY <2>1, <2>2 DEF Fits
    <3>2. v = [j EXCEPT !.delivery = v.delivery]
      BY <2>1, <3>1 DEF Current, Entry
    <3> QED
      BY <2>1, <2>2, <3>1, <3>2 DEF Fits, Current, InDelivery, InSession
  <2>3. CASE pc[c] \in InDelivery
    BY <2>1, <2>3 DEF Fits, InDelivery, InSession, EntryOK, Enough
  <2> QED
    BY <2>2, <2>3 DEF InSession
<1>2. SettlementInv => NoPublicationCrossesTombstone
  BY <1>1 DEF NoPublicationCrossesTombstone
<1> QED
  BY <1>2, SettlementInvHolds, PTL

(***************************************************************************)
(* An answer still holds after it was given: a delivered response was      *)
(* handed over and is kept, and a payment reported as terminally           *)
(* reconciled stays one whose resource was never handed over.              *)
(***************************************************************************)
THEOREM AnswersHonestHolds == Spec => []AnswersHonest
<1>1. ASSUME SettlementInv, NEW c \in Calls
      PROVE  /\ answer[c] = "delivered" => /\ journal[Of(c)].delivery = "DELIVERED"
                                          /\ handled[Of(c)] > 0
             /\ answer[c] = "terminal" => /\ journal[Of(c)].kind = "tombstone"
                                         /\ handled[Of(c)] = 0
  <2>1. EntryOK(Of(c)) /\ handled[Of(c)] \in Nat
        /\ Fits(journal[Of(c)], handled[Of(c)], chain[Of(c)], pc[c], view[c], seen[c],
                answer[c])
    BY <1>1, CallNow
  <2> QED
    BY <2>1 DEF Fits, EntryOK, Enough
<1>2. SettlementInv => AnswersHonest
  BY <1>1 DEF AnswersHonest, SettlementInv
<1> QED
  BY <1>2, SettlementInvHolds, PTL

(***************************************************************************)
(* A definite rejection is only given for a payment that no server of the  *)
(* process has published or delivered.                                     *)
(***************************************************************************)
THEOREM RejectedBeforePublicationHolds == Spec => RejectedBeforePublication
<1>1. ASSUME SettlementInv, [Next]_vars
      PROVE  \A c \in Calls :
               answer'[c] = "rejected" /\ answer[c] # "rejected" =>
                 ~ published[Of(c)] /\ handled[Of(c)] = 0
  <2> SUFFICES ASSUME NEW c \in Calls, answer'[c] = "rejected",
                      answer[c] # "rejected"
               PROVE  ~ published[Of(c)] /\ handled[Of(c)] = 0
    OBVIOUS
  <2>1. journal[Of(c)].kind = "none"
    BY <1>1, NextOK DEF StepOK
  <2>2. EntryOK(Of(c))
    BY <1>1, CallNow
  <2> QED
    BY <2>1, <2>2 DEF EntryOK, Enough
<1> QED
  BY <1>1, SettlementInvHolds, PTL DEF Spec, RejectedBeforePublication

LEMMA DeliveryRanks ==
  /\ DeliveryRank["NONE"] = 0 /\ DeliveryRank["PENDING"] = 1
  /\ DeliveryRank["DELIVERED"] = 2
BY DEF DeliveryRank

LEMMA MoveIsKept ==
  ASSUME NEW p, journal[p] \in Entry, journal'[p] \in Entry,
         EntryMove(journal[p], journal'[p])
  PROVE  EvidenceIsKept(p)
<1> DEFINE old == journal[p]
           new == journal'[p]
<1>1. /\ Rank[old.evidence] \in Nat /\ old.confs \in Nat
      /\ DeliveryRank[old.delivery] \in Nat
      /\ old.kind \in {"none", "record", "tombstone"}
  BY Ranks, DeliveryRanks DEF Entry, EvidenceStates, DeliveryStates
<1>2. CASE new = old
  <2>1. CASE old.kind = "none"
    BY <2>1 DEF EvidenceIsKept
  <2>2. CASE old.kind = "record"
    BY <1>1, <1>2, <2>2 DEF EvidenceIsKept
  <2>3. CASE old.kind = "tombstone"
    BY <1>2, <2>3 DEF EvidenceIsKept
  <2> QED
    BY <1>1, <2>1, <2>2, <2>3
<1>3. CASE old = NoEntry
  BY <1>3, EntryTypes DEF EvidenceIsKept
<1>4. CASE /\ old.kind = "record" /\ new.kind = "record" /\ new.delivery = old.delivery
           /\ Rank[old.evidence] <= Rank[new.evidence] /\ old.confs <= new.confs
  BY <1>1, <1>4 DEF EvidenceIsKept
<1>5. CASE old.kind = "record" /\ old.delivery = "NONE" /\ new = Claimed(old)
  <2>1. /\ new.kind = "record" /\ new.evidence = old.evidence
        /\ new.confs = old.confs /\ new.delivery = "PENDING"
    BY <1>5, DeliveryShape
  <2> QED
    BY <1>1, <1>5, <2>1, DeliveryRanks DEF EvidenceIsKept
<1>6. CASE old.kind = "record" /\ old.delivery = "PENDING" /\ new = Delivered(old)
  <2>1. /\ new.kind = "record" /\ new.evidence = old.evidence
        /\ new.confs = old.confs /\ new.delivery = "DELIVERED"
    BY <1>6, DeliveryShape
  <2> QED
    BY <1>1, <1>6, <2>1, DeliveryRanks DEF EvidenceIsKept
<1>7. CASE RetentionEligible(old) /\ new = TombstoneOf(old)
  <2>1. old.kind = "record" /\ new.kind = "tombstone"
    BY <1>7, DeliveryShape DEF RetentionEligible
  <2> QED
    BY <1>7, <2>1 DEF EvidenceIsKept
<1>8. CASE /\ old.kind = "tombstone" /\ old.confs = 0
           /\ \E n \in Nat : new = [old EXCEPT !.confs = n]
  <2>1. new = [old EXCEPT !.confs = new.confs]
    BY <1>8 DEF Entry
  <2> QED
    BY <1>8, <2>1 DEF EvidenceIsKept
<1> QED
  BY <1>2, <1>3, <1>4, <1>5, <1>6, <1>7, <1>8 DEF EntryMove

(***************************************************************************)
(* Known evidence is never downgraded: not by a lagging node, not by a     *)
(* slower server, not by maintenance; and a record is only given up while  *)
(* nothing was included or claimed.                                        *)
(***************************************************************************)
THEOREM EvidenceOnlyGrowsHolds == Spec => EvidenceOnlyGrows
<1>1. ASSUME SettlementInv, [Next]_vars
      PROVE  \A p \in Payments : EvidenceIsKept(p)
  <2> SUFFICES ASSUME NEW p \in Payments PROVE EvidenceIsKept(p)
    OBVIOUS
  <2>1. StepOK
    BY <1>1, NextOK
  <2>2. journal[p] \in Entry /\ journal'[p] \in Entry
    BY <1>1, <2>1 DEF StepOK, SettlementInv, TypeOK
  <2>3. journal'[p] = journal[p] \/ EntryMove(journal[p], journal'[p])
    BY <2>1 DEF StepOK, PaymentMove, Unmoved
  <2>4. EntryMove(journal[p], journal'[p])
    BY <2>3 DEF EntryMove
  <2> QED
    BY <2>2, <2>4, MoveIsKept
<1> QED
  BY <1>1, SettlementInvHolds, PTL DEF Spec, EvidenceOnlyGrows

-----------------------------------------------------------------------------
(* The promise. *)

LEMMA Statuses ==
  ASSUME NEW r \in Entry
  PROVE  /\ r.kind = "none" => StatusOf(r) = "unseen"
         /\ r.kind = "tombstone" => StatusOf(r) = "closed"
         /\ r.kind = "record" =>
              /\ r.delivery = "NONE" => StatusOf(r) = "open"
              /\ r.delivery = "PENDING" => StatusOf(r) = "claimed"
              /\ r.delivery = "DELIVERED" => StatusOf(r) = "finished"
<1>1. CASE r.kind = "none"
  BY <1>1 DEF StatusOf
<1>2. CASE r.kind = "tombstone"
  BY <1>2 DEF StatusOf
<1>3. CASE r.kind = "record" /\ r.delivery = "NONE"
  BY <1>3 DEF StatusOf
<1>4. CASE r.kind = "record" /\ r.delivery = "PENDING"
  BY <1>4 DEF StatusOf
<1>5. CASE r.kind = "record" /\ r.delivery = "DELIVERED"
  BY <1>5 DEF StatusOf
<1> QED
  BY <1>1, <1>2, <1>3, <1>4, <1>5 DEF Entry, DeliveryStates

LEMMA StatusMoves ==
  ASSUME NEW p \in Payments, \A q \in Payments \ {p} : journal'[q] = journal[q]
  PROVE  /\ status[p] = StatusOf(journal[p])
         /\ status' = [status EXCEPT ![p] = StatusOf(journal'[p])]
BY DEF status

LEMMA StatusStays ==
  ASSUME NEW p \in Payments, \A q \in Payments \ {p} : journal'[q] = journal[q],
         StatusOf(journal'[p]) = StatusOf(journal[p])
  PROVE  status' = status
BY DEF status

\* An entry that moves is a payment that goes one step further, or none.
LEMMA EntryKeepsPromise ==
  ASSUME SettlementInv, NEW p \in Payments, EntryMove(journal[p], journal'[p]),
         \A q \in Payments \ {p} : journal'[q] = journal[q],
         UNCHANGED <<sent, confirmed, handled>>,
         journal'[p] \in Entry, EntryOK(p)',
         chain'[p] = chain[p], handled'[p] = handled[p]
  PROVE  [Promise!Next]_(Promise!vars)
<1> DEFINE old == journal[p]
           new == journal'[p]
<1>1. /\ old \in Entry /\ new \in Entry /\ EntryOK(p)
      /\ status[p] = StatusOf(old)
      /\ status' = [status EXCEPT ![p] = StatusOf(new)]
  BY StatusMoves DEF SettlementInv, TypeOK
<1>2. CASE StatusOf(new) = StatusOf(old)
  <2>1. status' = status
    BY <1>2, StatusStays
  <2> QED
    BY <2>1 DEF Promise!vars
<1>3. CASE new = old
  BY <1>2, <1>3
<1>4. CASE old = NoEntry /\ new = NewRecord
  <2>1. StatusOf(old) = "unseen" /\ StatusOf(new) = "open"
    BY <1>4, EntryTypes, Statuses
  <2>2. Promise!Open(p)
    BY <1>1, <2>1 DEF Promise!Open, Promise!Move
  <2> QED
    BY <2>2 DEF Promise!Next
<1>5. CASE /\ old.kind = "record" /\ new.kind = "record"
           /\ new.delivery = old.delivery
  <2>1. StatusOf(new) = StatusOf(old)
    BY <1>1, <1>5, Statuses DEF Entry, DeliveryStates
  <2> QED
    BY <1>2, <2>1
<1>6. CASE old.kind = "record" /\ old.delivery = "NONE" /\ new = Claimed(old)
  <2>1. new.kind = "record" /\ new.delivery = "PENDING"
    BY <1>1, <1>6, DeliveryShape
  <2>2. StatusOf(old) = "open" /\ StatusOf(new) = "claimed"
    BY <1>1, <1>6, <2>1, Statuses
  <2>3. p \in confirmed
    <3>1. Enough(new, MinConfs) /\ 2 + new.confs <= chain[p]
      BY <2>1 DEF EntryOK, Enough
    <3>2. new.confs \in Nat /\ chain[p] \in Int
      BY <1>1, Constants DEF Entry, SettlementInv, TypeOK
    <3> QED
      BY <3>1, <3>2, Constants DEF Enough, confirmed
  <2>4. Promise!Claim(p)
    BY <1>1, <2>2, <2>3 DEF Promise!Claim, Promise!Move
  <2> QED
    BY <2>4 DEF Promise!Next
<1>7. CASE old.kind = "record" /\ old.delivery = "PENDING" /\ new = Delivered(old)
  <2>1. new.kind = "record" /\ new.delivery = "DELIVERED"
    BY <1>1, <1>7, DeliveryShape
  <2>2. StatusOf(old) = "claimed" /\ StatusOf(new) = "finished"
    BY <1>1, <1>7, <2>1, Statuses
  <2>3. handled[p] = 1
    BY <2>1 DEF EntryOK
  <2>4. Promise!Finish(p)
    BY <1>1, <2>2, <2>3 DEF Promise!Finish, Promise!Move
  <2> QED
    BY <2>4 DEF Promise!Next
<1>8. CASE RetentionEligible(old) /\ new = TombstoneOf(old)
  <2>1. old.kind = "record" /\ old.delivery = "NONE" /\ new.kind = "tombstone"
    BY <1>1, <1>8, DeliveryShape DEF RetentionEligible
  <2>2. StatusOf(old) = "open" /\ StatusOf(new) = "closed"
    BY <1>1, <2>1, Statuses
  <2>3. Promise!GiveUp(p)
    BY <1>1, <2>2 DEF Promise!GiveUp, Promise!Move
  <2> QED
    BY <2>3 DEF Promise!Next
<1>9. CASE old.kind = "tombstone" /\ \E n \in Nat : new = [old EXCEPT !.confs = n]
  <2>1. new.kind = "tombstone"
    BY <1>1, <1>9 DEF Entry
  <2> QED
    BY <1>1, <1>2, <1>9, <2>1, Statuses
<1> QED
  BY <1>3, <1>4, <1>5, <1>6, <1>7, <1>8, <1>9 DEF EntryMove

LEMMA ImplementsStep ==
  ASSUME SettlementInv, [Next]_vars
  PROVE  [Promise!Next]_(Promise!vars)
<1>1. StepOK
  BY NextOK
<1>2. CASE \A q \in Payments : Unmoved(q)
  <2>1. UNCHANGED <<status, sent, confirmed>>
    BY <1>2 DEF status, sent, confirmed, Unmoved
  <2>2. handled' = handled
    BY <1>1, <1>2 DEF StepOK, SettlementInv, TypeOK, Unmoved
  <2> QED
    BY <2>1, <2>2 DEF Promise!vars
<1>3. ASSUME NEW p \in Payments, PaymentMove(p)
      PROVE  [Promise!Next]_(Promise!vars)
  <2>1. /\ \A q \in Payments \ {p} :
             /\ journal'[q] = journal[q] /\ published'[q] = published[q]
             /\ handled'[q] = handled[q] /\ chain'[q] = chain[q]
        /\ journal[p] \in Entry /\ journal'[p] \in Entry
        /\ chain[p] \in Int /\ chain'[p] \in Int
        /\ handled \in [Payments -> Nat] /\ handled' \in [Payments -> Nat]
        /\ EntryOK(p) /\ EntryOK(p)'
    BY <1>1, <1>3, Constants
       DEF StepOK, SettlementInv, TypeOK, PaymentMove, Unmoved
  <2>2. journal'[p] = journal[p] => status' = status
    BY <2>1, StatusStays
  <2>3. published'[p] = published[p] => sent' = sent
    BY <2>1 DEF sent
  <2>4. handled'[p] = handled[p] => handled' = handled
    BY <2>1
  <2>5. (p \in confirmed <=> chain'[p] >= 2 + MinConfs) => confirmed' = confirmed
    BY <2>1 DEF confirmed
  <2>6. CASE /\ EntryMove(journal[p], journal'[p])
             /\ published'[p] = published[p] /\ handled'[p] = handled[p]
             /\ chain'[p] = chain[p]
    <3>1. UNCHANGED <<sent, confirmed, handled>>
      BY <2>3, <2>4, <2>5, <2>6 DEF confirmed
    <3> QED
      BY <2>1, <2>6, <3>1, EntryKeepsPromise
  <2>7. CASE /\ journal'[p] = journal[p] /\ handled'[p] = handled[p]
             /\ journal[p].kind = "record" /\ journal[p].delivery = "NONE"
             /\ published'[p] = TRUE
             /\ chain'[p] = chain[p] \/ (chain[p] = 0 /\ chain'[p] = 1)
    <3>1. p \in confirmed <=> chain'[p] >= 2 + MinConfs
      BY <2>1, <2>7, Constants DEF confirmed
    <3>2. UNCHANGED <<status, confirmed, handled>>
      BY <2>2, <2>4, <2>5, <2>7, <3>1
    <3>3. sent' = sent \cup {p}
      BY <2>1, <2>7 DEF sent
    <3>4. status[p] = "open"
      BY <2>1, <2>7, StatusMoves, Statuses
    <3>5. CASE p \in sent
      BY <3>2, <3>3, <3>5 DEF Promise!vars
    <3>6. CASE p \notin sent
      <4>1. Promise!Publish(p)
        BY <3>2, <3>3, <3>4, <3>6 DEF Promise!Publish
      <4> QED
        BY <4>1 DEF Promise!Next
    <3> QED
      BY <3>5, <3>6
  <2>8. CASE /\ journal'[p] = journal[p] /\ published'[p] = published[p]
             /\ chain'[p] = chain[p]
             /\ journal[p].delivery = "PENDING" /\ handled[p] = 0 /\ handled'[p] = 1
    <3>1. UNCHANGED <<status, sent, confirmed>>
      BY <2>2, <2>3, <2>5, <2>8 DEF confirmed
    <3>2. handled' = [handled EXCEPT ![p] = 1]
      BY <2>1, <2>8
    <3>3. journal[p].kind = "record"
      BY <2>1, <2>8 DEF EntryOK, Enough
    <3>4. status[p] = "claimed"
      BY <2>1, <2>8, <3>3, StatusMoves, Statuses
    <3>5. Promise!Hand(p)
      BY <2>8, <3>1, <3>2, <3>4 DEF Promise!Hand
    <3> QED
      BY <3>5 DEF Promise!Next
  <2>9. CASE /\ journal'[p] = journal[p] /\ published'[p] = published[p]
             /\ handled'[p] = handled[p]
             /\ chain[p] >= 2 => chain'[p] >= chain[p]
    <3>1. UNCHANGED <<status, sent, handled>>
      BY <2>2, <2>3, <2>4, <2>9
    <3>2. p \in confirmed => chain'[p] >= 2 + MinConfs
      BY <2>1, <2>9, Constants DEF confirmed
    <3>3. CASE p \in confirmed <=> chain'[p] >= 2 + MinConfs
      BY <2>5, <3>1, <3>3 DEF Promise!vars
    <3>4. CASE p \notin confirmed /\ chain'[p] >= 2 + MinConfs
      <4>1. confirmed' = confirmed \cup {p}
        BY <2>1, <3>4 DEF confirmed
      <4>2. Promise!Confirm(p)
        BY <3>1, <4>1 DEF Promise!Confirm
      <4> QED
        BY <4>2 DEF Promise!Next
    <3> QED
      BY <3>2, <3>3, <3>4
  <2> QED
    BY <1>3, <2>6, <2>7, <2>8, <2>9 DEF PaymentMove
<1> QED
  BY <1>1, <1>2, <1>3 DEF StepOK

(***************************************************************************)
(* Each payment goes the way PaidOnce promises: published only once it is  *)
(* on record, handed over once, and only when the chain has confirmed it   *)
(* as often as its requirement asks.                                       *)
(***************************************************************************)
THEOREM PaidOnceKeptHolds == Spec => PaidOnceKept
<1>1. Init => Promise!Init
  <2> SUFFICES ASSUME Init PROVE Promise!Init
    OBVIOUS
  <2>1. status = [p \in Payments |-> "unseen"]
    <3>1. StatusOf(NoEntry) = "unseen"
      BY EntryTypes, Statuses
    <3> QED
      BY <3>1 DEF Init, status
  <2>2. sent = {} /\ confirmed = {} /\ handled = [p \in Payments |-> 0]
    BY Constants DEF Init, sent, confirmed
  <2> QED
    BY <2>1, <2>2 DEF Promise!Init
<1>2. SettlementInv /\ [Next]_vars => [Promise!Next]_(Promise!vars)
  BY ImplementsStep
<1> QED
  BY <1>1, <1>2, SettlementInvHolds, PTL DEF Spec, PaidOnceKept, Promise!Spec
=============================================================================
