-------------------------- MODULE SettlementJournal --------------------------
(***************************************************************************)
(* What src/settlement-journal.js keeps of one payment, and what each of   *)
(* its operations makes of an entry.  This module has no state:            *)
(* ExactSettlement keeps one entry per payment and decides when the        *)
(* operations run.                                                         *)
(*                                                                         *)
(* A payment has no entry, a record, or the tombstone that replaced its    *)
(* record.  A record holds the strongest evidence seen of the transaction  *)
(* (with the number of confirmations of an inclusion) and how far delivery *)
(* of the resource got.  A tombstone keeps the evidence its record had;    *)
(* its confs are those of a late inclusion, 0 if none was seen.            *)
(***************************************************************************)
EXTENDS Integers

EvidenceStates == {"VALIDATED", "UNKNOWN", "ACKNOWLEDGED", "INCLUDED"}

\* TOMBSTONE_PRIOR_EVIDENCE_STATES: what maintenance may still give up on.
PriorStates == EvidenceStates \ {"INCLUDED"}

DeliveryStates == {"NONE", "PENDING", "DELIVERED"}

\* Evidence only ever moves up this order.
Rank == [VALIDATED |-> 0, UNKNOWN |-> 1, ACKNOWLEDGED |-> 2, INCLUDED |-> 3]

Entry ==
  [kind : {"none", "record", "tombstone"}, evidence : EvidenceStates,
   confs : Nat, delivery : DeliveryStates]

NoEntry ==
  [kind |-> "none", evidence |-> "VALIDATED", confs |-> 0, delivery |-> "NONE"]

\* putValidated of a payment the journal does not know.
NewRecord == [NoEntry EXCEPT !.kind = "record"]

-----------------------------------------------------------------------------
(***************************************************************************)
(* updateEvidence (and, inside a compare-and-replace,                      *)
(* compareAndUpdateEvidence): weaker evidence is ignored, an inclusion is  *)
(* only replaced by the same inclusion with more confirmations, and that   *)
(* only while nothing has been delivered.                                  *)
(***************************************************************************)
StrengthenRefused(r, evidence, n) ==
  \/ r.kind # "record"
  \/ /\ r.evidence = "INCLUDED" /\ evidence = "INCLUDED"
     /\ n # r.confs
     /\ r.delivery # "NONE" \/ n < r.confs

Strengthened(r, evidence, n) ==
  IF Rank[evidence] < Rank[r.evidence]
  THEN r
  ELSE [r EXCEPT !.evidence = evidence, !.confs = n]

\* Has the inclusion on record the confirmations the signed requirement asks?
Enough(r, minimum) ==
  r.kind = "record" /\ r.evidence = "INCLUDED" /\ r.confs >= minimum

-----------------------------------------------------------------------------
\* Slip: any record without a delivery may be given up.
RetentionEligibleUndelivered(r) == r.kind = "record" /\ r.delivery = "NONE"

\* isRetentionEligible, but for the age, which ExactSettlement chooses freely.
RetentionEligible(r) ==
  r.kind = "record" /\ r.evidence \in PriorStates /\ r.delivery = "NONE"

\* replaceRecordWithTombstone.
TombstoneOf(r) == [r EXCEPT !.kind = "tombstone"]

\* Slip: the latest inclusion is the one kept.
WithLatestInclusion(t, n) == [t EXCEPT !.confs = n]

\* recordLateMomentumEvidence: the first late inclusion is the one kept.
WithLateInclusion(t, n) == IF t.confs = 0 THEN [t EXCEPT !.confs = n] ELSE t

-----------------------------------------------------------------------------
\* Slip: a pending delivery may be claimed once more.
ClaimableUntilDelivered(r) == r.delivery # "DELIVERED"

\* markDeliveryPending gives the claim to the first caller only.
Claimable(r) == r.delivery = "NONE"

Claimed(r) == [r EXCEPT !.delivery = "PENDING"]

\* markDelivered.
Delivered(r) == [r EXCEPT !.delivery = "DELIVERED"]
=============================================================================
