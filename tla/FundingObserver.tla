-------------------------- MODULE FundingObserver --------------------------
(***************************************************************************)
(* The provider's record of one funding transaction: how far the Momentum  *)
(* chain has been followed, where the transaction was found, when it first *)
(* had enough confirmations, and the attestation of that fact.             *)
(*                                                                         *)
(*   record    the observer state                                          *)
(*             (service-credit-zenon-funding-observer-state.js);           *)
(*   outbox    the attestation beside it in the same SQLite row, each      *)
(*             write one BEGIN IMMEDIATE transaction                       *)
(*             (service-credit-zenon-funding-observer-sqlite-store.js);    *)
(*   producer  processes that admit what a node says of the chain          *)
(*             (service-credit-zenon-funding-observation-producer.js):     *)
(*             one step is up to four transactions;                        *)
(*   signer    signing operations                                          *)
(*             (service-credit-zenon-provider-signing-operation.js).       *)
(*                                                                         *)
(* External: the chain, which forks once, and the node, whose answers may  *)
(* come from either side of the fork; the signing device.                  *)
(*                                                                         *)
(* A producer reads the revision before each transaction and the           *)
(* transaction refuses another one.  Read and write are one action here:   *)
(* a refused write, one whose outcome is not known and a crash all end the *)
(* producer (Stops), and another takes its place.                          *)
(***************************************************************************)
EXTENDS Integers, Sequences, FiniteSetsExt

CONSTANTS
  Producers,
  Signers,
  Envelopes,          \* what the signing device may answer
  Histories,          \* what the chain may be like, see Init
  Height,             \* of the highest Momentum
  MaximumPageEntries,
  MinimumConfirmations

Branches == {"a", "b"}

\* A history forks above `fork'.  On each branch the transaction is in the
\* Momentum at height `target' (0: in none) and Momentums have version 2 from
\* height `v2'.  `native' Momentums carry the fields of a version 2 node.
ASSUME HistoriesAssumption ==
  \A h \in Histories :
    /\ h.fork \in 1..Height /\ h.native \in BOOLEAN
    /\ h.target \in [Branches -> 0..Height] /\ h.v2 \in [Branches -> 2..Height + 1]
    /\ \A b, c \in Branches :
         /\ h.target[b] \in 1..h.fork => h.target[c] = h.target[b]
         /\ h.v2[b] <= h.fork => h.v2[c] = h.v2[b]

ASSUME LimitsAssumption ==
  /\ Height \in Nat \ {0} /\ MaximumPageEntries \in Nat \ {0}
  /\ MinimumConfirmations \in Nat \ {0}

ASSUME EnvelopesAssumption == "none" \notin Envelopes

VARIABLES history, record, outbox, producer, signer

vars == <<history, record, outbox, producer, signer>>

----------------------------------------------------------------------------
(* Momentums.  The hash of one stands for everything below it.             *)

At(b, h) == [height |-> h, branch |-> IF h <= history.fork THEN "main" ELSE b]
Parent(m) == At(m.branch, m.height - 1)
None == [height |-> 0, branch |-> "none"]

On(m, b) == m.branch \in {"main", b}
Includes(m) == \E b \in Branches : On(m, b) /\ history.target[b] = m.height
IsV2(m) == \E b \in Branches : On(m, b) /\ history.v2[b] <= m.height

\* n is m or was built on it.
Descends(m, n) == m.height <= n.height /\ On(m, n.branch)

Confirmations(m, n) == n.height - m.height + 1
Enough(m, n) == m # None /\ Confirmations(m, n) >= MinimumConfirmations

----------------------------------------------------------------------------
(* The record.  Confirmations are always counted from the checkpoint.      *)

NoReceipt == [start |-> None, end |-> None, member |-> None, threshold |-> FALSE]
NoRequest == [inclusion |-> None, first |-> NoReceipt]
EmptyOutbox ==
  [status |-> "NONE", revision |-> 0, request |-> NoRequest,
   envelope |-> "none", conflicting |-> "none", prior |-> "NONE"]

Init ==
  /\ history \in Histories
  /\ record =
       [revision |-> 0, status |-> "AWAITING_INCLUSION", checkpoint |-> At("a", 1),
        receipt |-> NoReceipt, maxV1 |-> 0, minV2 |-> Height + 1,
        inclusion |-> None, first |-> NoReceipt]
  /\ outbox = EmptyOutbox
  /\ producer = [p \in Producers |-> [step |-> "idle"]]
  /\ signer = [s \in Signers |-> [step |-> "idle"]]

Quarantined == record.status = "QUARANTINED"
Quarantine(r) == [r EXCEPT !.revision = @ + 1, !.status = "QUARANTINED"]

\* The page applied last holds the transaction and no observation followed.
Pending(r) == r.inclusion = None /\ r.receipt.member # None

(* reconcileOutbox(): the request is made with the first threshold; a      *)
(* quarantine takes back what was prepared or signed.                      *)
Reconciled(r) ==
  IF r.status = "QUARANTINED" /\ outbox.status \in {"PREPARED", "READY"}
    THEN [outbox EXCEPT !.status = "INVALIDATED", !.revision = @ + 1,
                        !.prior = outbox.status]
  ELSE IF r.status = "THRESHOLD_OBSERVED" /\ outbox.status = "NONE"
    THEN [EmptyOutbox EXCEPT !.status = "PREPARED", !.revision = 1,
                             !.request = [inclusion |-> r.inclusion, first |-> r.first]]
  ELSE outbox

(* #mutate(): what the state module would refuse to serialise is never     *)
(* written; EvidenceHolds says that it never has to.                       *)
Write(r) == record' = r /\ outbox' = Reconciled(r)

----------------------------------------------------------------------------
(* What a producer is given: the frontier, the Momentum the node has at    *)
(* the checkpoint's height, the Momentums above it, and the Momentum the   *)
(* account block is confirmed in.                                          *)

PageLength(cursor, frontier) ==
  Min({frontier.height - cursor.height, MaximumPageEntries})

Bundle(cursor, frontier, checked, b, confirmed) ==
  [frontier |-> frontier, checked |-> checked, confirmed |-> confirmed,
   page |-> [i \in 1..PageLength(cursor, frontier) |-> At(b, cursor.height + i)]]

Entries(bundle) == {bundle.page[i] : i \in DOMAIN bundle.page}
Momentums(bundle) ==
  ({bundle.frontier, bundle.checked, bundle.confirmed} \cup Entries(bundle)) \ {None}

(* validateMomentumVersionLineage(), within one bundle.                    *)
VersionsAgree(ms) ==
  \A m, n \in ms :
    /\ m.height < n.height /\ IsV2(m) => IsV2(n)
    /\ m.height = n.height /\ m # n => ~history.native /\ ~IsV2(m) /\ ~IsV2(n)

\* Wherever the page shows the transaction, it is confirmed there.
MembersAreConfirmed(bundle) ==
  \A m \in Entries(bundle) : Includes(m) => m = bundle.confirmed

LinkedTo(page, m) ==
  \A i \in DOMAIN page : Parent(page[i]) = IF i = 1 THEN m ELSE page[i - 1]

EndsAtFrontier(bundle) ==
  \A m \in Entries(bundle) : m.height = bundle.frontier.height => m = bundle.frontier

(* admitPendingReceiptLineage().                                           *)
ContinuesReceipt(bundle) ==
  /\ bundle.checked = record.checkpoint
  /\ bundle.frontier.height = record.checkpoint.height
       => bundle.frontier = record.checkpoint
  /\ LinkedTo(bundle.page, record.checkpoint)
  /\ EndsAtFrontier(bundle)

(* The local checks; a bundle that fails them changes nothing.  Another    *)
(* Momentum than the checkpoint is let through when the page is built on   *)
(* it: then the page's parent is refused, durably.                         *)
Admitted(bundle) ==
  /\ VersionsAgree(Momentums(bundle))
  /\ MembersAreConfirmed(bundle)
  /\ \/ bundle.checked = record.checkpoint
     \/ bundle.page # << >> /\ Parent(bundle.page[1]) = bundle.checked
  /\ Pending(record) => ContinuesReceipt(bundle)

(* applyZenonFundingMomentumVersionLineage().                              *)
Learnt(r, ms) ==
  LET v1 == Max({r.maxV1} \cup {m.height : m \in {n \in ms : ~IsV2(n)}})
      v2 == Min({r.minV2} \cup {m.height : m \in {n \in ms : IsV2(n)}})
  IN  IF v1 >= v2 THEN Quarantine(r)
      ELSE IF v1 = r.maxV1 /\ v2 = r.minV2 THEN r
      ELSE [r EXCEPT !.revision = @ + 1, !.maxV1 = v1, !.minV2 = v2]

Begins(p) ==
  /\ producer[p].step = "idle" /\ ~Quarantined
  /\ \E b, c, d \in Branches, h \in record.checkpoint.height..Height,
        confirmed \in {None} \cup {At(e, history.target[e]) :
                                   e \in {x \in Branches : history.target[x] # 0}} :
       LET bundle == Bundle(record.checkpoint, At(b, h), At(c, record.checkpoint.height),
                            d, confirmed)
           learnt == Learnt(record, Momentums(bundle))
       IN  /\ Admitted(bundle)
           /\ Write(learnt)
           /\ producer' = [producer EXCEPT ![p] =
                IF learnt.status = "QUARANTINED" THEN [step |-> "idle"]
                ELSE [step |-> IF Pending(record) THEN "pending" ELSE "page",
                      frontier |-> bundle.frontier, page |-> bundle.page,
                      confirmed |-> bundle.confirmed]]
  /\ UNCHANGED <<history, signer>>

----------------------------------------------------------------------------
(* applyZenonFundingInclusionObservation().                                *)

NotFound(r) == IF r.inclusion = None /\ ~Pending(r) THEN r ELSE Quarantine(r)

Found(r, m) ==
  CASE r.inclusion = m -> r
    [] r.inclusion # m /\ (r.inclusion # None \/ r.receipt.member # m) -> Quarantine(r)
    [] OTHER ->
         IF ~Enough(m, r.checkpoint)
           THEN [r EXCEPT !.revision = @ + 1, !.status = "INCLUDED_BELOW_THRESHOLD",
                          !.inclusion = m]
         ELSE IF r.receipt.threshold
           THEN [r EXCEPT !.revision = @ + 1, !.status = "THRESHOLD_OBSERVED",
                          !.inclusion = m, !.first = r.receipt]
         ELSE Quarantine(r)

Observed(r, m) == IF m = None THEN NotFound(r) ELSE Found(r, m)

\* Where a producer stands after it wrote r.
Continues(p, r, step) ==
  producer' = [producer EXCEPT ![p] =
    IF r.status = "QUARANTINED" \/ step = "idle" THEN [step |-> "idle"]
    ELSE [@ EXCEPT !.step = step]]

(* A receipt that was pending is classified before another page replaces   *)
(* it.                                                                     *)
ClassifiesReceipt(p) ==
  /\ producer[p].step = "pending" /\ ~Quarantined
  /\ LET observed == Observed(record, producer[p].confirmed)
     IN  Write(observed) /\ Continues(p, observed, "page")
  /\ UNCHANGED <<history, signer>>

----------------------------------------------------------------------------
(* planBackfill() and applyPage(), at one revision: a plan is made for the *)
(* record's checkpoint, whatever the bundle was read for.                  *)

FrontierReplaced(p) ==
  /\ producer[p].step = "page" /\ ~Quarantined
  /\ producer[p].frontier.height = record.checkpoint.height
  /\ producer[p].frontier # record.checkpoint
  /\ Write(Quarantine(record))
  /\ Continues(p, Quarantine(record), "idle")
  /\ UNCHANGED <<history, signer>>

(* The source is behind or at the frontier.  A page nevertheless is an     *)
(* invalid input (Stops).                                                  *)
NoPlan(p) ==
  /\ producer[p].step = "page" /\ producer[p].page = << >>
  /\ \/ producer[p].frontier.height < record.checkpoint.height
     \/ producer[p].frontier = record.checkpoint

(* Slip for the mutants: the page's first parent is not compared.          *)
PageConflictsUnlinked(r, bundle) ==
  \/ bundle.page[1].height # r.checkpoint.height + 1
  \/ ~EndsAtFrontier(bundle)

PageConflicts(r, bundle) ==
  \/ bundle.page[1].height # r.checkpoint.height + 1
  \/ ~LinkedTo(bundle.page, r.checkpoint)
  \/ ~EndsAtFrontier(bundle)
  \/ r.inclusion # None /\ \E m \in Entries(bundle) : Includes(m) /\ m # r.inclusion

(* applyZenonFundingObserverPage() and updateIncludedState().              *)
Paged(r, bundle) ==
  LET members == {m \in Entries(bundle) : Includes(m)}
      member == IF members = {} THEN None ELSE CHOOSE m \in members : TRUE
      found == IF r.inclusion = None THEN member ELSE r.inclusion
      end == bundle.page[Len(bundle.page)]
      receipt == [start |-> r.checkpoint, end |-> end, member |-> member,
                  threshold |-> r.first = NoReceipt /\ Enough(found, end)]
      first == IF r.inclusion # None /\ receipt.threshold THEN receipt ELSE r.first
  IN  [r EXCEPT !.revision = @ + 1, !.checkpoint = end, !.receipt = receipt,
                !.first = first,
                !.status = IF first # NoReceipt THEN "THRESHOLD_OBSERVED" ELSE @]

AppliesPage(p) ==
  /\ producer[p].step = "page" /\ ~Quarantined /\ ~Pending(record)
  /\ producer[p].frontier.height > record.checkpoint.height
  /\ Len(producer[p].page) = PageLength(record.checkpoint, producer[p].frontier)
  /\ LET paged == IF PageConflicts(record, producer[p]) THEN Quarantine(record)
                  ELSE Paged(record, producer[p])
     IN  Write(paged) /\ Continues(p, paged, "settle")
  /\ UNCHANGED <<history, signer>>

(* The last observation of a step, after a page or when there is none: the *)
(* transaction is where a page found it, is nowhere, or is confirmed above *)
(* the checkpoint, which says nothing yet.                                 *)
Settles(p) ==
  /\ ~Quarantined
  /\ producer[p].step = "settle" \/ NoPlan(p)
  /\ LET m == producer[p].confirmed
         settled == IF m.height > record.checkpoint.height THEN record
                    ELSE Observed(record, m)
     IN  /\ m.height \in 1..record.checkpoint.height => record.receipt # NoReceipt
         /\ Write(settled) /\ Continues(p, settled, "idle")
  /\ UNCHANGED <<history, signer>>

(* A crash, a revision that moved, a commit whose outcome is unknown, a    *)
(* refused input or source: the rest of the step is not done.              *)
Stops(p) ==
  /\ producer[p].step # "idle"
  /\ Continues(p, record, "idle")
  /\ UNCHANGED <<history, record, outbox, signer>>

----------------------------------------------------------------------------
(* A signing operation.  The record is compared with the one it prepared   *)
(* for before the request is written to the device and after the answer.   *)

IsPrepared == record.status = "THRESHOLD_OBSERVED" /\ outbox.status = "PREPARED"

Dispatches(s) ==
  /\ signer[s].step = "idle" /\ IsPrepared
  /\ signer' = [signer EXCEPT ![s] = [step |-> "dispatched", revision |-> record.revision]]
  /\ UNCHANGED <<history, record, outbox, producer>>

Answered(s) ==
  /\ signer[s].step = "dispatched" /\ IsPrepared /\ signer[s].revision = record.revision
  /\ \E e \in Envelopes :
       signer' = [signer EXCEPT ![s] =
         [step |-> "answered", revision |-> record.revision, envelope |-> e]]
  /\ UNCHANGED <<history, record, outbox, producer>>

(* Slip for the mutants: the last envelope wins.                           *)
CommittedLast(e) ==
  [outbox EXCEPT !.status = "READY", !.revision = @ + 1, !.envelope = e]

Committed(e) ==
  IF outbox.status = "PREPARED"
    THEN [outbox EXCEPT !.status = "READY", !.revision = @ + 1, !.envelope = e]
  ELSE IF outbox.envelope = e THEN outbox
  ELSE [outbox EXCEPT !.status = "EQUIVOCATED", !.revision = @ + 1,
                      !.conflicting = e, !.prior = "READY"]

(* commitAuthenticatedEnvelope().                                          *)
Commits(s) ==
  /\ signer[s].step = "answered" /\ signer[s].revision = record.revision
  /\ outbox.status \in {"PREPARED", "READY"}
  /\ outbox' = Committed(signer[s].envelope)
  /\ signer' = [signer EXCEPT ![s] = [step |-> "idle"]]
  /\ UNCHANGED <<history, record, producer>>

(* No answer in time, a refusal, a record that moved, a crash.             *)
GivesUp(s) ==
  /\ signer[s].step # "idle"
  /\ signer' = [signer EXCEPT ![s] = [step |-> "idle"]]
  /\ UNCHANGED <<history, record, outbox, producer>>

----------------------------------------------------------------------------
Next ==
  \/ \E p \in Producers :
       \/ Begins(p) \/ ClassifiesReceipt(p) \/ FrontierReplaced(p)
       \/ AppliesPage(p) \/ Settles(p) \/ Stops(p)
  \/ \E s \in Signers : Dispatches(s) \/ Answered(s) \/ Commits(s) \/ GivesUp(s)

Spec == Init /\ [][Next]_vars

----------------------------------------------------------------------------
Reached == {At(b, h) : b \in Branches, h \in 1..Height}
Receipts ==
  [start : Reached, end : Reached, member : Reached \cup {None}, threshold : BOOLEAN]

TypeOK ==
  /\ record \in [revision : Nat, checkpoint : Reached, inclusion : Reached \cup {None},
                 status : {"AWAITING_INCLUSION", "INCLUDED_BELOW_THRESHOLD",
                           "THRESHOLD_OBSERVED", "QUARANTINED"},
                 receipt : Receipts \cup {NoReceipt}, first : Receipts \cup {NoReceipt},
                 maxV1 : 0..Height, minV2 : 2..Height + 1]
  /\ outbox.status \in {"NONE", "PREPARED", "READY", "INVALIDATED", "EQUIVOCATED"}

\* The record's parts agree as normalizeStateSnapshot() asks.
StateAgrees ==
  /\ record.maxV1 < record.minV2
  /\ record.receipt # NoReceipt =>
       /\ record.receipt.end = record.checkpoint
       /\ record.receipt.threshold <=>
            IF record.first = NoReceipt
              THEN Enough(IF record.inclusion = None THEN record.receipt.member
                          ELSE record.inclusion, record.checkpoint)
              ELSE record.receipt = record.first
  /\ record.first # NoReceipt => record.first.threshold /\ record.inclusion # None
  /\ ~Quarantined =>
       record.status = CASE record.inclusion = None -> "AWAITING_INCLUSION"
                         [] Enough(record.inclusion, record.checkpoint) -> "THRESHOLD_OBSERVED"
                         [] OTHER -> "INCLUDED_BELOW_THRESHOLD"
  /\ record.inclusion # None =>
       (Enough(record.inclusion, record.checkpoint) <=> record.first # NoReceipt)

\* The outbox belongs to this record as normalizeOutbox() asks.
OutboxAgrees ==
  /\ outbox.status = "NONE" <=> record.first = NoReceipt
  /\ outbox.status # "NONE" =>
       outbox.request = [inclusion |-> record.inclusion, first |-> record.first]
  /\ outbox.status \in {"PREPARED", "READY"} => record.status = "THRESHOLD_OBSERVED"
  /\ outbox.status = "INVALIDATED" => Quarantined
  /\ outbox.status \in {"READY", "EQUIVOCATED"} \/ outbox.prior = "READY"
       <=> outbox.envelope # "none"
  /\ outbox.status = "EQUIVOCATED" <=> outbox.conflicting # "none"
  /\ outbox.envelope # "none" => outbox.conflicting # outbox.envelope
  /\ outbox.revision =
       CASE outbox.status = "NONE" -> 0
         [] outbox.status = "PREPARED" -> 1
         [] outbox.status = "READY" \/ outbox.prior = "PREPARED" -> 2
         [] OTHER -> 3

\* What the record claims is true of the chain: on one branch the transaction
\* is where it was included, and the first threshold is the first page end
\* with enough Momentums on top.
ClaimsAreTrue ==
  /\ record.inclusion # None =>
       Includes(record.inclusion) /\ Descends(record.inclusion, record.checkpoint)
  /\ record.first # NoReceipt =>
       /\ Descends(record.inclusion, record.first.end)
       /\ Enough(record.inclusion, record.first.end)
       /\ Confirmations(record.inclusion, record.first.start) < MinimumConfirmations
       /\ Descends(record.first.end, record.checkpoint)

(* After every write the row can be read again, and what it claims is true *)
(* of one branch of the chain, whatever branches the node's answers came   *)
(* from and whoever else wrote in between.                                 *)
EvidenceHolds == TypeOK /\ StateAgrees /\ OutboxAgrees /\ ClaimsAreTrue

(* Nothing signed is ever signed over: where the transaction was found,    *)
(* the first threshold and the request made of them stay, an envelope once *)
(* committed is never replaced, and what was taken back, by a quarantine   *)
(* or by a second envelope, is never evidence again.                       *)
RevokedForGood ==
  [][/\ record.inclusion # None => record'.inclusion = record.inclusion
     /\ record.first # NoReceipt => record'.first = record.first
     /\ outbox.request # NoRequest => outbox'.request = outbox.request
     /\ outbox.envelope # "none" => outbox'.envelope = outbox.envelope
     /\ Quarantined => record' = record
     /\ outbox.status \in {"INVALIDATED", "EQUIVOCATED"} => outbox' = outbox]_vars
=============================================================================
