--------------------------- MODULE ExactSettlement ---------------------------
(***************************************************************************)
(* Exact payments on the Zenon chain (src/zenon-payment.js, class          *)
(* ExactZenonFacilitator) behind the HTTP resource server                  *)
(* (src/resource-server.js), with the journal both rely on and the         *)
(* process-wide ownership of the SDK (src/live-runtime.js).                *)
(*                                                                         *)
(* One process hosts several servers, each with a facilitator of its own;  *)
(* they share the journal file and the SDK.  A client may submit the same  *)
(* signed payment to any of them, any number of times; a server runs one   *)
(* call per payment at a time and later arrivals share its answer          *)
(* (converge), so a call is a pair of a server and a payment.  pc[c] names *)
(* the await the call stands at:                                           *)
(*                                                                         *)
(*   queue      the payer queue of its facilitator                         *)
(*   journal    the reads that open #settleSerialized                      *)
(*   session    the ownership of the SDK                                   *)
(*   reread ... momentum    #settleWithNode, inside the session            *)
(*   leave      the session is closing                                     *)
(*   fail       the catch of #settleSerialized                             *)
(*   claim, handler, store    delivery, in authorizeAndDeliver             *)
(*                                                                         *)
(* Every journal operation is atomic: they run one after the other in the  *)
(* writer queue of the file.  Two reads of one entry with no write of this *)
(* call in between are one step: a record turns into a tombstone an hour   *)
(* after it was written at the earliest.                                   *)
(***************************************************************************)
EXTENDS SettlementJournal, FiniteSets

CONSTANTS
  Servers,       \* the resource servers of the process
  Maintainers,   \* those whose operator runs reconciliation maintenance
  Payments,      \* signed payments, each naming one transaction
  PayerOf,       \* the account that signed a payment
  MinConfs,      \* minimumMomentumConfirmations of the requirement
  MaxConfs,      \* bound: the chain stops counting confirmations here
  MaxRecords     \* the capacity of the journal

ASSUME ConstantsAssumption ==
  /\ Maintainers \subseteq Servers
  /\ MinConfs \in Nat \ {0} /\ MaxConfs \in Nat \ {0}
  /\ MaxRecords \in Nat \ {0}

VARIABLES
  journal,    \* the entry of each payment, on disk
  chain,      \* where the transaction stands, see below
  published,  \* has this process tried to publish the transaction?
  handled,    \* runs of the resource handler for the payment
  poisoned,   \* an RPC or its clean-up left the SDK in an unknown state
  pc, view, seen, doubt,   \* of each call: await, record read, observation
  answer,     \* of each call: its outcome, kept once it was sent
  maint       \* of each server: the maintenance candidate being reconciled

process == <<poisoned, pc, view, seen, doubt, answer, maint>>
vars == <<journal, chain, published, handled, process>>

Calls == Servers \X Payments
Of(c) == c[2]

(***************************************************************************)
(* chain[p]: 0 nowhere, 1 on its way to the node, 2 accepted, and 2 + n    *)
(* included with n confirmations.  A node may lag, so a lookup reports any *)
(* stage the transaction has been through.                                 *)
(***************************************************************************)
Sees(p) == {0} \cup 2 .. chain[p]
Confirmations(o) == o - 2

(***************************************************************************)
(* doubt[c]: what the attempt record knows that forbids a definite         *)
(* rejection.  0 nothing; 1 a record, submission evidence, a journal that  *)
(* cannot be trusted, or an error worth a retry; 2 an inclusion.           *)
(***************************************************************************)
RecordDoubt(r) ==
  IF r.kind # "record" THEN 0 ELSE IF r.evidence = "INCLUDED" THEN 2 ELSE 1
SeenDoubt(o) == IF o > 2 THEN 2 ELSE IF o = 2 THEN 1 ELSE 0
Worse(d, e) == IF d > e THEN d ELSE e

\* Slip: the SDK is only given back after delivery.
InSessionToTheEnd ==
  {"reread", "lookup", "balance", "decide", "frontier", "record", "publish",
   "sending", "noteUnknown", "noteSeen", "noteSent", "wait", "momentum",
   "leave", "claim", "handler", "store"}

InSession ==
  {"reread", "lookup", "balance", "decide", "frontier", "record", "publish",
   "sending", "noteUnknown", "noteSeen", "noteSent", "wait", "momentum",
   "leave"}

InQueue == InSession \cup {"journal", "session", "fail"}
InDelivery == {"claim", "handler", "store"}
Idle == [step |-> "idle", p |-> "none", entry |-> NoEntry, seen |-> 0]

Init ==
  /\ journal = [p \in Payments |-> NoEntry]
  /\ chain = [p \in Payments |-> 0]
  /\ published = [p \in Payments |-> FALSE]
  /\ handled = [p \in Payments |-> 0]
  /\ poisoned = FALSE
  /\ pc = [c \in Calls |-> "idle"]
  /\ view = [c \in Calls |-> NoEntry]
  /\ seen = [c \in Calls |-> 0]
  /\ doubt = [c \in Calls |-> 0]
  /\ answer = [c \in Calls |-> "none"]
  /\ maint = [s \in Servers |-> Idle]

-----------------------------------------------------------------------------
\* How a call moves.

At(c, step) == pc[c] = step
Goes(c, step) == pc' = [pc EXCEPT ![c] = step]
Views(c, r) == view' = [view EXCEPT ![c] = r]
Sights(c, o) == seen' = [seen EXCEPT ![c] = o]
Doubts(c, d) == doubt' = [doubt EXCEPT ![c] = Worse(@, d)]

\* The call is over and its client has the answer a.
Answers(c, a) ==
  /\ Goes(c, "idle") /\ answer' = [answer EXCEPT ![c] = a]
  /\ Views(c, NoEntry) /\ Sights(c, 0) /\ doubt' = [doubt EXCEPT ![c] = 0]

\* settle returns: a success goes on to delivery, anything else is the answer.
Returns(c, a) ==
  IF a = "success"
  THEN /\ Goes(c, "claim") /\ answer' = [answer EXCEPT ![c] = "none"]
       /\ Views(c, NoEntry) /\ Sights(c, 0) /\ doubt' = [doubt EXCEPT ![c] = 0]
  ELSE Answers(c, a)

\* #settleWithNode returns a: the session is closed first.
Leaves(c, a) ==
  /\ Goes(c, "leave") /\ answer' = [answer EXCEPT ![c] = a]

\* Something throws.  Closing a session may poison the SDK on top of it.
Throws(c, d) ==
  /\ Goes(c, "fail") /\ Views(c, NoEntry) /\ Sights(c, 0) /\ Doubts(c, d)
  /\ IF At(c, "session") \/ At(c, "journal")
     THEN UNCHANGED poisoned ELSE poisoned' \in {poisoned, TRUE}
  /\ UNCHANGED <<answer, maint>>

\* A journal write: done; or reported as failed, which it may be or not.
Writes(c, r) == journal' = [journal EXCEPT ![Of(c)] = r]
FailsToWrite(c, r) ==
  \/ UNCHANGED journal
  \/ Writes(c, r)

world == <<chain, published, handled>>

-----------------------------------------------------------------------------
\* Who holds what.

QueueFree(s, payer) ==
  /\ \A p \in Payments :
       ~ (PayerOf[p] = payer /\ pc[<<s, p>>] \in InQueue)
  /\ ~ (maint[s].step \in {"session", "look", "write"}
          /\ PayerOf[maint[s].p] = payer)

SessionFree ==
  /\ \A c \in Calls : pc[c] \notin InSession
  /\ \A s \in Servers : maint[s].step \notin {"look", "write"}

-----------------------------------------------------------------------------
\* Before the session.

Submit(c) ==
  /\ At(c, "idle")
  /\ Goes(c, "queue")
  /\ answer' = [answer EXCEPT ![c] = "none"]
  /\ UNCHANGED <<journal, world, poisoned, view, seen, doubt, maint>>

EnterQueue(c) ==
  /\ At(c, "queue") /\ QueueFree(c[1], PayerOf[Of(c)])
  /\ Goes(c, "journal")
  /\ UNCHANGED <<journal, world, poisoned, view, seen, doubt, answer, maint>>

(***************************************************************************)
(* terminalJournalSettlement: a record that needs no node any more.  A     *)
(* claimed delivery is reported as an inclusion whose delivery is          *)
(* uncertain; thresholdPendingEvidence takes every failed inclusion under  *)
(* a requirement for more than one confirmation for a malformed threshold  *)
(* report, and the client gets an internal error.                          *)
(***************************************************************************)
FailedInclusion == IF MinConfs > 1 THEN "internal" ELSE "recovery"

Recovered(r) == r.delivery # "NONE" \/ Enough(r, MinConfs)

RecoveredAnswer(r) ==
  CASE r.delivery = "DELIVERED" -> "delivered"
    [] r.delivery = "PENDING" -> FailedInclusion
    [] OTHER -> "success"

ReadJournal(c) ==
  /\ At(c, "journal")
  /\ LET r == journal[Of(c)] IN
     \/ /\ IF r.kind = "tombstone" THEN Answers(c, "terminal")
           ELSE IF Recovered(r) THEN Returns(c, RecoveredAnswer(r))
           ELSE /\ Goes(c, "session") /\ Doubts(c, RecordDoubt(r))
                /\ UNCHANGED <<view, seen, answer>>
        /\ UNCHANGED <<poisoned, maint>>
     \/ Throws(c, 1)
  /\ UNCHANGED <<journal, world>>

EnterSession(c) ==
  /\ At(c, "session") /\ ~poisoned /\ SessionFree
  /\ Goes(c, "reread")
  /\ UNCHANGED <<journal, world, poisoned, view, seen, doubt, answer, maint>>

\* A poisoned runtime turns away whoever waits and whoever comes.
SessionRefused(c) ==
  /\ At(c, "session") /\ poisoned
  /\ Throws(c, 1)
  /\ UNCHANGED <<journal, world>>

-----------------------------------------------------------------------------
\* Inside the session: what the node and the journal say.

Reread(c) ==
  /\ At(c, "reread")
  /\ LET r == journal[Of(c)] IN
       IF r.kind = "tombstone"
       THEN Leaves(c, "terminal") /\ UNCHANGED <<view, doubt>>
       ELSE /\ Goes(c, "lookup") /\ Views(c, r) /\ Doubts(c, RecordDoubt(r))
            /\ UNCHANGED answer
  /\ UNCHANGED <<journal, world, poisoned, seen, maint>>

SubThreshold(r) ==
  /\ r.kind = "record" /\ r.evidence = "INCLUDED" /\ r.delivery = "NONE"
  /\ ~ Enough(r, MinConfs)

Lookup(c) ==
  /\ At(c, "lookup")
  /\ \E o \in Sees(Of(c)) :
       /\ Sights(c, o) /\ Doubts(c, SeenDoubt(o))
       /\ Goes(c, IF view[c].kind = "none" /\ o = 0 THEN "balance" ELSE "decide")
  /\ UNCHANGED <<journal, world, poisoned, view, answer, maint>>

\* A known inclusion outlives a lookup that fails, even one that times out.
LookupFails(c) ==
  /\ At(c, "lookup") /\ SubThreshold(view[c])
  /\ Leaves(c, "recovery")
  /\ poisoned' \in {poisoned, TRUE}
  /\ UNCHANGED <<journal, world, view, seen, doubt, maint>>

\* The balance was read in between; the transaction is looked up once more,
\* and the journal read again if it is still nowhere.
Balance(c) ==
  /\ At(c, "balance")
  /\ \E o \in Sees(Of(c)) :
       /\ Sights(c, o)
       /\ LET r == IF o = 0 THEN journal[Of(c)] ELSE view[c] IN
            Views(c, r) /\ Doubts(c, Worse(SeenDoubt(o), RecordDoubt(r)))
  /\ Goes(c, "decide")
  /\ UNCHANGED <<journal, world, poisoned, answer, maint>>

(***************************************************************************)
(* A node call that throws: not ready, out of reach, too late (d = 1, the  *)
(* client may retry), or a chain, an asset, a balance or a frontier that   *)
(* rules the payment out (d = 0).  At reread it is the readiness of the    *)
(* node, or the check of chain and asset that comes before the lookup.     *)
(***************************************************************************)
NodeFails(c) ==
  /\ \E d \in {0, 1} :
       /\ \/ pc[c] \in {"reread", "balance", "frontier", "publish"}
          \/ d = 1 /\ At(c, "lookup") /\ ~ SubThreshold(view[c])
          \/ d = 1 /\ At(c, "wait")
       /\ Throws(c, d)
  /\ UNCHANGED <<journal, world>>

-----------------------------------------------------------------------------
\* Inside the session: what is done about it.

Decide(c) ==
  /\ At(c, "decide")
  /\ LET r == view[c]
         o == seen[c]
         undecided == r.kind = "none" \/ r.evidence = "VALIDATED"
     IN IF Recovered(r)
        THEN Leaves(c, RecoveredAnswer(r))
        ELSE IF SubThreshold(r)
        THEN IF Confirmations(o) > r.confs
             THEN Goes(c, "momentum") /\ UNCHANGED answer
             ELSE Leaves(c, "recovery")
        ELSE IF o = 0 /\ ~undecided /\ MinConfs > 1
        THEN Leaves(c, "recovery")
        ELSE /\ Goes(c, IF o # 0 THEN "record"
                        ELSE IF undecided THEN "frontier" ELSE "wait")
             /\ UNCHANGED answer
  /\ UNCHANGED <<journal, world, poisoned, view, seen, doubt, maint>>

\* The payer's frontier and unconfirmed blocks leave room for the payment.
Frontier(c) ==
  /\ At(c, "frontier")
  /\ Goes(c, "record")
  /\ UNCHANGED <<journal, world, poisoned, view, seen, doubt, answer, maint>>

Records == {p \in Payments : journal[p].kind = "record"}

\* What follows a record; only a VALIDATED one may be published (again).
Proceeds(c, r) ==
  IF Recovered(r)
  THEN Leaves(c, RecoveredAnswer(r))
  ELSE /\ Goes(c, IF seen[c] > 2 THEN "momentum"
                  ELSE IF seen[c] = 2 THEN "noteSeen"
                  ELSE IF r.evidence = "VALIDATED" THEN "publish" ELSE "wait")
       /\ UNCHANGED answer

\* Slip: a full journal makes room for the new record.
RecordEvicting(c) ==
  /\ At(c, "record")
  /\ journal' = [p \in Payments |-> IF p = Of(c) THEN NewRecord ELSE NoEntry]
  /\ Views(c, NewRecord) /\ Doubts(c, 1) /\ Proceeds(c, NewRecord)
  /\ UNCHANGED <<world, poisoned, seen, maint>>

\* #ensureValidatedRecord: nothing is published that is not on disk.
Record(c) ==
  /\ At(c, "record")
  /\ LET now == journal[Of(c)]
         r == IF now.kind = "none" THEN NewRecord ELSE now
     IN IF view[c].kind = "record"
        THEN /\ Proceeds(c, view[c])
             /\ UNCHANGED <<journal, poisoned, view, seen, doubt, maint>>
        ELSE IF \/ now.kind = "tombstone"
                \/ now.kind = "none" /\ Cardinality(Records) >= MaxRecords
        THEN Throws(c, 0) /\ UNCHANGED journal
        ELSE \/ /\ Writes(c, r)
                /\ Views(c, r) /\ Doubts(c, RecordDoubt(r)) /\ Proceeds(c, r)
                /\ UNCHANGED <<poisoned, seen, maint>>
             \/ Throws(c, 1) /\ FailsToWrite(c, r)
  /\ UNCHANGED world

\* The request leaves for the node; whether it gets there is another matter.
Publish(c) ==
  /\ At(c, "publish")
  /\ published' = [published EXCEPT ![Of(c)] = TRUE]
  /\ chain' \in {chain, [chain EXCEPT ![Of(c)] = Worse(@, 1)]}
  /\ Goes(c, "sending")
  /\ UNCHANGED <<journal, handled, poisoned, view, seen, doubt, answer, maint>>

\* ensurePublished: the node took it; or it refused, and is asked what it has.
PublishReturns(c) ==
  /\ At(c, "sending")
  /\ \/ chain[Of(c)] >= 2 /\ Goes(c, "noteSent") /\ UNCHANGED seen
     \/ \E o \in Sees(Of(c)) :
          /\ Sights(c, o)
          /\ Goes(c, IF o > 2 THEN "momentum"
                     ELSE IF o = 2 THEN "noteSent" ELSE "noteUnknown")
  /\ UNCHANGED <<journal, world, poisoned, view, doubt, answer, maint>>

\* The deadline of the publication: the SDK cannot be used any more.
PublishTimesOut(c) ==
  /\ At(c, "sending")
  /\ poisoned' = TRUE
  /\ Goes(c, "noteUnknown")
  /\ UNCHANGED <<journal, world, view, seen, doubt, answer, maint>>

Noted == [noteUnknown |-> "UNKNOWN", noteSeen |-> "ACKNOWLEDGED",
          noteSent |-> "ACKNOWLEDGED"]

\* The outcome of the publication, or the sight of the block, is written down.
Note(c) ==
  /\ pc[c] \in DOMAIN Noted
  /\ LET r == Strengthened(journal[Of(c)], Noted[pc[c]], 0) IN
     \/ /\ Writes(c, r) /\ Views(c, r) /\ Doubts(c, 1)
        /\ IF At(c, "noteUnknown") \/ (At(c, "noteSeen") /\ MinConfs > 1)
           THEN Leaves(c, "recovery")
           ELSE Goes(c, "wait") /\ UNCHANGED answer
        /\ UNCHANGED <<poisoned, seen, maint>>
     \/ Throws(c, 1) /\ FailsToWrite(c, r)
  /\ UNCHANGED world

\* waitForMomentumInclusion polls until maxTimeoutSeconds have passed.
WaitEnds(c) ==
  /\ At(c, "wait")
  /\ \E o \in Sees(Of(c)) :
       /\ o > 2
       /\ Sights(c, o) /\ Goes(c, "momentum")
  /\ UNCHANGED <<journal, world, poisoned, view, doubt, answer, maint>>

WaitTimesOut(c) ==
  /\ At(c, "wait")
  /\ Leaves(c, "recovery")
  /\ UNCHANGED <<journal, world, poisoned, view, seen, doubt, maint>>

\* #recordMomentum, and includedSettlement of what it wrote.
Momentum(c) ==
  /\ At(c, "momentum")
  /\ LET n == Confirmations(seen[c])
         r == Strengthened(journal[Of(c)], "INCLUDED", n)
     IN \/ /\ ~ StrengthenRefused(journal[Of(c)], "INCLUDED", n)
           /\ Writes(c, r) /\ Views(c, r) /\ Doubts(c, 2)
           /\ Leaves(c, IF Enough(r, MinConfs) THEN "success" ELSE "recovery")
           /\ UNCHANGED <<poisoned, seen, maint>>
        \/ Throws(c, 2) /\ FailsToWrite(c, r)
  /\ UNCHANGED world

LeaveSession(c) ==
  /\ At(c, "leave")
  /\ Returns(c, answer[c])
  /\ UNCHANGED <<journal, world, poisoned, maint>>

\* The connection does not close cleanly: the result gives way to an error.
LeavingFails(c) ==
  /\ At(c, "leave") /\ ~poisoned
  /\ poisoned' = TRUE
  /\ Goes(c, "fail") /\ Views(c, NoEntry) /\ Sights(c, 0) /\ Doubts(c, 1)
  /\ answer' = [answer EXCEPT ![c] = "none"]
  /\ UNCHANGED <<journal, world, maint>>

\* What failed(...) becomes in the resource server.
FailureAnswer(d) ==
  IF d = 0 THEN "rejected" ELSE IF d = 1 THEN "recovery" ELSE FailedInclusion

\* Slip: the failure is reported without another look at the journal.
FailBlindly(c) ==
  /\ At(c, "fail")
  /\ Answers(c, FailureAnswer(doubt[c]))
  /\ UNCHANGED <<journal, world, poisoned, maint>>

\* The catch of #settleSerialized reads the journal before it answers.
Fail(c) ==
  /\ At(c, "fail")
  /\ LET r == journal[Of(c)]
         d == Worse(doubt[c], IF poisoned THEN 1 ELSE 0)
     IN \/ Answers(c, IF r.kind = "tombstone" THEN "terminal"
                      ELSE FailureAnswer(Worse(d, RecordDoubt(r))))
        \/ \E e \in {1, RecordDoubt(r)} :   \* a read that fails is a doubt
             Answers(c, FailureAnswer(Worse(Worse(d, 1), e)))
  /\ UNCHANGED <<journal, world, poisoned, maint>>

-----------------------------------------------------------------------------
\* Delivery: outside the queue and the session.

Claim(c) ==
  /\ At(c, "claim")
  /\ LET r == journal[Of(c)] IN
       IF r.delivery = "DELIVERED"
       THEN Answers(c, "delivered") /\ UNCHANGED journal
       ELSE IF ~ (Enough(r, MinConfs) /\ Claimable(r))
       THEN Answers(c, "recovery") /\ UNCHANGED journal
       ELSE \/ /\ Writes(c, Claimed(r)) /\ Goes(c, "handler")
               /\ UNCHANGED <<view, seen, doubt, answer>>
            \/ Answers(c, "recovery") /\ FailsToWrite(c, Claimed(r))
  /\ UNCHANGED <<world, poisoned, maint>>

\* The resource handler runs, to its end or until it throws.
Handle(c) ==
  /\ At(c, "handler")
  /\ handled' = [handled EXCEPT ![Of(c)] = @ + 1]
  /\ \/ Goes(c, "store") /\ UNCHANGED <<view, seen, doubt, answer>>
     \/ Answers(c, "recovery")
  /\ UNCHANGED <<journal, chain, published, poisoned, maint>>

\* Slip: the client has its response whether or not it was stored.
StoreRegardless(c) ==
  /\ At(c, "store")
  /\ Answers(c, "delivered")
  /\ FailsToWrite(c, Delivered(journal[Of(c)]))
  /\ UNCHANGED <<world, poisoned, maint>>

Store(c) ==
  /\ At(c, "store")
  /\ LET r == Delivered(journal[Of(c)]) IN
     \/ Writes(c, r) /\ Answers(c, "delivered")
     \/ FailsToWrite(c, r) /\ Answers(c, "recovery")
  /\ UNCHANGED <<world, poisoned, maint>>

-----------------------------------------------------------------------------
\* Reconciliation maintenance, one candidate at a time.

Maintains(s, step) == maint' = [maint EXCEPT ![s].step = step]
calls == <<pc, view, seen, doubt, answer>>

\* A record old enough, or any tombstone, is on the worklist as it was listed.
List(s, p) ==
  /\ maint[s].step = "idle"
  /\ RetentionEligible(journal[p]) \/ journal[p].kind = "tombstone"
  /\ maint' = [maint EXCEPT ![s] =
                 [step |-> "queued", p |-> p, entry |-> journal[p], seen |-> 0]]
  /\ UNCHANGED <<journal, world, poisoned, calls>>

MaintenanceQueued(s) ==
  /\ maint[s].step = "queued" /\ QueueFree(s, PayerOf[maint[s].p])
  /\ Maintains(s, "session")
  /\ UNCHANGED <<journal, world, poisoned, calls>>

MaintenanceEnters(s) ==
  /\ maint[s].step = "session"
  /\ \/ ~poisoned /\ SessionFree /\ Maintains(s, "look")
     \/ poisoned /\ maint' = [maint EXCEPT ![s] = Idle]
  /\ UNCHANGED <<journal, world, poisoned, calls>>

\* Is the entry now still the one that was listed?
SameCandidate(listed, now) ==
  \/ listed.kind = "record" /\ now = listed
  \/ listed.kind = "record" /\ now.kind = "tombstone"
     /\ now.evidence = listed.evidence
  \/ listed.kind = "tombstone" /\ now.kind = "tombstone"
     /\ now.evidence = listed.evidence

\* A fresh snapshot, and one lookup; a node that fails leaves all as it is.
MaintenanceLooks(s) ==
  /\ maint[s].step = "look"
  /\ LET now == journal[maint[s].p] IN
     \/ /\ SameCandidate(maint[s].entry, now)
        /\ \E o \in Sees(maint[s].p) :
             maint' = [maint EXCEPT ![s] = [step |-> "write", p |-> @.p,
                                            entry |-> now, seen |-> o]]
        /\ UNCHANGED poisoned
     \/ /\ maint' = [maint EXCEPT ![s] = Idle]
        /\ poisoned' \in {poisoned, TRUE}
  /\ UNCHANGED <<journal, world, calls>>

\* What the lookup makes of the entry.
Reconciled(e, o) ==
  IF e.kind = "tombstone"
  THEN IF o > 2 THEN WithLateInclusion(e, Confirmations(o)) ELSE e
  ELSE IF o > 2 THEN Strengthened(e, "INCLUDED", Confirmations(o))
  ELSE IF o = 2 THEN Strengthened(e, "ACKNOWLEDGED", 0)
  ELSE TombstoneOf(e)

\* The compare-and-replace: nothing is written over another's write.
MaintenanceWrites(s) ==
  /\ maint[s].step = "write"
  /\ LET m == maint[s] IN
     \/ UNCHANGED journal
     \/ /\ journal[m.p] = m.entry
        /\ journal' = [journal EXCEPT ![m.p] = Reconciled(m.entry, m.seen)]
  /\ maint' = [maint EXCEPT ![s] = Idle]
  /\ poisoned' \in {poisoned, TRUE}
  /\ UNCHANGED <<world, calls>>

-----------------------------------------------------------------------------
\* The world: the chain, other publishers of the block, crashes.

Stage(p, from, to) ==
  /\ chain[p] = from
  /\ chain' = [chain EXCEPT ![p] = to]
  /\ UNCHANGED <<journal, published, handled, process>>

Arrives(p) == Stage(p, 1, 2)
IsLost(p) == Stage(p, 1, 0)
\* Whoever holds the signed block may publish it.
PublishedElsewhere(p) == Stage(p, 0, 2)
Confirmed(p) == chain[p] \in 2 .. 1 + MaxConfs /\ Stage(p, chain[p], chain[p] + 1)

\* The process dies and is started again: only the journal is left.
Crash ==
  /\ process # <<FALSE, [c \in Calls |-> "idle"], view, seen, doubt, answer,
                 [s \in Servers |-> Idle]>>
  /\ poisoned' = FALSE
  /\ pc' = [c \in Calls |-> "idle"]
  /\ view' = [c \in Calls |-> NoEntry]
  /\ seen' = [c \in Calls |-> 0]
  /\ doubt' = [c \in Calls |-> 0]
  /\ answer' = [c \in Calls |-> IF At(c, "idle") THEN answer[c] ELSE "none"]
  /\ maint' = [s \in Servers |-> Idle]
  /\ UNCHANGED <<journal, world>>

-----------------------------------------------------------------------------
\* What a call does by itself once the queue and the session let it.
Works(c) ==
  \/ ReadJournal(c)
  \/ Reread(c) \/ Lookup(c) \/ LookupFails(c) \/ Balance(c) \/ NodeFails(c)
  \/ Decide(c) \/ Frontier(c) \/ Record(c)
  \/ Publish(c) \/ PublishReturns(c) \/ PublishTimesOut(c) \/ Note(c)
  \/ WaitEnds(c) \/ WaitTimesOut(c) \/ Momentum(c)
  \/ LeaveSession(c) \/ LeavingFails(c) \/ Fail(c)
  \/ Claim(c) \/ Store(c)

Maintenance(s) ==
  \/ MaintenanceEnters(s) \/ MaintenanceLooks(s) \/ MaintenanceWrites(s)

Environment ==
  \/ \E p \in Payments :
       Arrives(p) \/ IsLost(p) \/ PublishedElsewhere(p) \/ Confirmed(p)
  \/ Crash

Next ==
  \/ \E c \in Calls :
       \/ Submit(c) \/ EnterQueue(c) \/ EnterSession(c) \/ SessionRefused(c)
       \/ Works(c) \/ Handle(c)
  \/ \E s \in Maintainers :
       \/ \E p \in Payments : List(s, p)
       \/ MaintenanceQueued(s) \/ Maintenance(s)
  \/ Environment

Spec == Init /\ [][Next]_vars

(***************************************************************************)
(* Fairness: every await inside a settlement is a journal operation or an  *)
(* RPC with a deadline, so what has begun goes on; the payer queue and the *)
(* SDK serve in order of arrival, so whoever waits is not passed over for  *)
(* ever.  Nothing is assumed of the resource handler, the chain, the       *)
(* clients or the operator.                                                *)
(***************************************************************************)
FairSpec ==
  /\ Spec
  /\ \A c \in Calls :
       /\ WF_vars(Works(c))
       /\ SF_vars(EnterQueue(c))
       /\ SF_vars(EnterSession(c) \/ SessionRefused(c))
  /\ \A s \in Maintainers :
       /\ SF_vars(Maintenance(s))

-----------------------------------------------------------------------------
\* Properties.

\* The types of all variables.
TypeOK ==
  /\ journal \in [Payments -> Entry]
  /\ chain \in [Payments -> 0 .. 2 + MaxConfs]
  /\ published \in [Payments -> BOOLEAN]
  /\ handled \in [Payments -> Nat]
  /\ poisoned \in BOOLEAN
  /\ pc \in [Calls -> {"idle", "queue"} \cup InQueue \cup InDelivery]
  /\ view \in [Calls -> Entry]
  /\ seen \in [Calls -> {0} \cup 2 .. 2 + MaxConfs]
  /\ doubt \in [Calls -> 0 .. 2]
  /\ answer \in [Calls -> {"none", "success", "delivered", "recovery",
                           "internal", "rejected", "terminal"}]
  /\ maint \in [Servers -> [step : {"idle", "queued", "session", "look", "write"},
                            p : Payments \cup {"none"}, entry : Entry,
                            seen : {0} \cup 2 .. 2 + MaxConfs]]

(***************************************************************************)
(* A transaction this process may have published is in the journal, so     *)
(* that a restarted process finds it (#ensureValidatedRecord runs before   *)
(* ensurePublished, and records never vanish).                             *)
(***************************************************************************)
PublishedIsRecorded ==
  \A p \in Payments : published[p] => journal[p].kind # "none"

(***************************************************************************)
(* Maintenance never gives up on a payment that is being published, waited *)
(* for, or delivered (README: it takes the payer queue before the SDK and  *)
(* holds both through the final compare-and-replace).  And from the read   *)
(* that opens a session to its end, the evidence on record is what the     *)
(* session takes it to be: whoever else may change it needs the SDK first  *)
(* (the comment in #settleWithNode on discarding the pre-owner snapshot).  *)
(* Only the delivery may move meanwhile.                                   *)
(***************************************************************************)
NoPublicationCrossesTombstone ==
  \A c \in Calls :
    /\ pc[c] \in {"publish", "sending", "noteUnknown", "noteSeen", "noteSent",
                 "wait", "momentum"} \cup InDelivery =>
         journal[Of(c)].kind = "record"
    /\ pc[c] \in InSession \ {"reread", "leave"} =>
         view[c] = [journal[Of(c)] EXCEPT !.delivery = view[c].delivery]

(***************************************************************************)
(* An answer still holds after it was given: a delivered response can be   *)
(* had again, and a payment reported as terminally reconciled is and stays *)
(* one whose resource was never handed over (authorizeAndDeliver,          *)
(* terminalTombstoneSettlement).                                           *)
(***************************************************************************)
AnswersHonest ==
  /\ TypeOK
  /\ \A c \in Calls :
       /\ answer[c] = "delivered" => /\ journal[Of(c)].delivery = "DELIVERED"
                                    /\ handled[Of(c)] > 0
       /\ answer[c] = "terminal" => /\ journal[Of(c)].kind = "tombstone"
                                   /\ handled[Of(c)] = 0

(***************************************************************************)
(* A definite rejection is the facilitator's proof that publication and    *)
(* delivery were never attempted (definiteRejectionEvidence), by whatever  *)
(* server of the process, at the time it is given.                         *)
(***************************************************************************)
RejectedBeforePublication ==
  [][\A c \in Calls :
       answer'[c] = "rejected" /\ answer[c] # "rejected" =>
         ~ published[Of(c)] /\ handled[Of(c)] = 0]_vars

DeliveryRank == [NONE |-> 0, PENDING |-> 1, DELIVERED |-> 2]

\* What a step makes of an entry.
EvidenceIsKept(p) ==
  LET old == journal[p]
      new == journal'[p]
  IN CASE old.kind = "none" -> TRUE
       [] old.kind = "record" /\ new.kind = "record" ->
            /\ Rank[old.evidence] <= Rank[new.evidence]
            /\ old.confs <= new.confs
            /\ DeliveryRank[old.delivery] <= DeliveryRank[new.delivery]
       [] old.kind = "record" /\ new.kind # "record" ->
            RetentionEligible(old) /\ new = TombstoneOf(old)
       [] old.kind = "tombstone" ->
            \/ new = old
            \/ old.confs = 0 /\ new = [old EXCEPT !.confs = new.confs]

(***************************************************************************)
(* Known evidence is not downgraded (README): not by a lagging node, not   *)
(* by a slower server; a record becomes a tombstone only while nothing     *)
(* was included or claimed, and a tombstone keeps the first late inclusion *)
(* it was given.                                                           *)
(***************************************************************************)
EvidenceOnlyGrows == [][\A p \in Payments : EvidenceIsKept(p)]_vars

\* What PaidOnce sees of a payment, and of all of them.
StatusOf(r) ==
  CASE r.kind = "none" -> "unseen"
    [] r.kind = "tombstone" -> "closed"
    [] r.kind = "record" /\ r.delivery = "PENDING" -> "claimed"
    [] r.kind = "record" /\ r.delivery = "DELIVERED" -> "finished"
    [] OTHER -> "open"

status == [p \in Payments |-> StatusOf(journal[p])]
sent == {p \in Payments : published[p]}
confirmed == {p \in Payments : chain[p] >= 2 + MinConfs}

Promise == INSTANCE PaidOnce WITH published <- sent, handed <- handled

(***************************************************************************)
(* Whatever the servers, crashes and the network do, each payment goes the *)
(* way PaidOnce promises: published only once it is on record, and handed  *)
(* over once, and only when the chain has confirmed it as often as its     *)
(* requirement asks (README: delivery is eligible only when the observed   *)
(* count is at least N), although the count comes from a node that may     *)
(* lag, through a journal that keeps it across crashes.                    *)
(***************************************************************************)
PaidOnceKept == Promise!Spec

(***************************************************************************)
(* Every submitted call is answered (or dies with the process), or is in   *)
(* the hands of the resource handler; and a handler that never returns     *)
(* keeps nobody else waiting, the payer's other payments included.         *)
(***************************************************************************)
CallsAnswered ==
  \A c \in Calls :
    pc[c] \notin {"idle", "handler"} ~> pc[c] \in {"idle", "handler"}

(***************************************************************************)
(* docs/IMPLEMENTATION_PLAN.md, of the HTTP boundary: it "returns a        *)
(* distinct `409` recovery response for uncertain or pending outcomes".    *)
(* So a call that finds its delivery claimed does not end in a private     *)
(* internal error.  (It does, under a requirement for more than one        *)
(* confirmation: see FailedInclusion.)                                     *)
(***************************************************************************)
PendingGetsRecoveryResponse ==
  [][\A c \in Calls :
       journal[Of(c)].delivery = "PENDING" /\ answer[c] # "internal" =>
         answer'[c] # "internal"]_vars
=============================================================================
