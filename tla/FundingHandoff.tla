--------------------------- MODULE FundingHandoff ---------------------------
(***************************************************************************)
(* How one original-funding payment passes from the payer's disk to the    *)
(* provider's and on to the facilitator.                                   *)
(*                                                                         *)
(*   payer     the recovery owner and its store                            *)
(*             (service-credit-zenon-funding-post-v1-payer-recovery-*.js)  *)
(*             and the client it posts with (...-post-v1-client.js): the   *)
(*             signed payment is retained, the attempt is fenced, and only *)
(*             then is it posted;                                          *)
(*   posts     the HTTP requests under way, each of which may arrive late  *)
(*             or never; an answer to a connection given up is lost;       *)
(*   provider  the POST adapter (...-intake-http-post-v1.js), the intake   *)
(*             owner and its store (...-intake*.js), which bind one issued *)
(*             challenge to one signed payment, and the bridge             *)
(*             (...-publication-bridge.js), which hands the bound payment  *)
(*             to the facilitator.                                         *)
(*                                                                         *)
(* One selection, hence one challenge.  Several provider processes may     *)
(* share the intake store; the payer's store is locked by its one process. *)
(* External: the network, a second device of the holder that posts a       *)
(* payment of its own, the SDK that checks a payment (it may fail), the    *)
(* observer's file, the clock (it may go back) and the facilitator.        *)
(***************************************************************************)
EXTENDS Naturals, FiniteSets

CONSTANTS
  Providers,    \* provider processes with the adapter
  Publishers,   \* those of them that run the bridge too
  Own,          \* payments the payer's wallet signed for the challenge
  Foreign,      \* payments a second device of the holder signed for it
  MaxAttempts   \* posts of the payer

ASSUME PublishersAssumption == Publishers \subseteq Providers
ASSUME MaxAttemptsAssumption == MaxAttempts \in Nat \ {0}

Payments == Own \cup Foreign
None == "none"

ASSUME PaymentsAssumption == Own \cap Foreign = {} /\ None \notin Payments

Statuses == {None, "PREPARED", "ATTEMPT_FENCED", "OUTCOME_UNKNOWN", "BOUND",
             "PAYMENT_REJECTED", "PAYMENT_CONFLICT"}

VARIABLES
  custody,    \* the payer's row: [status, payment, ambiguous]
  payer,      \* its process: [phase, quarantined, step, record]
  attempts,   \* posts of the payer so far
  posts,      \* requests under way: [attempt, payment]; attempt 0 is the other device's
  answer,     \* the response on the connection of the payer's present attempt
  intake,     \* the provider's row: [status, payment]
  expired,    \* the clock is past the challenge's expiry
  provider,   \* provider[v]: [phase, distrusted, binding]
  bridge,     \* bridge[v]: [phase, holding]
  handed,     \* payments handed to facilitator.settle (history)
  sent        \* payments the payer has posted (history)

payerVars == <<custody, payer, attempts, sent>>
providerVars == <<intake, provider>>
bridgeVars == <<bridge, handed>>
vars == <<payerVars, posts, answer, providerVars, expired, bridgeVars>>

NoRow == [status |-> None, payment |-> None, ambiguous |-> FALSE]
Row(status, p, ambiguous) == [status |-> status, payment |-> p, ambiguous |-> ambiguous]
PayerDown == [phase |-> "DOWN", quarantined |-> FALSE, step |-> "idle", record |-> NoRow]
NoBinding == [payment |-> None, saw |-> None, waiting |-> {}]
ProviderUp == [phase |-> "NEW", distrusted |-> FALSE, binding |-> NoBinding]
BridgeUp == [phase |-> "NEW", holding |-> None]

Init ==
  /\ custody = NoRow /\ payer = PayerDown /\ attempts = 0
  /\ posts = {} /\ answer = None
  /\ intake = [status |-> None, payment |-> None] /\ expired = FALSE
  /\ provider = [v \in Providers |-> ProviderUp]
  /\ bridge = [v \in Publishers |-> BridgeUp]
  /\ handed = {} /\ sent = {}

----------------------------------------------------------------------------
(* The payer.  Any failure of its store, and any answer it could not drain *)
(* in time, quarantines the owner until another process is started.        *)

Idle == payer.phase = "RECOVERED" /\ ~payer.quarantined /\ payer.step = "idle"

(* The store's transaction: committed and acknowledged; or not, and then   *)
(* the owner does not know whether it was committed.                       *)
Commit(row, done) ==
  \/ custody' = row /\ payer' = done
  \/ /\ \E c \in {custody, row} : custody' = c
     /\ payer' = [payer EXCEPT !.quarantined = TRUE, !.step = "idle"]

OpenOwner ==
  /\ payer.phase = "DOWN"
  /\ payer' = [PayerDown EXCEPT !.phase = "NEW"]
  /\ UNCHANGED <<custody, attempts, sent>>

(* recover(): an attempt found fenced may have been posted.                *)
Recovered(c) ==
  IF c.status = "ATTEMPT_FENCED" THEN Row("OUTCOME_UNKNOWN", c.payment, TRUE) ELSE c

Recover ==
  /\ payer.phase = "NEW" /\ ~payer.quarantined
  /\ Commit(Recovered(custody),
            [payer EXCEPT !.phase = "RECOVERED", !.record = Recovered(custody)])
  /\ UNCHANGED <<attempts, sent>>

(* Slip for the mutants: a later pair replaces the one retained.           *)
PrepareAgain(p) ==
  /\ Idle /\ intake.status # None
  /\ Commit(Row("PREPARED", p, FALSE), [payer EXCEPT !.record = Row("PREPARED", p, FALSE)])
  /\ UNCHANGED <<attempts, sent>>

(* prepare(): the first pair is kept; another one is a conflict.           *)
Prepare(p) ==
  /\ Idle /\ intake.status # None
  /\ custody.status = None \/ custody.payment = p
  /\ LET row == IF custody.status = None THEN Row("PREPARED", p, FALSE) ELSE custody
     IN  Commit(row, [payer EXCEPT !.record = row])
  /\ UNCHANGED <<attempts, sent>>

(* submitPrepared() and replayUnknown(), up to the check of the record,    *)
(* which is awaited.                                                       *)
BeginAttempt ==
  /\ Idle /\ attempts < MaxAttempts
  /\ payer.record.status \in {"PREPARED", "OUTCOME_UNKNOWN"}
  /\ payer' = [payer EXCEPT !.step = "checking"]
  /\ UNCHANGED <<custody, attempts, sent>>

CheckFails ==
  /\ payer.step = "checking"
  /\ payer' = [payer EXCEPT !.step = "idle", !.quarantined = TRUE]
  /\ UNCHANGED <<custody, attempts, sent>>

(* Slip for the mutants: every attempt starts without a doubt.             *)
FencedAfresh(c) == Row("ATTEMPT_FENCED", c.payment, FALSE)

(* fenceAttempt(): durable before anything is posted.                      *)
Fenced(c) ==
  Row("ATTEMPT_FENCED", c.payment, c.ambiguous \/ c.status = "OUTCOME_UNKNOWN")

FenceAttempt ==
  /\ payer.step = "checking" /\ custody.status = payer.record.status
  /\ Commit(Fenced(custody),
            [payer EXCEPT !.step = "posting", !.record = Fenced(custody)])
  /\ UNCHANGED <<attempts, sent>>

(* The client's own check passed and fetch was called.                     *)
Post ==
  /\ payer.step = "posting"
  /\ payer' = [payer EXCEPT !.step = "awaiting"]
  /\ attempts' = attempts + 1
  /\ posts' = posts \cup {[attempt |-> attempts + 1, payment |-> payer.record.payment]}
  /\ sent' = sent \cup {payer.record.payment}
  /\ UNCHANGED custody

(* The status an answer stands for: a refusal counts only when no earlier  *)
(* attempt is in doubt.                                                    *)
StatusOf(code, ambiguous) ==
  CASE code = "bound" -> "BOUND"
    [] code = "badRequest" /\ ~ambiguous -> "PAYMENT_REJECTED"
    [] code = "conflict" /\ ~ambiguous -> "PAYMENT_CONFLICT"
    [] OTHER -> "OUTCOME_UNKNOWN"

(* finishAttempt(), and the bounded wait for the client to drain.          *)
FinishAttempt(code) ==
  LET status == StatusOf(code, payer.record.ambiguous)
      row == Row(status, payer.record.payment,
                 payer.record.ambiguous \/ status = "OUTCOME_UNKNOWN")
  IN  /\ custody.status = "ATTEMPT_FENCED"
      /\ \E drained \in BOOLEAN :
           Commit(row, [payer EXCEPT !.step = "idle", !.record = row, !.quarantined = ~drained])
      /\ UNCHANGED <<attempts, sent>>

Answered ==
  /\ payer.step = "awaiting" /\ answer # None
  /\ FinishAttempt(answer)

(* The client refused the pair before it called fetch; or fetch failed, or *)
(* the deadline passed: the post may arrive later, its answer is not read. *)
GiveUp ==
  /\ payer.step \in {"posting", "awaiting"}
  /\ FinishAttempt("none")

(* The process dies, or close() ends it after the attempt it waits for.    *)
PayerStops ==
  /\ payer.phase # "DOWN"
  /\ payer' = PayerDown
  /\ UNCHANGED <<custody, attempts, sent>>

PayerStep ==
  \/ /\ \/ OpenOwner \/ Recover \/ BeginAttempt \/ CheckFails \/ FenceAttempt
        \/ Answered \/ GiveUp \/ PayerStops
        \/ \E p \in Own : Prepare(p)
     /\ answer' = IF payer'.step = "awaiting" THEN answer ELSE None
     /\ UNCHANGED posts
  \/ Post /\ UNCHANGED answer

----------------------------------------------------------------------------
(* The provider.                                                           *)

OtherDevicePosts ==
  /\ intake.status # None
  /\ \E p \in Foreign : posts' = posts \cup {[attempt |-> 0, payment |-> p]}

Connected(n) == n = attempts /\ payer.step = "awaiting"
Reply(ns, code) ==
  answer' = IF \E n \in ns : Connected(n) THEN code ELSE answer
Silent == UNCHANGED answer

(* recover(): every bound row must have its observer.                      *)
AdapterRecovers(v) ==
  /\ provider[v].phase = "NEW"
  /\ \/ provider' = [provider EXCEPT ![v].phase = "RECOVERED"]
     \/ provider' = [provider EXCEPT ![v].phase = "RECOVERY_REQUIRED"]
  /\ UNCHANGED <<intake, posts, answer>>

Free(v) == provider[v].phase = "RECOVERED" /\ provider[v].binding = NoBinding

(* A request without a payment: the challenge is issued once.              *)
IssueFixed(v) ==
  /\ Free(v) /\ ~provider[v].distrusted
  /\ intake.status = None /\ ~expired
  /\ \/ intake' = [intake EXCEPT !.status = "ISSUED"] /\ UNCHANGED provider
     \/ /\ \E status \in {None, "ISSUED"} : intake' = [intake EXCEPT !.status = status]
        /\ provider' = [provider EXCEPT ![v].phase = "RECOVERY_REQUIRED", ![v].distrusted = TRUE]
  /\ UNCHANGED <<posts, answer>>

(* A request with a payment.  One binding at a time; a request with the    *)
(* same header joins it.                                                   *)
Begins(v, post) ==
  /\ Free(v) /\ ~provider[v].distrusted
  /\ intake.status = "ISSUED" => ~expired
  /\ provider' = [provider EXCEPT ![v].binding =
       [payment |-> post.payment, saw |-> intake.status, waiting |-> {post.attempt} \ {0}]]
  /\ Silent

Joins(v, post) ==
  /\ provider[v].phase = "RECOVERED"
  /\ provider[v].binding.payment = post.payment
  /\ provider' = [provider EXCEPT ![v].binding.waiting = @ \cup ({post.attempt} \ {0})]
  /\ Silent

InConflict(v, post) ==
  /\ provider[v].phase = "RECOVERED"
  /\ \/ provider[v].binding.payment \notin {None, post.payment}
     \/ Free(v) /\ ~provider[v].distrusted /\ intake.status = "ISSUED" /\ expired
  /\ Reply({post.attempt}, "conflict")
  /\ UNCHANGED provider

(* The store could not be read: while issuing, or for the payment's hint;  *)
(* or the adapter admits nothing.                                          *)
NotServed(v, post) ==
  \/ /\ provider[v].phase # "RECOVERED" \/ (Free(v) /\ provider[v].distrusted)
     /\ Reply({post.attempt}, "unavailable")
     /\ UNCHANGED provider
  \/ /\ Free(v) /\ ~provider[v].distrusted
     /\ \E code \in {"unavailable", "badRequest"} : Reply({post.attempt}, code)
     /\ provider' = [provider EXCEPT ![v].distrusted = TRUE]

Receive(v) ==
  \E post \in posts :
    /\ Begins(v, post) \/ Joins(v, post) \/ InConflict(v, post) \/ NotServed(v, post)
    /\ posts' = posts \ {post}
    /\ UNCHANGED intake

(* bind(), after the payment was checked: what settleBinding() answers to *)
(* everyone who waits for it.                                              *)
Ended(v, code) ==
  /\ Reply(provider[v].binding.waiting, code)
  /\ provider' = [provider EXCEPT ![v].binding = NoBinding]

EndedUnread(v) ==             \* the row could not be read again
  /\ Reply(provider[v].binding.waiting, "badRequest")
  /\ provider' = [provider EXCEPT ![v].binding = NoBinding, ![v].distrusted = TRUE]

EndedInDoubt(v, distrusted) ==
  /\ Reply(provider[v].binding.waiting, "unavailable")
  /\ provider' = [provider EXCEPT ![v].binding = NoBinding,
                                  ![v].phase = "RECOVERY_REQUIRED",
                                  ![v].distrusted = @ \/ distrusted]

Bound(p) == [status |-> "BOUND", payment |-> p]
Lapsed(v) == provider[v].binding.saw = "ISSUED" /\ expired
(* Slip for the mutants: a row is bound as long as it was read unbound.    *)
TakenWhenRead(p) == FALSE
Taken(p) == intake.status = "BOUND" /\ intake.payment # p

BindRefused(v) ==
  /\ provider[v].binding # NoBinding
  /\ \/ Lapsed(v) /\ Ended(v, "conflict")
     \/ Ended(v, "badRequest")    \* the check or the transaction failed
     \/ EndedUnread(v)
     \/ ~Lapsed(v) /\ Taken(provider[v].binding.payment) /\ Ended(v, "conflict")
  /\ UNCHANGED <<intake, posts>>

BindCommits(v) ==
  LET p == provider[v].binding.payment
  IN  /\ p # None /\ ~Lapsed(v) /\ ~Taken(p)
      /\ intake' = Bound(p)
      /\ Ended(v, "bound") \/ EndedInDoubt(v, FALSE)  \* the observer exists; or not for sure
      /\ UNCHANGED posts

CommitInDoubt(v) ==
  LET p == provider[v].binding.payment
  IN  /\ p # None /\ ~Lapsed(v) /\ ~Taken(p)
      /\ \E row \in {intake, Bound(p)} : intake' = row
      /\ EndedInDoubt(v, TRUE)
      /\ UNCHANGED posts

(* close() of the adapter waits for the binding; a process may also die.   *)
ProviderStops(v) ==
  /\ provider' = [provider EXCEPT ![v] = ProviderUp]
  /\ bridge' = [w \in Publishers |-> IF w = v THEN BridgeUp ELSE bridge[w]]
  /\ UNCHANGED <<intake, posts, answer, handed>>

----------------------------------------------------------------------------
(* The bridge: a row is read, checked, and what was read is handed over.   *)

Readable(v) == intake.status = "BOUND" /\ ~provider[v].distrusted

BridgeRecovers(v) ==
  /\ bridge[v].phase = "NEW" /\ Readable(v)
  /\ bridge' = [bridge EXCEPT ![v] = [phase |-> "RECOVERING", holding |-> intake.payment]]
  /\ UNCHANGED handed

RecoveryEnds(v) ==
  /\ bridge[v].phase = "RECOVERING"
  /\ \E phase \in {"RECOVERED", "QUARANTINED"} :
       bridge' = [bridge EXCEPT ![v] = [phase |-> phase, holding |-> None]]
  /\ UNCHANGED handed

SettleBound(v) ==
  /\ bridge[v].phase = "RECOVERED" /\ Readable(v)
  /\ bridge' = [bridge EXCEPT ![v] = [phase |-> "SETTLING", holding |-> intake.payment]]
  /\ UNCHANGED handed

Hand(v) ==
  /\ bridge[v].phase = "SETTLING" /\ bridge[v].holding # None
  /\ handed' = handed \cup {bridge[v].holding}
  /\ bridge' = [bridge EXCEPT ![v].holding = None]

SettlementEnds(v) ==
  /\ bridge[v].phase = "SETTLING"
  /\ \E phase \in {"RECOVERED", "QUARANTINED"} :
       /\ phase = "RECOVERED" => bridge[v].holding = None
       /\ bridge' = [bridge EXCEPT ![v] = [phase |-> phase, holding |-> None]]
  /\ UNCHANGED handed

(* The store fails a read, of the bridge's or an earlier one.              *)
ReadFails(v) ==
  /\ bridge[v].phase \in {"NEW", "RECOVERED"}
  /\ bridge' = [bridge EXCEPT ![v].phase = "QUARANTINED"]
  /\ provider' = [provider EXCEPT ![v].distrusted = TRUE]
  /\ UNCHANGED <<intake, handed>>

(* close(): the settlement under way is waited for, and nothing after it.  *)
BridgeCloses(v) ==
  /\ bridge[v].phase \in {"NEW", "RECOVERING", "RECOVERED", "SETTLING", "QUARANTINED"}
  /\ bridge' = [bridge EXCEPT ![v] = [phase |-> "CLOSED", holding |-> None]]
  /\ UNCHANGED handed

BridgeStep(v) ==
  \/ /\ \/ BridgeRecovers(v) \/ RecoveryEnds(v) \/ SettleBound(v)
        \/ Hand(v) \/ SettlementEnds(v) \/ BridgeCloses(v)
     /\ UNCHANGED providerVars
  \/ ReadFails(v)

----------------------------------------------------------------------------
AdapterStep(v) ==
  \/ AdapterRecovers(v) \/ IssueFixed(v) \/ Receive(v)
  \/ BindRefused(v) \/ BindCommits(v) \/ CommitInDoubt(v)

ClockMoves == expired' = ~expired

Next ==
  \/ PayerStep /\ UNCHANGED <<providerVars, expired, bridgeVars>>
  \/ /\ OtherDevicePosts
     /\ UNCHANGED <<payerVars, answer, providerVars, expired, bridgeVars>>
  \/ \E v \in Providers :
       \/ AdapterStep(v) /\ UNCHANGED <<payerVars, expired, bridgeVars>>
       \/ ProviderStops(v) /\ UNCHANGED <<payerVars, expired>>
  \/ \E v \in Publishers : BridgeStep(v) /\ UNCHANGED <<payerVars, posts, answer, expired>>
  \/ ClockMoves /\ UNCHANGED <<payerVars, posts, answer, providerVars, bridgeVars>>

Spec == Init /\ [][Next]_vars

----------------------------------------------------------------------------
PayerRows == [status : Statuses, payment : Own \cup {None}, ambiguous : BOOLEAN]

TypeOK ==
  /\ custody \in PayerRows
  /\ payer \in [phase : {"DOWN", "NEW", "RECOVERED"}, quarantined : BOOLEAN,
                step : {"idle", "checking", "posting", "awaiting"}, record : PayerRows]
  /\ attempts \in 0 .. MaxAttempts
  /\ posts \subseteq [attempt : 0 .. MaxAttempts, payment : Payments]
  /\ answer \in {None, "bound", "badRequest", "conflict", "unavailable"}
  /\ intake \in [status : {None, "ISSUED", "BOUND"}, payment : Payments \cup {None}]
  /\ provider \in [Providers ->
       [phase : {"NEW", "RECOVERED", "RECOVERY_REQUIRED"}, distrusted : BOOLEAN,
        binding : [payment : Payments \cup {None}, saw : {None, "ISSUED", "BOUND"},
                   waiting : SUBSET (1 .. MaxAttempts)]]]
  /\ bridge \in [Publishers ->
       [phase : {"NEW", "RECOVERING", "RECOVERED", "SETTLING", "QUARANTINED", "CLOSED"},
        holding : Payments \cup {None}]]
  /\ handed \subseteq Payments /\ sent \subseteq Own

(* stateInvariant() of the payer's store: what a status says of the doubt. *)
PayerRowConsistent ==
  /\ custody.status = "PREPARED" => ~custody.ambiguous
  /\ custody.status = "OUTCOME_UNKNOWN" => custody.ambiguous
  /\ custody.status \in {"PAYMENT_REJECTED", "PAYMENT_CONFLICT"} => ~custody.ambiguous

UnderWay(p) ==
  \/ \E post \in posts : post.payment = p
  \/ \E v \in Providers : provider[v].binding.payment = p

(* A refusal the payer has written down is final: its payment is not bound *)
(* and nothing that could still bind it is on its way, whatever was lost,  *)
(* delayed or restarted on either side.  So the holder may sign another    *)
(* payment (classifyPaymentResponse, lines 601 to 636 of the client, and   *)
(* finishAttempt of the store).                                            *)
RefusedIsUnbound ==
  /\ TypeOK /\ PayerRowConsistent
  /\ custody.status \in {"PAYMENT_REJECTED", "PAYMENT_CONFLICT"} =>
       /\ intake.payment # custody.payment
       /\ ~UnderWay(custody.payment)

(* Whatever the payer has posted is what its store retains, and the store  *)
(* knows that it may have been posted; a payment the store calls bound is  *)
(* the one the provider's row is bound to (prepare and fenceAttempt).      *)
PostedIsRetained ==
  /\ sent # {} => sent = {custody.payment} /\ custody.status # "PREPARED"
  /\ custody.status = "BOUND" => intake = Bound(custody.payment)

(* The facilitator is only ever handed the one payment the row is bound    *)
(* to, by any provider process, before or after a restart, and the row     *)
(* never binds another (bind of the store, settleBound of the bridge).     *)
HandedIsBound ==
  /\ handed # {} => intake.status = "BOUND" /\ handed = {intake.payment}
  /\ \A v \in Publishers : bridge[v].holding \in {None, intake.payment}
=============================================================================
