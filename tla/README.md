# A formal model of zenon-x402-poc

TLA+ models of the parts of this repository that decide about money: the
service-credit ledger, the durable execution of metered requests, the exact
settlement of one Zenon payment per resource, and, for payments that fund such
credit, the buyer's spending journal, the hand-off of the signed payment to the
provider, and the provider's observation of it on the chain. Two supporting
owners on which these rest are modelled as well: the dispatcher of payments to
child processes and the owner of deadline timers. TLC checks the models on
small instances; TLAPS proves every safety property the runs check, and the
refinements, for every value of the constants. Paths such as
`service-credit-model.js` are below `src/src/`; a line number after a colon is a
line of that file.

Run inside `tla/`: `tlc -workers 2 -config Settlement.cfg MCExactSettlement`
checks a run, `tlapm ExactSettlementProofs.tla` the proofs of a module (one to a
few minutes each).
`PROJECT.json` lists, in machine-readable form, the components, the runs, for
each definition the source lines it stands for, for each property a plausible
slip in the code that breaks it (the operators marked `Slip:`), the hazards,
and the theorems.

## The system

| component | state it keeps | operations | talks to |
| --- | --- | --- | --- |
| **Service-credit ledger** `service-credit-model.js` | offers, grants with three unit counters, three identity indexes, request records (all in memory) | registerOffer, activateGrantFromTrustedRecord, revokeGrant, reserveRequest, beginExecution, completeExecution, releaseBeforeExecution, markOutcomeUnknown, two reconciliations, exportState/fromState | the store, which keeps its snapshot; a pricing and a clock callback |
| **SQLite store** `service-credit-sqlite-store.js` | one row: revision, ledger, execution generation | each ledger operation as a transaction, plus initialise, claim, prepare, fence, complete, markUnknown, recover | used by several owners and processes |
| **Execution contract** `service-credit-execution-contract.js` | the generation: executions, seal | prepare, fence, complete, markUnknown, recover, as functions from state to state | called inside the store's transactions |
| **Execution owner and revision owner** `service-credit-durable-execution-owner.js`, `service-credit-execution-revision-owner.js` | the active run, its timer, quarantine; the last revision written | run, the application callback, the deadline | store, application, timers |
| **Settlement journal** `settlement-journal.js` | a file of records and tombstones, one per payment | putValidated, updateEvidence, markDeliveryPending, markDelivered, compareAndUpdateEvidence, replaceRecordWithTombstone, recordLateMomentumEvidence | every facilitator of the process |
| **Exact facilitator** `zenon-payment.js` | payer queues, maintenance worklist | verify, settle, markDeliveryPending, markDelivered, runReconciliationMaintenance | journal, live runtime, node |
| **Live SDK runtime** `live-runtime.js` | who owns the SDK, who waits, poisoned or not | runExclusive, the RPC deadline, poisoning | every facilitator of the process |
| **Resource server** `resource-server.js` | calls in flight, by payment | authorizeAndDeliver, converge | facilitator, resource handler, HTTP client |
| **Buyer** `buyer.js`, `x402-wire.js` | recovery owners | pay, reconcilePayment | resource servers |
| **Original-funding spending** `original-funding-spending-*.js`, `zenon/sdk105-spending-bounded-client.js` | a payer's budget, the payments reserved against it and what was signed, on disk; each client's copy of it | reserve, sign, retain, observe, close, transfer of ownership | signer, wallet, funding POST |
| **Payer recovery** `service-credit-zenon-funding-post-v1-payer-recovery-*.js` | the signed payment retained, and whether a post of it is in doubt | recover, prepare, submit, replay | the client that posts |
| **Funding intake and publication bridge** `service-credit-zenon-funding-intake*.js`, `...-publication-bridge.js` | ISSUED and BOUND challenges | issue, bind, hand over | payer, facilitator |
| **Funding observer** `service-credit-zenon-funding-observer-*.js`, `...-observation-producer.js` | Momentum cursor, inclusion, first threshold, attestation outbox | observe, page, attest | node, signing device, ledger |
| **Fixed-payer settlement** `zenon/fixed-payer-settlement-*.js` | the pending call, quarantine, the payment in doubt | dispatch, answer, retire | child processes |
| **Deadline owner** `service-credit-application-deadline-owner-core.js` | rows of armed timers | schedule, cancel, wake, close | timers and application |
| **Purchase order fulfilment** `service-purchase-*.js` | an order's liability | compare-and-swap | store |
| **Bounded ingress** `service-credit-bounded-*.js` | connections | admit, close | sockets |

The rest of the tree (command lines, demos, capacity and acceptance tooling, the
native attestor, profiles, planners) is listed in `PROJECT.json` with the reason
it is not modelled. Most of it keeps no state of its own.

### Which behaviours are hard

- *Two processes, one row.* Each step of a run is a separate SQLite transaction
  with a revision compare; a rival may claim, recover or revoke between any two.
- *A commit whose acknowledgement is lost.* The store reports a failure although
  the row changed.
- *A callback, a timer and a crash* race for the outcome of one execution.
- *A clock that goes back*, read several times in one handler.
- *Several servers of one process* share the journal and the SDK: what a call
  read before it waited is old when it acts.
- *Publication is not transactional.* The node may take a payment and not say
  so, lag behind itself, or time out and poison the SDK for everybody.
- *Maintenance gives payments up* while clients still come back with them.
- *Capacity.* Journal, generation, policy and timers are bounded and nothing may
  be evicted.
- *Decisions on cached copies.* Two spending clients decide on the copy each
  read when it was built; only the exchange of the whole row keeps them apart.
- *A request that outlives its connection.* A funding post may arrive long after
  the payer gave it up, and be answered to nobody.
- *A chain that forks*, read through several requests to one node.
- *Everything calls back.* Actuators, clocks and callbacks re-enter the owner
  that called them.

## The modules

| module | models | lines of code it stands for |
| --- | --- | --- |
| `CreditGrants` | the arithmetic of one grant; no state | `service-credit-model.js` |
| `ServiceCreditModel` | the in-memory ledger | `service-credit-model.js` |
| `ServiceCreditModelProofs` | theorems about it | |
| `MeteredService` | abstract: what durable execution promises | |
| `DurableExecution` | store, contract, execution owners, revision owners, crashes | the four `service-credit-*` files above |
| `SettlementJournal` | what journal operations make of one entry; no state | `settlement-journal.js` |
| `PaidOnce` | abstract: what a payer is promised of one payment | |
| `ExactSettlement` | servers, facilitators, journal, SDK, node, maintenance, crashes | `zenon-payment.js`, `resource-server.js`, `live-runtime.js`, `settlement-journal.js` |
| `SpendingReservations` | the spending journal, its store, the clients on it | `original-funding-spending-*.js`, the bounded client, wallet owner and lifecycle |
| `FundingHandoff` | payer recovery, network, intake, publication bridge | `service-credit-zenon-funding-post-v1-*.js`, `...-intake*.js`, `...-publication-bridge.js` |
| `FundingObserver` | observer state, outbox, producers, signing operations | `...-funding-observer-*.js`, `...-observation-producer.js`, `...-provider-signing-operation.js` |
| `FixedPayerDispatcher` | one shard, its channel and its child | `zenon/fixed-payer-settlement-dispatcher.js`, `-child.js`, `payer-worker-admission.js` |
| `DeadlineOwner` | tickets, wakes and close, with re-entrance | `service-credit-application-deadline-owner-core.js` |
| `DurableExecutionProofs`, `ExactSettlementProofs`, `SpendingReservationsProofs`, `FundingHandoffProofs`, `FundingObserverProofs`, `FixedPayerDispatcherProofs`, `DeadlineOwnerProofs` | theorems about these | |
| `MC...` | instances for TLC | |

The components meet in data: a payment signed under `SpendingReservations` is
what `FundingHandoff` retains and posts, what it hands over is settled as in
`ExactSettlement`, what `FundingObserver` attests becomes an activation record of
`ServiceCreditModel`, whose units `DurableExecution` spends. Each of them takes
what comes from its neighbour as input of any admissible value, so none relies
on the order in which another acts.

### The ledger: `CreditGrants`, `ServiceCreditModel`

`grants`, `requests`, `offers` and the three indexes are the `Map`s of the class;
`clock` is the last value the clock callback returned and `authorizations`
counts the `executionAuthorized: true` answers (both are observers). One action
per public method that changes state. Handlers are atomic: a re-entrant call from
the price callback is refused (`#operationActive`, 1434-1466). A handler that
throws before any change is a stutter and has no action; one that throws *after*
a refresh has expired the grant leaves the expiry behind, and is a disjunct
(`ReadExpired`). An activation id is the digest of its record and a grant id the
digest of a description that contains it, so the record itself stands for both.
The clock is any member of `Times` at every reading, never compared with an
earlier one. `ReserveRequest` reads it twice, around the price callback, as the
code does. The restart is `Rehydratable`: what `fromState` recomputes and
refuses.

### Durable execution: `DurableExecution`, refining `MeteredService`

`revision`, `enabled`, `sealed`, `grants`, `reqs`, `execs` are the row; `pc`,
`job`, `at`, `claimed`, `latched`, `calling`, `cleanupCertain` are one execution
owner and its revision owner per process. A run goes `read, claim, confirm,
prepare, fence, arm, check, invoke, running`, then `complete` or `unknown`; in
"draining" the run's promise has settled and the owner is still active, because
its callback has not settled or its timer may be left. `ack` is whether the
writer learns of its commit (COMMIT_FAILED after the commit took effect when
false); `StoreFails` stands for every failure that wrote nothing, a stale
revision among them. What the code does and a reader might not expect:

- The revision owner holds for good when it meets STALE, so the branch of the
  execution owner that adopts the winner's revision is unreachable; the model
  has the hold (`latched`).
- A failing `assertCurrent` quarantines the owner and writes nothing: the
  execution stays MAY_HAVE_STARTED until somebody recovers the store.
- `recoverDurableExecutionsAfterRestart` is called by nothing outside the tests.
  It is an operator's action here, possible at any time, even while a live owner
  is between two steps.
- `prepare` rolls back a refresh that expired the grant when it refuses; the
  operations made by hand persist it.
- An abort dispatched after the callback settled reaches nobody and is not in
  `aborted`.
- A deadline timer whose `schedule` throws, or whose `cancel` throws or returns
  something, may still wake. `releaseWhenSafe` then never releases the owner,
  whatever settles later, and its `close()` never resolves
  (`test/service-credit-durable-execution-owner.test.js:931-966` expects this).
  `cleanupCertain` becomes false where that can happen: while the timer is armed
  or armed again, while it wakes, and while an answer or a failed check before
  the call stops it. Only the death of the process frees such an owner.

Identities, digests, seal reasons, results and content types are left out. Not
modelled of the owner: `close()`, which resolves when the owner is free (`pc` is
"idle"), and the rearming of a timer longer than one tick: a wake that only arms
the timer again changes nothing.

The refinement maps an execution to "none", "open", "charged", "released" or
"unresolved" and the calls made to `invoked`. `MeteredService` allows the call
to come *after* the outcome was given up, because the code does: recovery that
overtakes a live owner between its last check and the call cannot stop it.

### Settlement: `SettlementJournal`, `ExactSettlement`, refining `PaidOnce`

One process, as the journal requires (single process, single writer), with
several servers that share the journal and the SDK. A *call* is a pair of a
server and a payment: `converge` lets later arrivals share the answer of the
first. `pc[c]` names the await it stands at; `view[c]` is the record it read,
`seen[c]` what the node told it, `doubt[c]` what its attempt record knows that
forbids a definite rejection. `chain[p]` is where the transaction stands; a
lookup reports any stage it has been through, so a node may lag but the chain
never reorganises. `maint[s]` is the maintenance candidate in hand.

- Journal operations are atomic: they run in the writer queue of the file. A
  write may be reported as failed after it took effect (`FailsToWrite`).
- Two reads of one entry with no write of that call between them are one step;
  a record turns into a tombstone an hour after it was created at the earliest.
  The age itself is chosen freely (the wall clock may jump).
- The revision compare of maintenance is equality of the entry, plus a conflict
  at any time, because other payments raise the revision too.
- The FIFO queues are replaced by strong fairness where liveness is checked.
- Frontier, balance and asset checks are outcomes chosen freely.
- An identity conflict between two payments does not arise: the authorization
  key contains the transaction hash.
- `verify` changes nothing. Corrupt files, the buyer and the optional
  original-funding chain observer are not modelled.
  `compareAndUpdateEvidence` contains a confirmation advance for a record that
  is already an inclusion; its own guard (`settlement-journal.js:1289`) refuses
  such a record, so the branch never runs and has no counterpart.

Two protections proved redundant in one process when their removal was tried:
the rank rule of `updateEvidence`, and the reread of the journal inside the
session, each cover part of the other. The slips listed for `EvidenceOnlyGrows`
and `NoPublicationCrossesTombstone` are ones that no second protection hides.

### Spending: `SpendingReservations`

`journal` is the state row, `custody` the signer record of each payment (none,
intent, signed), `epoch` the epoch of the owner. A session is one assembly of
file owner, store, journal, wallet and client; `mem` is the copy of the row it
decides on. A reservation, an outcome and a signer record are one SQLite
transaction each, which may fail before it commits, or commit and say that it
failed (`lost`). `Decodes` is the reader of the row, with its sweep over the
days on which payments begin and end; `Transition` is what the store lets
through. `Attempt`, `Sign` and `Retain` are separate because the process may die
between the intent, the SDK's signature and the retained result. `ChildFails`
covers every rejection of the child's promise. An original is the digest of the
exact input; its amount is a constant. A signature is counted in `signed`, which
the code does not have.

### The hand-off of a funding payment: `FundingHandoff`

The payer's store is locked by its process; the provider's is shared by several.
`posts` are requests under way and stay there when the payer gives up, so that
each may arrive late, after a replay, or after another payment; `answer` exists
only for the connection the payer still waits on. Refusals that a provider
process gives because it lost trust in its store (`distrusted`) stay until it is
restarted. The bridge reads the row, checks it (a slow step) and hands over what
it read; recovery does the same at start. Of the owner's close only that it ends
the process is modelled, of the observer's file only whether the adapter can be
sure of it. A payment of `Foreign` belongs to a second device of the same holder,
and is never the payer's own: `RefusedIsUnbound` would fail otherwise, since a
refused payment could be posted again by someone else.

### The funding observer: `FundingObserver`

`history` is the chain, chosen once: where it forks, where the transaction is on
each branch, from where Momentums have version 2. A Momentum is a height and a
branch, which stands for its hash and everything below it. `record` is the
observer state and `outbox` the attestation in the same row. A producer's step
is up to four transactions; in between another producer may write, and each
transaction is refused when the revision it was computed from has moved. So the
read and the write of one transaction are one action, and a refused write, one
whose outcome is not known, a crash and a bad input all end the step (`Stops`).
A bundle may mix branches, one choice for each RPC: the local checks of the
producer (`Admitted`) refuse most mixtures, the comparisons of the observer keep
the rest out of the record. A node
that lags may answer that the transaction is not confirmed after it said where
it was; the record is then quarantined, evidence revoked: the code prefers this
to keeping a doubt, and the model shows it. A signing operation compares the
record before it writes to the device and after the answer. Two operations at
once yield EQUIVOCATED when the device answers differently, by design of the
store. Every write is validated by the code; `EvidenceHolds` shows that the
validation never has to refuse one.

### Dispatching: `FixedPayerDispatcher`

One shard. `calls[n]` is the call with sequence number n; it is answered when the
send was accepted, its callback came and the result arrived. The channel keeps
the order of frames and may break. Both sides keep, each for itself, the one
payment whose outcome is in doubt, by the same rule, from what they saw. The
facilitator behind the child is external; it is assumed never to call a payment
invalid in the same call in which it announced its publication
(`MayAnswer`), which is what `ExactSettlement` shows of it
(`RejectedBeforePublication`). A call whose frame exceeds 64 KiB is refused
*after* its sequence number was taken (`FrameTooLarge`): the child sees the gap
at the next call and the shard is quarantined. That costs the shard, nothing
else; `ChildKeepsUp` states the exception.

### Deadlines: `DeadlineOwner`

`stack` holds the owner's own calls that have not returned; whatever was called
by the innermost may call the owner again, so schedule, cancel, wake, close and
the clock nest in any order up to `MaxDepth`. `live`, `ran` and `withdrawn` are
history the code does not keep. A clock reading that ends badly after a clean
close moves the phase from CLOSED to CLOSE_UNKNOWN while the promise stays
resolved; `docs/P1_APPLICATION_DEADLINE_CORE.md` describes this, and
`CleanCloseIsClean` is about the promise.

## What the runs check

| run | instance | states | shows |
| --- | --- | --- | --- |
| `ServiceCreditModel` | 2 honest fundings and 3 that reuse one of their identities, 2 requests, 3 clock readings, prices 1-2 | 42,259 | counters, admission gate, lifecycle, identities bound once, restart |
| `DurableExecution` | 2 processes, 2 requests of one grant, `MaxRevision` 8 | 1,152,184 | at most one call, one current owner, and refinement of `MeteredService` |
| `LiveOwners` | 2 processes, 2 grants, room for one execution, `MaxRevision` 5 | 220,978 | row consistency at the capacity limit; every run settles; no owner is free while its callback runs or its timer may be left, and every other becomes free when callbacks settle |
| `Settlement` | 2 servers with maintenance, 1 payment, 2 of up to 3 confirmations | 557,068 | the safety properties, and refinement of `PaidOnce` |
| `JournalCapacity` | 1 server, 2 payments of one payer, room for one record | 1,148,428 | what is published is on record; nothing is evicted |
| `SdkSession` | 2 servers, 1 payment, 1 maintainer | 45,362 | every call is answered; a stuck handler keeps nobody from the SDK |
| `PendingDelivery` | 1 server, 1 payment, threshold 2 | violated | the finding below |
| `Spending` | 2 sessions, one of the single lane, 2 payments, 3 originals, 2 days, 2 epochs | 296,500 | the budget on every day; nothing signed twice; the row stays readable; history; the single lane |
| `FundingHandoff` | 2 providers, one with the bridge, 2 own payments and 1 of another device, 2 posts | 1,682,920 | a refusal is final; what was posted is retained; only the bound payment is handed over |
| `Observer` | 4 Momentums, pages of 2, 2 confirmations, 3 histories, 2 producers, 2 signers, 2 envelopes | 555,596 | what the row claims is true of one branch; what was signed is kept or revoked for good |
| `FixedPayer` | 3 calls about 3 payments, two of them of one transaction | 735,822 | no answer is another's; one payment in doubt at a time; every call is answered |
| `Deadlines` | 3 tickets, 2 at a time, nesting 4 | 39,378 | a clean close is clean; no callback too late; close settles |

Why the bounds are enough:

- The ledger's gate is global and pairwise, so two grants with two requests each
  reach each conflict; prices 1 and 2 on 3 units exhaust a grant; three clock
  readings lie before, between and after the two expiries, in any order.
- `MaxRevision` 8 leaves room for enabling, a claim and two full runs of three
  writes each, or for one run and several claims, recoveries or revocations by
  rivals. It stands for `Number.MAX_SAFE_INTEGER` and reaching it
  blocks writes, as in the code, so the limit itself is exercised as well.
- One payment is enough for what several servers can do to each other about it;
  two payments matter only where they compete for journal space
  (`JournalCapacity`, where they also share the payer queue). Three confirmations
  against a threshold of two distinguish too few, enough, and more than enough.
  The counters `handled` and `invocations` are not bounded by a guard: the model
  shows they stop at 1.
- Spending: amounts 1, 2 and 3 against `MaxPayment` 3, `MaxDaily` 3 and
  `MaxTotal` 4. The first two originals fit one day, the first and the last fit
  the total but not one day, the last two exceed the total. Two days are a day
  and a later one, which is what reservation and settlement compare. `MaxEpoch` 2
  is one transfer of ownership.
- Hand-off: two posts are an attempt and a replay; a second payment of the payer
  meets a first that may still be under way; one foreign payment takes the
  challenge. Two providers differ in what they read before they wrote.
- Observer: pages of two in a chain of four give a first page, a page that joins
  it and an end of the chain that is not the end of a page; two confirmations
  distinguish included and enough. The histories have the transaction on one
  branch only, on both at different heights with version 2 on one of them, and
  below the fork with version 2 on both.
- Dispatcher: three calls are a settlement, its doubt, and a replacement; two
  payments of one transaction differ in their terms only.
- Deadlines: three tickets of which two at a time, so that one is refused, one
  waits and one acts; deeper nesting repeats a call that is already inside.
- Symmetry is used only in runs of safety properties, over requests, processes,
  results, servers, payments, producers, signers and envelopes that an instance
  treats alike: both servers of `Settlement` run maintenance and all payments
  share one payer.
- Deadlock checking is off in four runs, where the system really stops: a ledger
  whose requests have ended and whose grants were revoked (`ServiceCreditModel`),
  an owner whose tickets are used up (`Deadlines`), a quarantined shard
  (`FixedPayer`), a quarantined record (`Observer`).

**Fairness.** `DurableExecution!FairSpec` assumes that the event loop runs the
next step of a run that was started and that an armed deadline timer fires:
weak fairness per process. Nothing is assumed of the application, of callers or
of a crashed process. `OwnerIsReleased` needs the application too, and says so:
weak fairness of its callbacks is the antecedent of its second part. That part
makes an exception of owners whose timer failed, which the first part
(`FreeOnlyWhenSafe`) in turn keeps from ever being released.
`ExactSettlement!FairSpec` assumes that whatever began goes on, because every
await inside a settlement is a journal operation or an RPC with a deadline; and
strong fairness of entering the payer queue and of obtaining the SDK, because
both queues are first-come-first-served. Nothing is assumed of handlers, chain,
clients or operators. `FixedPayerDispatcher!FairSpec` assumes the one timer the
dispatcher sets (`setTimeout`), and nothing of the child or the channel.
`DeadlineOwner` assumes that a call into a capability or a callback returns or
throws, as JavaScript calls do. No liveness is claimed of the spending journal,
of the hand-off (a replay is an operator's decision) or of the observer (a node
need not answer).

## What is proved

TLAPS checks these theorems for every value of the constants, from the
assumptions named in the modules and nothing else. Each module proves one
invariant inductive (`...Inv`), and the properties follow from it or from it and
one step. Eight modules hold the proofs; every invariant and every action
property that a run checks is stated by one of these theorems, and liveness by
none.

| module | theorem | property |
| --- | --- | --- |
| `ServiceCreditModelProofs` | `TypeCorrect`, `SerialExecutionHolds`, `AuthorizedAtMostOnceHolds`, `NeverOverspentHolds`, `RetiredGrantsOnlyDrainHolds`, `AdmittedBeforeExpiryHolds`, `RehydratableHolds`, `IdentitiesBindOnceHolds` | every property of run `ServiceCreditModel` |
| `DurableExecutionProofs` | `TypeCorrect`, `CalledAsRecordedHolds`, `CrossLinkedHolds`, `FreeOnlyWhenSafeHolds`, `OneCurrentOwnerHolds`, `SealFreezesLedgerHolds`, `PromiseKeptHolds` | every property but liveness, the first part of `OwnerIsReleased` and the refinement of `MeteredService` included |
| `ExactSettlementProofs` | `TypeCorrect`, `PublishedIsRecordedHolds`, `NoPublicationCrossesTombstoneHolds`, `AnswersHonestHolds`, `RejectedBeforePublicationHolds`, `EvidenceOnlyGrowsHolds`, `PaidOnceKeptHolds` | every property but liveness, refinement of `PaidOnce` included |
| `SpendingReservationsProofs` | `TypeCorrect`, `StoreStaysReadable`, `SignedOnceHolds`, `HistoryKeptHolds`, `LaneAdmitsAloneHolds`, `AdmittedIsReadableHolds`, `WithinBudgetHolds` | every property of run `Spending` |
| `FundingHandoffProofs` | `RefusedIsUnboundHolds`, `PostedIsRetainedHolds`, `HandedIsBoundHolds`, `BoundForGood` | all invariants; the last is stated only here |
| `FundingObserverProofs` | `EvidenceHoldsAlways`, `RevokedForGoodHolds` | both of its properties |
| `FixedPayerDispatcherProofs` | `TypeCorrect`, `AnswersAreServedHolds`, `OneDoubtAtATimeHolds`, `ChildKeepsUpHolds`, `DoubtIsLastAndKeptHolds` | every property but liveness |
| `DeadlineOwnerProofs` | `DeadlineInvHolds`, `TypeCorrect`, `CleanCloseIsCleanHolds`, `CalledInTimeHolds` | every property but liveness |

The assumptions on the constants are shapes and positive limits, which the code
validates when it is configured, and names that are not values: `None` is no
scope, body, result or payment, `"none"` no envelope. Two say something of the
world: `Own` and `Foreign` of the hand-off are disjoint (above), and the
histories of the observer agree below their fork. The sets need not be finite,
with three exceptions, where the code adds up over them: the request ids of a
grant (`RequestIdsAssumption`; `IDENTIFIER` in `service-credit-model.js:72` bounds
their length) and the payments and originals of a spending journal
(`FiniteAssumption`; `text` and `hash` in
`original-funding-spending-reservations.js:17-20` do). Over an infinite set a sum
has no meaning, and neither would the theorem.

**The ledger.** `SerialExecution` and `AuthorizedAtMostOnce` are inductive with
`Counted`: the number of authorisations is a function of the request's state. A
step into EXECUTING requires that nothing is unresolved and starts from
RESERVED, where the count is zero. `IdentitiesBindOnce` needs `IndexInv`: each
activated grant is the value of all three indexes at its own identities.
`NeverOverspent` needs more than itself: `consumeHeld` subtracts a price from
`heldUnits` without looking; that this stays non-negative holds because
`heldUnits` is the sum of the prices of the requests that hold units. A sum over
a set is a fold, whose value by definition depends on the order in which CHOOSE
takes the elements, so the invariant states it as an *additive measure*: some `m` on sets of request ids is 0 on
the empty set, grows by the weight of the id that is added, and
`heldUnits = m[RequestIds]` (`SumsTo`). `SumBounds` gives that each weight is at
most the sum and `SumUpdate` that changing one weight moves the sum by the
difference; the invariant (`AccountsInv`) then follows action by action.
`Rehydratable` speaks of the folds themselves: what a restart recomputes from the
requests is what the counters say. `SumMeasured` is the bridge: what
`MapThenSumSet` computes is the measure of the ids it adds. It is an induction on
finite sets, and since the library's induction theorems cannot be instantiated
here, it is done by a smallest counterexample: a family of sets of ids that is
not empty has a member of least cardinality (`SmallestIds`), and one id less is
then no counterexample. The two action properties
rest on the last reading of the clock: whatever was read before, a step that
holds units or authorises an execution has compared that one with the expiry.

**Durable execution.** An owner's own belief says nothing of the row, since a
rival may have written after its last check. `DurableInv` says what remains:
`OwnersInv`, that an owner that passed the fence has its execution on the row as
fenced, or given up; `RivalsInv`, that at most one owner holds the last revision,
and that no two passed the fence with one request; `CallsInv`, what the calls
made so far say of the row; `RowInv`, that ledger and generation tell one story;
`RoomInv`, the capacity. `FreeOnlyWhenSafe` follows from what `OwnersInv` says of
the steps at which a callback may run and a timer be left. In `PromiseKept` each action is a step of
`MeteredService` or a stutter: `Fence` is a stutter in time and a release after
the deadline, and `Invoke` is a call also when a rival has given the outcome up.

**Settlement.** `SettlementInv` has one part per entry of the journal
(`EntryOK`: chain and handler bear out what it says), per call (`CallOK`: what
the call still knows at the await where it stands), per maintenance candidate,
and `Exclusive`: one owner of the SDK, one delivery of a payment. What a session
read is what is on record, but for the delivery, which is claimed outside every
session; the claim needs an inclusion with enough confirmations, which no
maintenance may give up. `PaidOnceKept` maps each of the awaits' steps to a step
of `PaidOnce` or to a stutter.

**Spending.** A signature is unique because a row has one session at work on it
at most (`AtWork`, `AloneAtWork`), the one whose exchange wrote it: a
reservation needs a payment without a row, an intent one without an intent, and
only the session that stored it enters the SDK. `Decodes` is part of the
invariant without its sums being computed: whoever exchanges the row has decoded
the next one first.

The sums matter for the two other theorems, and are measures again
(`MeasureExists`, `MeasureMonotone`, `SumMeasured`; `SubsetsGrow` is the
induction, in the form: a family that has the empty set and grows by single
elements has every subset). `AdmittedIsReadable` is the question whether the
reader can refuse what reserve admitted. Reserve computes the total and what
counts on its own day; the reader sweeps over every day on which something began
or ended. On the last day the sweep adds what is counted on that day or less
(`LastDayPeak`); on an earlier one exactly what it added before the step
(`EarlierPeak`), since the new row begins later and a row that is settled now was
open on all days before. An outcome never raises what counts
(`ObserveReadable`). `WithinBudget` then follows from a readable row: what is
outstanding on any day is open on the last day before it on which one of these
rows began (`OutstandingWithin`); and what was signed of any set of originals is
at most what the rows of these originals reserve (`SignedWithin`), for each
signed original has a row of its own.

**The hand-off.** What a status of the payer's store says of the provider is
carried by everything in between: posts under way, bindings and those who wait
for them, the answer on the connection (`SentInv`, `HandInv`). A refusal is
final only on an attempt without a doubt, and there the payment is at one place
at most (`FirstInv`): posted and not received, or in one binding, or answered
for. Hence `RefusedInv`.

**The observer.** The record's claims rest on the page it applied last:
`ReceiptAgrees` says that the receipt's member is above the start of that page
and that the checkpoint was built on it. So a threshold reached when the member
is included counts from a start that had too few confirmations, and the first
threshold is the first. `PageJoins` is the step from one comparison, of the first
Momentum's parent with the checkpoint, to the whole page: a page is the answer
to one request, and so a run of one branch. The proof does not use the local checks
of the producer (`Admitted`), nor the comparison of a page's members with the
inclusion: the row stays true without them. They decide when a step is refused
and when a record is quarantined.

**The dispatcher.** Unless a call was refused after its admission (`NoGap`), the
dispatcher sends nothing before the last request was served; so the child is
never more than one frame behind, and both sides have made the same of every
answer but the last (`InStep`).

**The deadline owner.** The owner does not know which of its calls it is inside
of, only its rows, its set of active tickets and a count. `DeadlineInv` says what
each call in progress has left there: a ticket is in at most one of them
(`StackOK`), its row names the call (`Witnessed`), and a row that a wake ended
under its canceller has cost the owner its trust in the timers, so that no later
close can be clean; the count is the number of callbacks on the stack. A close
that finds nothing active, nothing counted and nothing doubted has therefore
overlooked no call, at any depth. `CalledInTime` follows step by step, for a step
that begins a callback pushes it on the stack.

Only model-checked is liveness (`RunSettles`, the second part of
`OwnerIsReleased`, `CallsAnswered`, `EveryCallSettles`, `CloseSettles`), which
rests on fairness and ENABLED, out of this prover's reach, and the violation that run `PendingDelivery` finds.

No module declares a RECURSIVE operator.

## Finding

With `minimumMomentumConfirmations` above one, a client that retries a payment
whose delivery is *pending* is answered 500 `internal_error` rather than the 409
recovery response that `docs/IMPLEMENTATION_PLAN.md:167` promises for uncertain
or pending outcomes. `terminalJournalSettlement` (`zenon-payment.js:2239-2252`)
reports the claimed delivery as a failed settlement in state MOMENTUM_INCLUDED;
`thresholdPendingEvidence` (`resource-server.js:477-504`) takes every such report
under a threshold above one for a threshold report and fails on its reason. With
the default threshold the same retry gets the 409. Nothing is lost or served
twice: the buyer treats either as an unknown outcome of the same payment. Run
`PendingDelivery`; in the model, `FailedInclusion`.

## Not modelled

- *The rest of the tree.* Of the implementation's lines most belong to command
  lines, operator gates, acceptance and capacity tooling, demos, parsing and
  validation of pure data, and sockets. They keep no state of their own beyond
  handles of the components above; a model of them would consist of their
  assumptions. `PROJECT.json` lists each with its reason.
- *Files and bytes.* A store that finds its file damaged, full or replaced
  refuses to work; every module has the refusal, none the reason.
- *Optional profiles* of the funding stores (grant queries, request custody,
  dispatch intents, outcome custody): tables beside the modelled rows, which add
  records and refusals of their own but no transition of the modelled rows.
- *Several selections in one intake store.* Their rows are independent but for
  collisions of identity and capacity.
- *Native code*: the attestor's key custody and the timers' binding.

## Plan

Done: the ledger; durable execution; settlement; spending; the funding hand-off
and observer; dispatcher and deadlines; the proofs of every safety property. What
is left to model, in order:

1. **Buyer** in front of `ExactSettlement`: recovery owners used once, an unknown
   outcome led back to the same payment.
2. **Purchase order fulfilment**: compare-and-swap of an order's liability.
3. **The payer queue with two payments** as a liveness question of its own: a
   stuck handler of one payment must not hold up the payer's next one.
4. **Ingress**: closing while requests are admitted.

Theorems left: the types of the hand-off and of the observer are parts of their
invariants, without a theorem of their own; `BoundForGood` of the hand-off could
become a property of its run.

The hazard of the buyer is in `PROJECT.json` with a note naming its item here.
