-------------------------- MODULE DurableExecution --------------------------
(***************************************************************************)
(* Durable metered execution: one SQLite row holds the credit ledger and   *)
(* the execution generation (src/service-credit-sqlite-store.js), every    *)
(* operation is one BEGIN IMMEDIATE transaction on it, and several         *)
(* processes run requests against it, each through its own execution owner *)
(* (src/service-credit-durable-execution-owner.js) and revision owner      *)
(* (src/service-credit-execution-revision-owner.js).                       *)
(*                                                                         *)
(* A run reads the revision, claims it once per process, prepares (reserve *)
(* and begin in one transaction), fences (from here the application may    *)
(* have started), checks that it is still current, calls the application,  *)
(* and records the outcome.  Every step is its own transaction; every      *)
(* write compares the revision it was given and raises it by one.          *)
(*                                                                         *)
(* Outside the owners, a caller of the same store may revoke a grant, read *)
(* it past its expiry, enable durable execution, recover after a restart,  *)
(* and, until durable execution is enabled, drive requests by hand.        *)
(*                                                                         *)
(* `now' is a reading of the wall clock and may lie before an earlier one. *)
(* `ack' says whether the writer learns that its transaction committed.    *)
(***************************************************************************)
EXTENDS CreditGrants, FiniteSets

CONSTANTS
  Procs,          \* processes, each with one execution owner
  Grants,         \* grants, activated beforehand
  Requests,       \* (grant, request id) pairs
  GrantOf,        \* [Requests -> Grants]
  Price,          \* [Requests -> units]: the pinned cost
  TotalUnits,     \* [Grants -> units]
  ExpiresAt,      \* [Grants -> time]
  Duration,       \* selectedDurationMs
  Times,          \* wall clock readings
  Capacity,       \* how many executions the generation may hold
  MaxRevision     \* Number.MAX_SAFE_INTEGER

ASSUME ParametersAssumption ==
  /\ GrantOf \in [Requests -> Grants]
  /\ Price \in [Requests -> Nat \ {0}]
  /\ TotalUnits \in [Grants -> Nat \ {0}]
  /\ ExpiresAt \in [Grants -> Nat \ {0}]
  /\ Duration \in Nat \ {0}
  /\ Times \subseteq Nat
  /\ Capacity \in Nat
  /\ MaxRevision \in Nat

VARIABLES
  revision,       \* the envelope's revision
  enabled,        \* executionState is not null
  sealed,         \* the generation's state is SEALED
  grants,         \* the ledger's grants
  reqs,           \* the ledger's request states, "NONE" when absent
  execs,          \* the durable execution of each request
  pc,             \* what each owner does next
  job,            \* the request of each owner's run
  at,             \* the revision each owner believes in
  claimed,        \* whether the owner has claimed its revision
  latched,        \* whether the owner is quarantined
  calling,        \* whether the owner's callback is unsettled
  cleanupCertain, \* whether the owner is sure that no timer of it may wake
  invocations,    \* how often the application was called for a request
  aborted         \* requests whose callback was told to abort

storeVars == <<revision, enabled, sealed, grants, reqs, execs>>
ownerVars == <<pc, job, at, claimed, latched, calling, cleanupCertain>>
vars == <<storeVars, ownerVars, invocations, aborted>>

Phases == {"PREPARED", "MAY_HAVE_STARTED"}
Terminals == {"NONE", "NOT_INVOKED", "SUCCEEDED", "OUTCOME_UNKNOWN"}

\* No execution has the phase "ABSENT".
Execution ==
  [phase : Phases \cup {"ABSENT"}, terminal : Terminals, start : Nat]

NoExecution == [phase |-> "ABSENT", terminal |-> "NONE", start |-> 0]

\* The steps of a run, in order; in "draining" the run's promise has settled
\* and the owner stays active, for its callback has not settled, or for ever
\* because a timer of it may still be there.
Steps ==
  {"down", "idle", "read", "claim", "confirm", "prepare", "fence", "arm",
   "check", "invoke", "running", "unknown", "complete", "draining"}

TypeOK ==
  /\ revision \in 0..MaxRevision
  /\ enabled \in BOOLEAN
  /\ sealed \in BOOLEAN
  /\ grants \in [Grants -> Grant]
  /\ reqs \in [Requests -> RequestState \cup {"NONE"}]
  /\ execs \in [Requests -> Execution]
  /\ pc \in [Procs -> Steps]
  /\ job \in [Procs -> Requests]
  /\ at \in [Procs -> 0..MaxRevision]
  /\ claimed \in [Procs -> BOOLEAN]
  /\ latched \in [Procs -> BOOLEAN]
  /\ calling \in [Procs -> BOOLEAN]
  /\ cleanupCertain \in [Procs -> BOOLEAN]
  /\ invocations \in [Requests -> Nat]
  /\ aborted \subseteq Requests

Init ==
  /\ revision = 0
  /\ enabled = FALSE
  /\ sealed = FALSE
  /\ grants = [g \in Grants |-> NewGrant(TotalUnits[g])]
  /\ reqs = [r \in Requests |-> "NONE"]
  /\ execs = [r \in Requests |-> NoExecution]
  /\ pc = [p \in Procs |-> "idle"]
  /\ job \in {[p \in Procs |-> r] : r \in Requests}
  /\ at = [p \in Procs |-> 0]
  /\ claimed = [p \in Procs |-> FALSE]
  /\ latched = [p \in Procs |-> FALSE]
  /\ calling = [p \in Procs |-> FALSE]
  /\ cleanupCertain = [p \in Procs |-> TRUE]
  /\ invocations = [r \in Requests |-> 0]
  /\ aborted = {}

-----------------------------------------------------------------------------
(* The store. *)

Executed == {r \in Requests : execs[r].phase # "ABSENT"}

Nonterminal == {r \in Executed : execs[r].terminal = "NONE"}

LedgerUnresolved == {r \in Requests : reqs[r] \in UnresolvedStates}

\* Every write raises the revision; the last one there is cannot be passed.
Writes == revision < MaxRevision /\ revision' = revision + 1

\* How the contract ends a fenced execution whose outcome is asked at now.
InTime(r, now) ==
  now >= execs[r].start /\ now < execs[r].start + Duration

\* A deadline or clock fault, a lost owner or a restart: no un-seal exists.
EndUnknown(r) ==
  /\ execs' = [execs EXCEPT ![r].terminal = "OUTCOME_UNKNOWN"]
  /\ reqs' = [reqs EXCEPT ![r] = "OUTCOME_UNKNOWN"]
  /\ sealed' = TRUE
  /\ UNCHANGED <<enabled, grants>>

EndNotInvoked(r) ==
  /\ execs' = [execs EXCEPT ![r].terminal = "NOT_INVOKED"]
  /\ reqs' = [reqs EXCEPT ![r] = "FAILED_RELEASED"]
  /\ grants' = [grants EXCEPT ![GrantOf[r]] = ReturnHeld(@, Price[r])]
  /\ UNCHANGED <<enabled, sealed>>

-----------------------------------------------------------------------------
(* The owner's bookkeeping. *)

\* The owner goes on to the next step, believing in the revision it wrote.
Proceed(p, step) ==
  /\ pc' = [pc EXCEPT ![p] = step]
  /\ at' = [at EXCEPT ![p] = revision']
  /\ UNCHANGED <<job, claimed, latched, calling, cleanupCertain>>

\* The run settles and the owner may take another.
Finish(p) ==
  /\ pc' = [pc EXCEPT ![p] = "idle"]
  /\ UNCHANGED <<job, at, claimed, latched, calling, cleanupCertain>>

\* The run settles and the owner takes no more.  releaseWhenSafe: it stays
\* active until its callback settles, and for ever when a timer may be left.
Retire(p, certain) ==
  /\ pc' = [pc EXCEPT ![p] =
       IF calling[p] \/ ~certain THEN "draining" ELSE "idle"]
  /\ latched' = [latched EXCEPT ![p] = TRUE]
  /\ cleanupCertain' = [cleanupCertain EXCEPT ![p] = certain]
  /\ UNCHANGED <<job, at, claimed, calling>>

\* The end of a write: the owner proceeds if it hears of the commit.
Acknowledged(p, step, ack) ==
  IF ack THEN Proceed(p, step) ELSE Retire(p, cleanupCertain[p])

-----------------------------------------------------------------------------
(* The owner's run. *)

StartRun(p, r) ==
  /\ pc[p] = "idle"
  /\ ~latched[p]
  /\ pc' = [pc EXCEPT ![p] = "read"]
  /\ job' = [job EXCEPT ![p] = r]
  /\ UNCHANGED <<storeVars, at, claimed, latched, calling, cleanupCertain,
                 invocations, aborted>>

\* getDurableExecutionSnapshot: RECOVERY_REQUIRED when nothing is enabled.
ReadSnapshot(p) ==
  /\ pc[p] = "read"
  /\ \/ /\ ~claimed[p] /\ ~enabled
        /\ Finish(p)
     \/ /\ ~claimed[p] /\ enabled
        /\ pc' = [pc EXCEPT ![p] = "claim"]
        /\ at' = [at EXCEPT ![p] = revision]
        /\ UNCHANGED <<job, claimed, latched, calling, cleanupCertain>>
     \/ /\ claimed[p] /\ at[p] = revision
        /\ pc' = [pc EXCEPT ![p] = "prepare"]
        /\ UNCHANGED <<job, at, claimed, latched, calling, cleanupCertain>>
  /\ UNCHANGED <<storeVars, invocations, aborted>>

\* Slip: reading the current revision is taken for a claim to it.
ClaimByReading(p, ack) ==
  /\ pc[p] = "claim"
  /\ at[p] = revision
  /\ pc' = [pc EXCEPT ![p] = "confirm"]
  /\ UNCHANGED <<storeVars, job, at, claimed, latched, calling, cleanupCertain,
                 invocations, aborted>>

\* claimDurableExecutionOwnership: takes the revision, changes nothing else.
Claim(p, ack) ==
  /\ pc[p] = "claim"
  /\ at[p] = revision
  /\ Writes
  /\ Acknowledged(p, "confirm", ack)
  /\ UNCHANGED <<enabled, sealed, grants, reqs, execs, invocations, aborted>>

\* initial() reads back what it claimed.
Confirm(p) ==
  /\ pc[p] = "confirm"
  /\ at[p] = revision
  /\ pc' = [pc EXCEPT ![p] = "prepare"]
  /\ claimed' = [claimed EXCEPT ![p] = TRUE]
  /\ UNCHANGED <<storeVars, job, at, latched, calling, cleanupCertain,
                 invocations, aborted>>

\* Slip: admission trusts the seal, which only an ended execution sets.
AdmitsUnlessSealed(r, now) ==
  LET g == GrantOf[r] IN
  /\ reqs[r] = "NONE"
  /\ ~sealed
  /\ Cardinality(Executed) < Capacity
  /\ Refreshed(grants[g], ExpiresAt[g], now).lifecycle = "ACTIVE"
  /\ Price[r] <= grants[g].available

\* What prepareDurableExecution admits, reserve and begin at one reading.
Admits(r, now) ==
  LET g == GrantOf[r] IN
  /\ reqs[r] = "NONE"
  /\ ~sealed
  /\ Cardinality(Executed) < Capacity
  /\ Nonterminal = {}
  /\ LedgerUnresolved = {}
  /\ Refreshed(grants[g], ExpiresAt[g], now).lifecycle = "ACTIVE"
  /\ Price[r] <= grants[g].available

Prepare(p, now, ack) ==
  LET r == job[p] IN
  /\ pc[p] = "prepare"
  /\ at[p] = revision
  /\ Admits(r, now)
  /\ Writes
  /\ grants' = [grants EXCEPT ![GrantOf[r]] = Hold(@, Price[r])]
  /\ reqs' = [reqs EXCEPT ![r] = "EXECUTING"]
  /\ execs' = [execs EXCEPT ![r] =
       [phase |-> "PREPARED", terminal |-> "NONE", start |-> now]]
  /\ Acknowledged(p, "fence", ack)
  /\ UNCHANGED <<enabled, sealed, invocations, aborted>>

\* A replayed request, or a refusal: nothing is written (an expiry found on
\* the way is rolled back with the transaction) and the run settles.
PrepareRefused(p, now) ==
  /\ pc[p] = "prepare"
  /\ at[p] = revision
  /\ ~Admits(job[p], now) \/ revision = MaxRevision
  /\ Finish(p)
  /\ UNCHANGED <<storeVars, invocations, aborted>>

Fence(p, now, ack) ==
  LET r == job[p] IN
  /\ pc[p] = "fence"
  /\ at[p] = revision
  /\ Writes
  /\ \/ /\ InTime(r, now)
        /\ execs' = [execs EXCEPT ![r].phase = "MAY_HAVE_STARTED"]
        /\ Acknowledged(p, "arm", ack)
        /\ UNCHANGED <<enabled, sealed, grants, reqs>>
     \/ /\ ~InTime(r, now)
        /\ EndNotInvoked(r)
        /\ Acknowledged(p, "idle", ack)
  /\ UNCHANGED <<invocations, aborted>>

\* SERVICE_CREDIT_STORE_CAPACITY_EXCEEDED is a known refusal here as well.
FenceRefused(p) ==
  /\ pc[p] = "fence"
  /\ at[p] = revision
  /\ revision = MaxRevision
  /\ Finish(p)
  /\ UNCHANGED <<storeVars, invocations, aborted>>

\* The run gives its outcome up.  The deadline may have passed or the clock
\* failed; or schedule() or cancel() did, and the timer may still be there.
GiveUp(p) ==
  /\ pc' = [pc EXCEPT ![p] = "unknown"]
  /\ \E certain \in BOOLEAN :
       cleanupCertain' = [cleanupCertain EXCEPT ![p] = certain]

\* The deadline timer starts; it may find the deadline already past, or fail.
ArmTimer(p) ==
  /\ pc[p] = "arm"
  /\ \/ pc' = [pc EXCEPT ![p] = "check"] /\ UNCHANGED cleanupCertain
     \/ GiveUp(p)
  /\ UNCHANGED <<storeVars, job, at, claimed, latched, calling,
                 invocations, aborted>>

\* invokeApplication: assertCurrent() reads the revision, then execute() runs.
AssertCurrent(p) ==
  /\ pc[p] = "check"
  /\ at[p] = revision
  /\ pc' = [pc EXCEPT ![p] = "invoke"]
  /\ UNCHANGED <<storeVars, job, at, claimed, latched, calling, cleanupCertain,
                 invocations, aborted>>

Invoke(p) ==
  /\ pc[p] = "invoke"
  /\ pc' = [pc EXCEPT ![p] = "running"]
  /\ calling' = [calling EXCEPT ![p] = TRUE]
  /\ invocations' = [invocations EXCEPT ![job[p]] = @ + 1]
  /\ UNCHANGED <<storeVars, job, at, claimed, latched, cleanupCertain, aborted>>

\* callbackFinished wins the race and stops the timer: a good answer before
\* the deadline goes on to complete, any other answer and any fault to unknown.
CallbackReturns(p) ==
  /\ pc[p] = "running"
  /\ calling' = [calling EXCEPT ![p] = FALSE]
  /\ \/ pc' = [pc EXCEPT ![p] = "complete"] /\ UNCHANGED cleanupCertain
     \/ GiveUp(p)
  /\ UNCHANGED <<storeVars, job, at, claimed, latched, invocations, aborted>>

\* deadlineExpired or timerFault wins the race.
TimerFires(p) ==
  /\ pc[p] = "running"
  /\ GiveUp(p)
  /\ UNCHANGED <<storeVars, job, at, claimed, latched, calling,
                 invocations, aborted>>

\* Slip: a callback that settles late no longer releases the owner.
CallbackIgnored(p) ==
  /\ pc[p] = "draining"
  /\ calling[p]
  /\ calling' = [calling EXCEPT ![p] = FALSE]
  /\ UNCHANGED <<storeVars, pc, job, at, claimed, latched, cleanupCertain,
                 invocations, aborted>>

\* The loser of the race only releases the owner, if the timer is gone.
CallbackDrains(p) ==
  /\ pc[p] = "draining"
  /\ calling[p]
  /\ calling' = [calling EXCEPT ![p] = FALSE]
  /\ pc' = [pc EXCEPT ![p] = IF cleanupCertain[p] THEN "idle" ELSE "draining"]
  /\ UNCHANGED <<storeVars, job, at, claimed, latched, cleanupCertain,
                 invocations, aborted>>

\* The abort signal follows an acknowledged OUTCOME_UNKNOWN.
MarkUnknown(p, ack) ==
  LET r == job[p] IN
  /\ pc[p] = "unknown"
  /\ at[p] = revision
  /\ Writes
  /\ EndUnknown(r)
  /\ Retire(p, cleanupCertain[p])
  /\ aborted' = IF ack /\ calling[p] THEN aborted \cup {r} ELSE aborted
  /\ UNCHANGED invocations

\* The completion's own reading of the clock decides who wins.
Complete(p, now, ack) ==
  LET r == job[p] IN
  /\ pc[p] = "complete"
  /\ at[p] = revision
  /\ Writes
  /\ \/ /\ InTime(r, now)
        /\ execs' = [execs EXCEPT ![r].terminal = "SUCCEEDED"]
        /\ reqs' = [reqs EXCEPT ![r] = "SUCCEEDED"]
        /\ grants' = [grants EXCEPT ![GrantOf[r]] = ConsumeHeld(@, Price[r])]
        /\ Acknowledged(p, "idle", ack)
        /\ UNCHANGED <<enabled, sealed>>
     \/ /\ ~InTime(r, now)
        /\ EndUnknown(r)
        /\ Retire(p, cleanupCertain[p])
  /\ UNCHANGED <<invocations, aborted>>

\* Slip: a completion that finds a foreign revision settles nothing.
StoreStepButComplete(p) ==
  pc[p] \in {"read", "claim", "confirm", "prepare", "fence", "check", "unknown"}

\* A STALE receipt, a foreign revision, a failed transaction or the last
\* revision: the owner writes nothing and holds for ever.
StoreStep(p) ==
  pc[p] \in {"read", "claim", "confirm", "prepare", "fence", "check",
             "unknown", "complete"}

\* An owner that has armed its timer but not called yet stops the timer first.
StoreFails(p) ==
  /\ StoreStep(p)
  /\ \/ Retire(p, cleanupCertain[p])
     \/ pc[p] = "check" /\ Retire(p, FALSE)
  /\ UNCHANGED <<storeVars, invocations, aborted>>

-----------------------------------------------------------------------------
(* Processes come and go.  What a callback did before a crash stays done. *)

Crash(p) ==
  /\ pc[p] # "down"
  /\ pc' = [pc EXCEPT ![p] = "down"]
  /\ at' = [at EXCEPT ![p] = 0]
  /\ claimed' = [claimed EXCEPT ![p] = FALSE]
  /\ latched' = [latched EXCEPT ![p] = FALSE]
  /\ calling' = [calling EXCEPT ![p] = FALSE]
  /\ cleanupCertain' = [cleanupCertain EXCEPT ![p] = TRUE]
  /\ UNCHANGED <<storeVars, job, invocations, aborted>>

Restart(p) ==
  /\ pc[p] = "down"
  /\ pc' = [pc EXCEPT ![p] = "idle"]
  /\ UNCHANGED <<storeVars, job, at, claimed, latched, calling, cleanupCertain,
                 invocations, aborted>>

-----------------------------------------------------------------------------
(* Other callers of the store. *)

\* Slip: durable execution is enabled whatever was begun by hand.
InitializeUnchecked ==
  /\ ~enabled
  /\ Writes
  /\ enabled' = TRUE
  /\ UNCHANGED <<sealed, grants, reqs, execs, ownerVars, invocations, aborted>>

\* initializeDurableExecution: INITIALIZATION_UNSAFE while any request made by
\* hand has not ended.
InitializeDurableExecution ==
  /\ ~enabled
  /\ \A r \in Requests : reqs[r] \notin HoldingStates
  /\ Writes
  /\ enabled' = TRUE
  /\ UNCHANGED <<sealed, grants, reqs, execs, ownerVars, invocations, aborted>>

\* registerOffer and activateGrantFromTrustedRecord: another grant or offer.
WriteElsewhere ==
  /\ Writes
  /\ UNCHANGED <<enabled, sealed, grants, reqs, execs, ownerVars, invocations, aborted>>

\* Any ledger operation that finds the grant past its expiry persists that.
ExpireGrant(g, now) ==
  /\ Refreshed(grants[g], ExpiresAt[g], now) # grants[g]
  /\ Writes
  /\ grants' = [grants EXCEPT ![g] = Refreshed(@, ExpiresAt[g], now)]
  /\ UNCHANGED <<enabled, sealed, reqs, execs, ownerVars, invocations, aborted>>

RevokeGrant(g, now) ==
  /\ Refreshed(grants[g], ExpiresAt[g], now).lifecycle = "ACTIVE"
  /\ Writes
  /\ grants' = [grants EXCEPT ![g].lifecycle = "REVOKED"]
  /\ UNCHANGED <<enabled, sealed, reqs, execs, ownerVars, invocations, aborted>>

\* Slip: recovery ends every open execution the way it ends a prepared one.
RecoverAsNotInvoked ==
  /\ enabled
  /\ Writes
  /\ \E r \in Nonterminal : EndNotInvoked(r)
  /\ UNCHANGED <<ownerVars, invocations, aborted>>

\* recoverDurableExecutionsAfterRestart.  Nothing makes its caller prove that
\* the old owner is gone.  At most one execution is nonterminal (CrossLinked).
RecoverAfterRestart ==
  /\ enabled
  /\ Writes
  /\ \E r \in Nonterminal :
       \/ execs[r].phase = "PREPARED" /\ EndNotInvoked(r)
       \/ execs[r].phase = "MAY_HAVE_STARTED" /\ EndUnknown(r)
  /\ UNCHANGED <<ownerVars, invocations, aborted>>

\* Slip: the request operations by hand stay open for ever.
LegacyStepAlways(r, before, after) ==
  /\ reqs[r] = before
  /\ Writes
  /\ reqs' = [reqs EXCEPT ![r] = after]
  /\ UNCHANGED <<enabled, sealed, execs, ownerVars, invocations, aborted>>

\* The request operations of the ledger, blocked once durable execution is on.
LegacyStep(r, before, after) ==
  /\ ~enabled
  /\ reqs[r] = before
  /\ Writes
  /\ reqs' = [reqs EXCEPT ![r] = after]
  /\ UNCHANGED <<enabled, sealed, execs, ownerVars, invocations, aborted>>

LegacyReserve(r, now) ==
  /\ LegacyStep(r, "NONE", "RESERVED")
  /\ LedgerUnresolved = {}
  /\ Refreshed(grants[GrantOf[r]], ExpiresAt[GrantOf[r]], now).lifecycle = "ACTIVE"
  /\ Price[r] <= grants[GrantOf[r]].available
  /\ grants' = [grants EXCEPT ![GrantOf[r]] = Hold(@, Price[r])]

LegacyBegin(r, now) ==
  /\ LegacyStep(r, "RESERVED", "EXECUTING")
  /\ LedgerUnresolved = {}
  /\ Refreshed(grants[GrantOf[r]], ExpiresAt[GrantOf[r]], now).lifecycle = "ACTIVE"
  /\ UNCHANGED grants

LegacySucceed(r) ==
  /\ \E before \in {"EXECUTING", "OUTCOME_UNKNOWN"} :
       LegacyStep(r, before, "SUCCEEDED")
  /\ grants' = [grants EXCEPT ![GrantOf[r]] = ConsumeHeld(@, Price[r])]

LegacyRelease(r) ==
  /\ \E before \in {"RESERVED", "OUTCOME_UNKNOWN"} :
       LegacyStep(r, before, "FAILED_RELEASED")
  /\ grants' = [grants EXCEPT ![GrantOf[r]] = ReturnHeld(@, Price[r])]

LegacyUnknown(r) ==
  /\ LegacyStep(r, "EXECUTING", "OUTCOME_UNKNOWN")
  /\ UNCHANGED grants

-----------------------------------------------------------------------------
OwnerStep(p) ==
  \/ ReadSnapshot(p)
  \/ \E ack \in BOOLEAN : Claim(p, ack)
  \/ Confirm(p)
  \/ \E now \in Times, ack \in BOOLEAN : Prepare(p, now, ack)
  \/ \E now \in Times : PrepareRefused(p, now)
  \/ \E now \in Times, ack \in BOOLEAN : Fence(p, now, ack)
  \/ FenceRefused(p)
  \/ ArmTimer(p)
  \/ AssertCurrent(p)
  \/ Invoke(p)
  \/ \E ack \in BOOLEAN : MarkUnknown(p, ack)
  \/ \E now \in Times, ack \in BOOLEAN : Complete(p, now, ack)
  \/ StoreFails(p)

Callback(p) == CallbackReturns(p) \/ CallbackDrains(p)

OtherCaller ==
  \/ InitializeDurableExecution
  \/ WriteElsewhere
  \/ RecoverAfterRestart
  \/ \E g \in Grants, now \in Times : ExpireGrant(g, now) \/ RevokeGrant(g, now)
  \/ \E r \in Requests, now \in Times : LegacyReserve(r, now) \/ LegacyBegin(r, now)
  \/ \E r \in Requests : LegacySucceed(r) \/ LegacyRelease(r) \/ LegacyUnknown(r)

Next ==
  \/ \E p \in Procs :
       \/ \E r \in Requests : StartRun(p, r)
       \/ OwnerStep(p)
       \/ Callback(p)
       \/ TimerFires(p)
       \/ Crash(p)
       \/ Restart(p)
  \/ OtherCaller

Spec == Init /\ [][Next]_vars

\* The event loop runs a started run's next step, and the deadline timer that
\* was armed fires.  Nothing is assumed of the application, of callers, or of
\* a crashed process.
FairSpec ==
  /\ Spec
  /\ \A p \in Procs : WF_vars(OwnerStep(p)) /\ WF_vars(TimerFires(p))

-----------------------------------------------------------------------------
(* Properties. *)

\* Whatever crashes, lost acknowledgements, recoveries and rival owners, the
\* application is called at most once for a request, never for one recorded as
\* NOT_INVOKED, and always for one recorded as SUCCEEDED; a request it was
\* called for never gets its units back; and it is told to abort only once its
\* OUTCOME_UNKNOWN is durable.
CalledAsRecorded ==
  /\ TypeOK
  /\ \A r \in Requests :
       /\ invocations[r] <= 1
       /\ execs[r].terminal = "NOT_INVOKED" => invocations[r] = 0
       /\ execs[r].terminal = "SUCCEEDED" => invocations[r] = 1
       /\ invocations[r] > 0 =>
            reqs[r] \in {"EXECUTING", "OUTCOME_UNKNOWN", "SUCCEEDED"}
       /\ r \in aborted =>
            execs[r].terminal = "OUTCOME_UNKNOWN" /\ invocations[r] = 1

\* assertDurableCrossLinks and normalizeState never find the row corrupt: the
\* ledger and the executions, written by different steps of different owners,
\* tell the same story, and an unknown outcome is the same thing as a seal.
CrossLinked ==
  enabled =>
    /\ Cardinality(Nonterminal) <= 1
    /\ Cardinality(Executed) <= Capacity
    /\ sealed <=> \E r \in Executed : execs[r].terminal = "OUTCOME_UNKNOWN"
    /\ \A r \in Executed :
         reqs[r] = CASE execs[r].terminal = "NONE" -> "EXECUTING"
                     [] execs[r].terminal = "NOT_INVOKED" -> "FAILED_RELEASED"
                     [] execs[r].terminal = "SUCCEEDED" -> "SUCCEEDED"
                     [] execs[r].terminal = "OUTCOME_UNKNOWN" -> "OUTCOME_UNKNOWN"
    /\ \A r \in Requests : reqs[r] \in HoldingStates => r \in Executed

\* Of all the owners that believe they hold the ledger, at most one is right:
\* a claim, a recovery or any other write leaves every earlier owner stale.
OneCurrentOwner ==
  \A p, q \in Procs :
    /\ claimed[p] /\ ~latched[p] /\ at[p] = revision
    /\ claimed[q] /\ ~latched[q] /\ at[q] = revision
    => p = q

\* A generation is never unsealed: one unknown outcome ends all admission and
\* freezes every grant's units where they are, the unknown request's held.
SealFreezesLedger ==
  [][sealed =>
       /\ sealed'
       /\ Executed' = Executed
       /\ \A g \in Grants :
            /\ grants'[g].available = grants[g].available
            /\ grants'[g].held = grants[g].held
            /\ grants'[g].consumed = grants[g].consumed]_vars

\* Every run that was started settles, even when its application never
\* answers, its owner goes stale or its store fails.
RunSettles ==
  \A p \in Procs :
    pc[p] \notin {"idle", "down", "draining"} ~> pc[p] \in {"idle", "down", "draining"}

\* An owner is free, for another run or for close() to resolve, only when
\* nothing of its last run is left: no callback is running and no timer may
\* still wake.  An owner that lost its timer is held until its process dies.
FreeOnlyWhenSafe ==
  \A p \in Procs : pc[p] = "idle" => ~calling[p] /\ cleanupCertain[p]

\* releaseWhenSafe neither forgets an owner nor frees it too early.  It is free
\* only when it is safe, and with an application whose callbacks settle it
\* always becomes free again, so that close() resolves, unless schedule() or
\* cancel() failed and left it without certainty that its timer is gone.
OwnerIsReleased ==
  /\ []FreeOnlyWhenSafe
  /\ (\A p \in Procs : WF_vars(Callback(p))) =>
       \A p \in Procs :
         pc[p] # "idle" ~> pc[p] \in {"idle", "down"} \/ ~cleanupCertain[p]

\* The durable executions implement the service's promise.
settlementOf(r) ==
  CASE execs[r].phase = "ABSENT" -> "none"
    [] execs[r].terminal = "NONE" /\ execs[r].phase # "ABSENT" -> "open"
    [] execs[r].terminal = "SUCCEEDED" -> "charged"
    [] execs[r].terminal = "NOT_INVOKED" -> "released"
    [] execs[r].terminal = "OUTCOME_UNKNOWN" -> "unresolved"

Promise == INSTANCE MeteredService WITH
  settlement <- [r \in Requests |-> settlementOf(r)],
  invoked <- {r \in Requests : invocations[r] > 0}

PromiseKept == Promise!Spec
=============================================================================
