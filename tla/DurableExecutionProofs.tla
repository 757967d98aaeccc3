----------------------- MODULE DurableExecutionProofs -----------------------
(***************************************************************************)
(* Proofs about DurableExecution, for any number of processes, grants and  *)
(* requests, any prices, durations and clock readings.                     *)
(*                                                                         *)
(* None of its properties is inductive.  That a request is called at most  *)
(* once, for instance, rests on the owner that is about to call it: a      *)
(* rival may have overtaken it since its last check, so its own belief     *)
(* says nothing about the row.  What the row says is that the execution    *)
(* was fenced; only one owner can have fenced it; and whoever overtook it  *)
(* may only have given its outcome up.                                     *)
(***************************************************************************)
EXTENDS DurableExecution, FiniteSetTheorems, TLAPS

-----------------------------------------------------------------------------
(* The inductive invariant. *)

\* The steps an owner reaches only by an acknowledged fence, and only by its
\* claim.
Fenced == {"arm", "check", "invoke", "running", "unknown", "complete"}
Claimed == {"prepare", "fence"} \cup Fenced

\* The row: the ledger and the executions tell the same story.
RowAgrees(r) ==
  /\ execs[r].phase = "ABSENT" =>
       /\ execs[r].terminal = "NONE"
       /\ enabled => reqs[r] \notin HoldingStates
  /\ execs[r].phase # "ABSENT" =>
       /\ enabled
       /\ execs[r].terminal = "NONE" => reqs[r] = "EXECUTING"
       /\ execs[r].terminal = "NOT_INVOKED" => reqs[r] = "FAILED_RELEASED"
       /\ execs[r].terminal = "SUCCEEDED" => reqs[r] = "SUCCEEDED"
       /\ execs[r].terminal = "OUTCOME_UNKNOWN" => reqs[r] = "OUTCOME_UNKNOWN"
  /\ execs[r].terminal = "NOT_INVOKED" => execs[r].phase = "PREPARED"
  /\ execs[r].terminal \in {"SUCCEEDED", "OUTCOME_UNKNOWN"} =>
       execs[r].phase = "MAY_HAVE_STARTED"

RowInv ==
  /\ \A r \in Requests : RowAgrees(r)
  /\ \A r, q \in Nonterminal : r = q
  /\ sealed <=> \E r \in Requests : execs[r].terminal = "OUTCOME_UNKNOWN"
  /\ sealed => Nonterminal = {}

\* The generation never holds more executions than it has room for.
RoomInv == IsFiniteSet(Executed) /\ Cardinality(Executed) <= Capacity

\* What the calls made so far say about the row.
CallsAgree(r) ==
  /\ invocations[r] <= 1
  /\ invocations[r] = 1 => execs[r].phase = "MAY_HAVE_STARTED"
  /\ execs[r].terminal = "SUCCEEDED" => invocations[r] = 1
  /\ r \in aborted =>
       execs[r].terminal = "OUTCOME_UNKNOWN" /\ invocations[r] = 1

CallsInv == \A r \in Requests : CallsAgree(r)

\* What an owner at a step knows: of its own state, whatever the others did,
\* and of the row, as long as nobody wrote since.
OwnerAgrees(p) ==
  /\ at[p] <= revision
  /\ claimed[p] => enabled
  /\ pc[p] \in Claimed => claimed[p]
  /\ pc[p] \in {"claim", "confirm"} => enabled /\ ~claimed[p]
  /\ pc[p] = "down" => ~claimed[p]
  /\ latched[p] => pc[p] \in {"idle", "draining"}
  /\ calling[p] => pc[p] \in {"running", "unknown", "draining"}
  /\ ~cleanupCertain[p] => pc[p] \in {"unknown", "draining"}
  /\ (pc[p] = "fence" /\ at[p] = revision) =>
       execs[job[p]].phase = "PREPARED" /\ execs[job[p]].terminal = "NONE"
  /\ pc[p] \in Fenced =>
       /\ execs[job[p]].phase = "MAY_HAVE_STARTED"
       /\ execs[job[p]].terminal \in {"NONE", "OUTCOME_UNKNOWN"}
       /\ at[p] = revision => execs[job[p]].terminal = "NONE"
  /\ pc[p] \in {"arm", "check", "invoke"} => invocations[job[p]] = 0
  /\ pc[p] \in {"running", "complete"} => invocations[job[p]] = 1
  /\ (pc[p] = "unknown" /\ calling[p]) => invocations[job[p]] = 1

OwnersInv == \A p \in Procs : OwnerAgrees(p)

\* An owner holds the ledger while the revision it claimed, or wrote, is the
\* last one.
Holds(p) ==
  (claimed[p] \/ pc[p] = "confirm") /\ ~latched[p] /\ at[p] = revision

RivalsInv ==
  \A p, q \in Procs :
    /\ Holds(p) /\ Holds(q) => p = q
    /\ pc[p] \in Fenced /\ pc[q] \in Fenced /\ job[p] = job[q] => p = q

DurableInv ==
  TypeOK /\ RowInv /\ RoomInv /\ CallsInv /\ OwnersInv /\ RivalsInv

-----------------------------------------------------------------------------
(* Type correctness. *)

LEMMA GrantOperators ==
  ASSUME NEW g \in Grant, NEW cost \in Nat, NEW e, NEW t
  PROVE  /\ Refreshed(g, e, t) \in Grant
         /\ Hold(g, cost) \in Grant
         /\ ReturnHeld(g, cost) \in Grant
         /\ ConsumeHeld(g, cost) \in Grant
         /\ [g EXCEPT !.lifecycle = "REVOKED"] \in Grant
<1>1. Refreshed(g, e, t) \in Grant
  <2>1. [g EXCEPT !.lifecycle = "EXPIRED"] \in Grant
    BY DEF Grant, GrantLifecycle
  <2> QED
    BY <2>1 DEF Refreshed
<1>2. Hold(g, cost) \in Grant
  <2>1. g.available - cost \in Int /\ g.held + cost \in Int
    BY DEF Grant
  <2>2. [g EXCEPT !.available = g.available - cost] \in Grant
    BY <2>1 DEF Grant
  <2>3. [[g EXCEPT !.available = g.available - cost]
           EXCEPT !.held = g.held + cost] \in Grant
    BY <2>1, <2>2 DEF Grant
  <2> QED
    BY <2>3 DEF Hold, Grant
<1>3. ReturnHeld(g, cost) \in Grant
  <2>1. g.held - cost \in Int /\ g.available + cost \in Int
    BY DEF Grant
  <2>2. [g EXCEPT !.held = g.held - cost] \in Grant
    BY <2>1 DEF Grant
  <2>3. [[g EXCEPT !.held = g.held - cost]
           EXCEPT !.available = g.available + cost] \in Grant
    BY <2>1, <2>2 DEF Grant
  <2> QED
    BY <2>3 DEF ReturnHeld, Grant
<1>4. ConsumeHeld(g, cost) \in Grant
  <2>1. g.held - cost \in Int /\ g.consumed + cost \in Int
    BY DEF Grant
  <2>2. [g EXCEPT !.held = g.held - cost] \in Grant
    BY <2>1 DEF Grant
  <2>3. [[g EXCEPT !.held = g.held - cost]
           EXCEPT !.consumed = g.consumed + cost] \in Grant
    BY <2>1, <2>2 DEF Grant
  <2> QED
    BY <2>3 DEF ConsumeHeld, Grant
<1>5. [g EXCEPT !.lifecycle = "REVOKED"] \in Grant
  BY DEF Grant, GrantLifecycle
<1> QED
  BY <1>1, <1>2, <1>3, <1>4, <1>5

(* A write, and an owner's bookkeeping, keep their types. *)
LEMMA WriteType == TypeOK /\ Writes => revision' \in 0..MaxRevision
BY ParametersAssumption DEF TypeOK, Writes

LEMMA OwnerTypes ==
  ASSUME TypeOK, NEW p \in Procs
  PROVE  /\ \A step \in Steps, ack \in BOOLEAN :
              Acknowledged(p, step, ack) /\ revision' \in 0..MaxRevision =>
                /\ pc' \in [Procs -> Steps]
                /\ at' \in [Procs -> 0..MaxRevision]
                /\ latched' \in [Procs -> BOOLEAN]
                /\ cleanupCertain' \in [Procs -> BOOLEAN]
                /\ UNCHANGED <<job, claimed, calling>>
         /\ \A certain \in BOOLEAN : Retire(p, certain) =>
              /\ pc' \in [Procs -> Steps]
              /\ latched' \in [Procs -> BOOLEAN]
              /\ cleanupCertain' \in [Procs -> BOOLEAN]
              /\ UNCHANGED <<job, at, claimed, calling>>
<1>1. cleanupCertain[p] \in BOOLEAN
  BY DEF TypeOK
<1>2. ASSUME NEW certain \in BOOLEAN, Retire(p, certain)
      PROVE  /\ pc' \in [Procs -> Steps]
             /\ latched' \in [Procs -> BOOLEAN]
             /\ cleanupCertain' \in [Procs -> BOOLEAN]
             /\ UNCHANGED <<job, at, claimed, calling>>
  BY <1>2 DEF TypeOK, Retire, Steps
<1>3. ASSUME NEW step \in Steps, Proceed(p, step), revision' \in 0..MaxRevision
      PROVE  /\ pc' \in [Procs -> Steps]
             /\ at' \in [Procs -> 0..MaxRevision]
             /\ latched' \in [Procs -> BOOLEAN]
             /\ cleanupCertain' \in [Procs -> BOOLEAN]
             /\ UNCHANGED <<job, claimed, calling>>
  BY <1>3 DEF TypeOK, Proceed
<1> QED
  BY <1>1, <1>2, <1>3 DEF Acknowledged, TypeOK

(* Giving an outcome up keeps the types. *)
LEMMA GiveUpTypes ==
  ASSUME TypeOK, NEW p \in Procs, GiveUp(p)
  PROVE  pc' \in [Procs -> Steps] /\ cleanupCertain' \in [Procs -> BOOLEAN]
BY DEF TypeOK, GiveUp, Steps

(* The ends of an execution keep the types of the row. *)
LEMMA EndTypes ==
  ASSUME TypeOK, NEW r \in Requests
  PROVE  /\ EndUnknown(r) =>
              /\ execs' \in [Requests -> Execution]
              /\ reqs' \in [Requests -> RequestState \cup {"NONE"}]
              /\ sealed' \in BOOLEAN /\ enabled' = enabled /\ grants' = grants
         /\ EndNotInvoked(r) =>
              /\ execs' \in [Requests -> Execution]
              /\ reqs' \in [Requests -> RequestState \cup {"NONE"}]
              /\ grants' \in [Grants -> Grant]
              /\ sealed' = sealed /\ enabled' = enabled
<1>1. execs[r] \in Execution /\ GrantOf[r] \in Grants /\ Price[r] \in Nat
  BY ParametersAssumption DEF TypeOK
<1>2. /\ [execs[r] EXCEPT !.terminal = "OUTCOME_UNKNOWN"] \in Execution
      /\ [execs[r] EXCEPT !.terminal = "NOT_INVOKED"] \in Execution
  BY <1>1 DEF Execution, Terminals
<1>3. ReturnHeld(grants[GrantOf[r]], Price[r]) \in Grant
  BY <1>1, GrantOperators DEF TypeOK
<1>4. CASE EndUnknown(r)
  BY <1>1, <1>2, <1>4 DEF EndUnknown, EndNotInvoked, TypeOK, RequestState
<1>5. CASE EndNotInvoked(r)
  BY <1>1, <1>2, <1>3, <1>5 DEF EndUnknown, EndNotInvoked, TypeOK, RequestState
<1> QED
  BY <1>4, <1>5

LEMMA ExecutionMoves ==
  ASSUME NEW e \in Execution
  PROVE  /\ [e EXCEPT !.phase = "MAY_HAVE_STARTED"] \in Execution
         /\ [e EXCEPT !.terminal = "SUCCEEDED"] \in Execution
BY DEF Execution, Phases, Terminals

LEMMA InitTypeOK == Init => TypeOK
<1> SUFFICES ASSUME Init PROVE TypeOK
  OBVIOUS
<1>1. grants \in [Grants -> Grant]
  <2>1. \A g \in Grants : NewGrant(TotalUnits[g]) \in Grant
    BY ParametersAssumption DEF NewGrant, Grant, GrantLifecycle
  <2> QED
    BY <2>1 DEF Init
<1>2. execs \in [Requests -> Execution] /\ invocations \in [Requests -> Nat]
  BY DEF Init, NoExecution, Execution, Terminals
<1>3. revision \in 0..MaxRevision /\ at \in [Procs -> 0..MaxRevision]
  BY ParametersAssumption DEF Init
<1>4. /\ job \in [Procs -> Requests] /\ pc \in [Procs -> Steps]
      /\ reqs \in [Requests -> RequestState \cup {"NONE"}]
      /\ aborted \subseteq Requests
  BY DEF Init, Steps
<1>5. /\ enabled \in BOOLEAN /\ sealed \in BOOLEAN
      /\ claimed \in [Procs -> BOOLEAN]
      /\ latched \in [Procs -> BOOLEAN]
      /\ calling \in [Procs -> BOOLEAN]
      /\ cleanupCertain \in [Procs -> BOOLEAN]
  BY DEF Init
<1> QED
  BY <1>1, <1>2, <1>3, <1>4, <1>5 DEF TypeOK

LEMMA StepTypeOK ==
  ASSUME TypeOK, [Next]_vars
  PROVE  TypeOK'
<1> USE ParametersAssumption DEF TypeOK, Steps, storeVars, Finish
<1>1. ASSUME NEW p \in Procs, NEW r \in Requests, StartRun(p, r)
      PROVE  TypeOK'
  BY <1>1 DEF StartRun
<1>2. ASSUME NEW p \in Procs, ReadSnapshot(p)
      PROVE  TypeOK'
  BY <1>2 DEF ReadSnapshot
<1>3. ASSUME NEW p \in Procs, NEW ack \in BOOLEAN, Claim(p, ack)
      PROVE  TypeOK'
  BY <1>3, WriteType, OwnerTypes DEF Claim
<1>4. ASSUME NEW p \in Procs, Confirm(p)
      PROVE  TypeOK'
  BY <1>4 DEF Confirm
<1>5. ASSUME NEW p \in Procs, NEW now \in Times, NEW ack \in BOOLEAN,
             Prepare(p, now, ack)
      PROVE  TypeOK'
  <2>1. Hold(grants[GrantOf[job[p]]], Price[job[p]]) \in Grant
    BY GrantOperators
  <2>2. [phase |-> "PREPARED", terminal |-> "NONE", start |-> now] \in Execution
    BY DEF Execution, Phases, Terminals
  <2> QED
    BY <1>5, <2>1, <2>2, WriteType, OwnerTypes DEF Prepare, RequestState
<1>6. ASSUME NEW p \in Procs,
             (\E now \in Times : PrepareRefused(p, now)) \/ FenceRefused(p)
      PROVE  TypeOK'
  BY <1>6 DEF PrepareRefused, FenceRefused
<1>7. ASSUME NEW p \in Procs, NEW now \in Times, NEW ack \in BOOLEAN,
             Fence(p, now, ack)
      PROVE  TypeOK'
  <2>1. [execs[job[p]] EXCEPT !.phase = "MAY_HAVE_STARTED"] \in Execution
    BY ExecutionMoves
  <2>2. CASE InTime(job[p], now)
    <3>1. Acknowledged(p, "arm", ack) /\ revision' \in 0..MaxRevision
      BY <1>7, <2>2, WriteType DEF Fence
    <3>2. execs' \in [Requests -> Execution]
      BY <1>7, <2>1, <2>2 DEF Fence
    <3>3. UNCHANGED <<enabled, sealed, grants, reqs, invocations, aborted>>
      BY <1>7, <2>2 DEF Fence
    <3> QED
      BY <3>1, <3>2, <3>3, OwnerTypes
  <2>3. CASE ~InTime(job[p], now)
    BY <1>7, <2>3, EndTypes, WriteType, OwnerTypes DEF Fence
  <2> QED
    BY <2>2, <2>3
<1>8. ASSUME NEW p \in Procs, ArmTimer(p) \/ AssertCurrent(p) \/ Invoke(p)
      PROVE  TypeOK'
  <2>1. CASE ArmTimer(p)
    BY <2>1, GiveUpTypes DEF ArmTimer
  <2>2. CASE AssertCurrent(p)
    BY <2>2 DEF AssertCurrent
  <2>3. CASE Invoke(p)
    BY <2>3 DEF Invoke
  <2> QED
    BY <1>8, <2>1, <2>2, <2>3
<1>9. ASSUME NEW p \in Procs,
             CallbackReturns(p) \/ CallbackDrains(p) \/ TimerFires(p)
      PROVE  TypeOK'
  <2>1. CASE CallbackReturns(p)
    BY <2>1, GiveUpTypes DEF CallbackReturns
  <2>2. CASE CallbackDrains(p)
    BY <2>2 DEF CallbackDrains
  <2>3. CASE TimerFires(p)
    BY <2>3, GiveUpTypes DEF TimerFires
  <2> QED
    BY <1>9, <2>1, <2>2, <2>3
<1>10. ASSUME NEW p \in Procs, NEW ack \in BOOLEAN, MarkUnknown(p, ack)
       PROVE  TypeOK'
  BY <1>10, EndTypes, WriteType, OwnerTypes DEF MarkUnknown
<1>11. ASSUME NEW p \in Procs, NEW now \in Times, NEW ack \in BOOLEAN,
              Complete(p, now, ack)
       PROVE  TypeOK'
  <2>1. [execs[job[p]] EXCEPT !.terminal = "SUCCEEDED"] \in Execution
    BY ExecutionMoves
  <2>2. ConsumeHeld(grants[GrantOf[job[p]]], Price[job[p]]) \in Grant
    BY GrantOperators
  <2>3. CASE InTime(job[p], now)
    <3>1. Acknowledged(p, "idle", ack) /\ revision' \in 0..MaxRevision
      BY <1>11, <2>3, WriteType DEF Complete
    <3>2. execs' \in [Requests -> Execution] /\ grants' \in [Grants -> Grant]
      BY <1>11, <2>1, <2>2, <2>3 DEF Complete
    <3>3. reqs' \in [Requests -> RequestState \cup {"NONE"}]
      BY <1>11, <2>3 DEF Complete, RequestState
    <3>4. UNCHANGED <<enabled, sealed, invocations, aborted>>
      BY <1>11, <2>3 DEF Complete
    <3> QED
      BY <3>1, <3>2, <3>3, <3>4, OwnerTypes
  <2>4. CASE ~InTime(job[p], now)
    BY <1>11, <2>4, EndTypes, WriteType, OwnerTypes DEF Complete
  <2> QED
    BY <2>3, <2>4
<1>12. ASSUME NEW p \in Procs, StoreFails(p) \/ Crash(p) \/ Restart(p)
       PROVE  TypeOK'
  <2>1. CASE StoreFails(p)
    <3>1. PICK certain \in BOOLEAN : Retire(p, certain)
      BY <2>1 DEF StoreFails
    <3> QED
      BY <2>1, <3>1, OwnerTypes DEF StoreFails
  <2>2. CASE Crash(p)
    BY <2>2, 0 \in 0..MaxRevision DEF Crash
  <2>3. CASE Restart(p)
    BY <2>3 DEF Restart
  <2> QED
    BY <1>12, <2>1, <2>2, <2>3
<1>13. CASE InitializeDurableExecution \/ WriteElsewhere
  BY <1>13, WriteType DEF InitializeDurableExecution, WriteElsewhere, ownerVars
<1>14. CASE RecoverAfterRestart
  <2>1. PICK r \in Requests : EndNotInvoked(r) \/ EndUnknown(r)
    BY <1>14 DEF RecoverAfterRestart, Nonterminal, Executed
  <2> QED
    BY <1>14, <2>1, EndTypes, WriteType DEF RecoverAfterRestart, ownerVars
<1>15. ASSUME NEW g \in Grants, NEW now \in Times,
              ExpireGrant(g, now) \/ RevokeGrant(g, now)
       PROVE  TypeOK'
  <2>1. Refreshed(grants[g], ExpiresAt[g], now) \in Grant
    BY GrantOperators
  <2>2. [grants[g] EXCEPT !.lifecycle = "REVOKED"] \in Grant
    BY GrantOperators
  <2>3. grants' \in [Grants -> Grant]
    <3>1. CASE ExpireGrant(g, now)
      BY <2>1, <3>1 DEF ExpireGrant
    <3>2. CASE RevokeGrant(g, now)
      BY <2>2, <3>2 DEF RevokeGrant
    <3> QED
      BY <1>15, <3>1, <3>2
  <2>4. /\ revision' \in 0..MaxRevision
        /\ UNCHANGED <<enabled, sealed, reqs, execs, ownerVars,
                       invocations, aborted>>
    BY <1>15, WriteType DEF ExpireGrant, RevokeGrant
  <2> QED
    BY <2>3, <2>4 DEF ownerVars
<1>16. ASSUME NEW r \in Requests,
              \/ \E now \in Times : LegacyReserve(r, now) \/ LegacyBegin(r, now)
              \/ LegacySucceed(r) \/ LegacyRelease(r) \/ LegacyUnknown(r)
       PROVE  TypeOK'
  <2>1. /\ Hold(grants[GrantOf[r]], Price[r]) \in Grant
        /\ ConsumeHeld(grants[GrantOf[r]], Price[r]) \in Grant
        /\ ReturnHeld(grants[GrantOf[r]], Price[r]) \in Grant
    BY GrantOperators
  <2>2. \E before, after \in RequestState \cup {"NONE"} : LegacyStep(r, before, after)
    BY <1>16
    DEF LegacyReserve, LegacyBegin, LegacySucceed, LegacyRelease,
        LegacyUnknown, RequestState
  <2>3. /\ reqs' \in [Requests -> RequestState \cup {"NONE"}]
        /\ revision' \in 0..MaxRevision
        /\ UNCHANGED <<enabled, sealed, execs, ownerVars, invocations, aborted>>
    BY <2>2, WriteType DEF LegacyStep
  <2>4. grants' \in [Grants -> Grant]
    BY <1>16, <2>1
    DEF LegacyReserve, LegacyBegin, LegacySucceed, LegacyRelease, LegacyUnknown
  <2> QED
    BY <2>3, <2>4 DEF ownerVars
<1>17. CASE UNCHANGED vars
  BY <1>17 DEF vars, ownerVars
<1> HIDE DEF TypeOK, Steps, storeVars, Finish
<1> QED
  BY <1>1, <1>2, <1>3, <1>4, <1>5, <1>6, <1>7, <1>8, <1>9, <1>10, <1>11,
     <1>12, <1>13, <1>14, <1>15, <1>16, <1>17
  DEF Next, OwnerStep, Callback, OtherCaller

(* Every reachable state is well typed: no transaction leaves the row, and no *)
(* step an owner, outside its domain.                                         *)
THEOREM TypeCorrect == Spec => []TypeOK
BY InitTypeOK, StepTypeOK, PTL DEF Spec

-----------------------------------------------------------------------------
(* The row, by what a transaction does to it. *)

LEMMA RowUntouched ==
  ASSUME RowInv, RoomInv, UNCHANGED <<enabled, sealed, reqs, execs>>
  PROVE  RowInv' /\ RoomInv'
BY DEF RowInv, RoomInv, RowAgrees, Nonterminal, Executed

LEMMA EndUnknownKeepsRow ==
  ASSUME TypeOK, RowInv, NEW r \in Nonterminal,
         execs[r].phase = "MAY_HAVE_STARTED", EndUnknown(r)
  PROVE  /\ RowInv' /\ Executed' = Executed
         /\ execs'[r].phase = "MAY_HAVE_STARTED"
         /\ execs'[r].terminal = "OUTCOME_UNKNOWN"
         /\ \A q \in Requests \ {r} : execs'[q] = execs[q]
<1> USE DEF Nonterminal, Executed
<1>1. /\ execs'[r].phase = "MAY_HAVE_STARTED"
      /\ execs'[r].terminal = "OUTCOME_UNKNOWN"
      /\ reqs'[r] = "OUTCOME_UNKNOWN"
      /\ \A q \in Requests \ {r} : execs'[q] = execs[q] /\ reqs'[q] = reqs[q]
      /\ sealed' = TRUE /\ enabled' = enabled
  BY DEF EndUnknown, TypeOK, Execution
<1>2. Nonterminal' = {}
  BY <1>1 DEF RowInv
<1>3. \A q \in Requests : RowAgrees(q)'
  BY <1>1 DEF RowInv, RowAgrees
<1>4. RowInv'
  BY <1>1, <1>2, <1>3 DEF RowInv
<1>5. Executed' = Executed
  BY <1>1
<1> QED
  BY <1>1, <1>4, <1>5

LEMMA EndNotInvokedKeepsRow ==
  ASSUME TypeOK, RowInv, NEW r \in Nonterminal,
         execs[r].phase = "PREPARED", EndNotInvoked(r)
  PROVE  /\ RowInv' /\ Executed' = Executed
         /\ execs'[r].phase = "PREPARED"
         /\ execs'[r].terminal = "NOT_INVOKED"
         /\ \A q \in Requests \ {r} : execs'[q] = execs[q]
<1> USE DEF Nonterminal, Executed
<1>1. /\ execs'[r].phase = "PREPARED"
      /\ execs'[r].terminal = "NOT_INVOKED"
      /\ reqs'[r] = "FAILED_RELEASED"
      /\ \A q \in Requests \ {r} : execs'[q] = execs[q] /\ reqs'[q] = reqs[q]
      /\ sealed' = sealed /\ enabled' = enabled
  BY DEF EndNotInvoked, TypeOK, Execution
<1>2. Nonterminal' = {}
  BY <1>1 DEF RowInv
<1>3. \A q \in Requests : RowAgrees(q)'
  BY <1>1 DEF RowInv, RowAgrees
<1>4. RowInv'
  BY <1>1, <1>2, <1>3 DEF RowInv
<1>5. Executed' = Executed
  BY <1>1
<1> QED
  BY <1>1, <1>4, <1>5

LEMMA PrepareKeepsRow ==
  ASSUME DurableInv, NEW p \in Procs, NEW now, NEW ack, Prepare(p, now, ack)
  PROVE  /\ RowInv' /\ RoomInv' /\ enabled
         /\ execs[job[p]].phase = "ABSENT"
         /\ execs'[job[p]].phase = "PREPARED"
         /\ execs'[job[p]].terminal = "NONE"
         /\ \A q \in Requests \ {job[p]} : execs'[q] = execs[q]
<1> DEFINE r == job[p]
<1> USE DEF Nonterminal, Executed
<1>0. r \in Requests /\ enabled
  BY DEF DurableInv, TypeOK, OwnersInv, OwnerAgrees, Claimed, Prepare
<1>1. /\ execs'[r].phase = "PREPARED"
      /\ execs'[r].terminal = "NONE"
      /\ reqs'[r] = "EXECUTING"
      /\ \A q \in Requests \ {r} : execs'[q] = execs[q] /\ reqs'[q] = reqs[q]
      /\ sealed' = sealed /\ enabled' = enabled
  BY <1>0 DEF Prepare, DurableInv, TypeOK, Execution
<1>2. reqs[r] = "NONE" /\ ~sealed /\ Nonterminal = {} /\ Cardinality(Executed) < Capacity
  BY DEF Prepare, Admits
<1>3. execs[r].phase = "ABSENT"
  BY <1>0, <1>2 DEF DurableInv, TypeOK, Execution, Terminals, RowInv, RowAgrees
<1>4. \A q \in Requests : RowAgrees(q)'
  BY <1>0, <1>1 DEF DurableInv, RowInv, RowAgrees
<1>5. RowInv'
  BY <1>0, <1>1, <1>2, <1>4 DEF DurableInv, RowInv
<1>6. Executed' = Executed \cup {r} /\ r \notin Executed
  BY <1>0, <1>1, <1>3
<1>7. RoomInv'
  <2>1. IsFiniteSet(Executed)
    BY DEF DurableInv, RoomInv
  <2>2. IsFiniteSet(Executed') /\ Cardinality(Executed') = Cardinality(Executed) + 1
    BY <1>6, <2>1, FS_AddElement
  <2>3. Cardinality(Executed) \in Nat
    BY <2>1, FS_CardinalityType
  <2> QED
    BY <1>2, <2>2, <2>3, ParametersAssumption DEF RoomInv
<1> QED
  BY <1>0, <1>1, <1>3, <1>5, <1>7

LEMMA FenceKeepsRow ==
  ASSUME TypeOK, RowInv, NEW r \in Nonterminal, execs[r].phase = "PREPARED",
         execs' = [execs EXCEPT ![r].phase = "MAY_HAVE_STARTED"],
         UNCHANGED <<enabled, sealed, reqs>>
  PROVE  /\ RowInv' /\ Executed' = Executed
         /\ execs'[r].phase = "MAY_HAVE_STARTED"
         /\ execs'[r].terminal = "NONE"
         /\ \A q \in Requests \ {r} : execs'[q] = execs[q]
<1> USE DEF Nonterminal, Executed
<1>1. /\ execs'[r].phase = "MAY_HAVE_STARTED"
      /\ execs'[r].terminal = "NONE"
      /\ \A q \in Requests \ {r} : execs'[q] = execs[q]
  BY DEF TypeOK, Execution
<1>2. Nonterminal' = Nonterminal
  BY <1>1
<1>3. \A q \in Requests : RowAgrees(q)'
  BY <1>1 DEF RowInv, RowAgrees
<1>4. RowInv'
  BY <1>1, <1>2, <1>3 DEF RowInv
<1>5. Executed' = Executed
  BY <1>1
<1> QED
  BY <1>1, <1>4, <1>5

LEMMA SuccessKeepsRow ==
  ASSUME TypeOK, RowInv, NEW r \in Nonterminal,
         execs[r].phase = "MAY_HAVE_STARTED",
         execs' = [execs EXCEPT ![r].terminal = "SUCCEEDED"],
         reqs' = [reqs EXCEPT ![r] = "SUCCEEDED"],
         UNCHANGED <<enabled, sealed>>
  PROVE  /\ RowInv' /\ Executed' = Executed
         /\ execs'[r].phase = "MAY_HAVE_STARTED"
         /\ execs'[r].terminal = "SUCCEEDED"
         /\ \A q \in Requests \ {r} : execs'[q] = execs[q]
<1> USE DEF Nonterminal, Executed
<1>1. /\ execs'[r].phase = "MAY_HAVE_STARTED"
      /\ execs'[r].terminal = "SUCCEEDED"
      /\ reqs'[r] = "SUCCEEDED"
      /\ \A q \in Requests \ {r} : execs'[q] = execs[q] /\ reqs'[q] = reqs[q]
  BY DEF TypeOK, Execution
<1>2. Nonterminal' = {}
  BY <1>1 DEF RowInv
<1>3. \A q \in Requests : RowAgrees(q)'
  BY <1>1 DEF RowInv, RowAgrees
<1>4. RowInv'
  BY <1>1, <1>2, <1>3 DEF RowInv
<1>5. Executed' = Executed
  BY <1>1
<1> QED
  BY <1>1, <1>4, <1>5

(* Requests made by hand, and the switch to durable execution. *)
LEMMA ByHandKeepsRow ==
  ASSUME DurableInv,
         \/ InitializeDurableExecution
         \/ \E r \in Requests : \E s \in RequestState :
              ~enabled /\ reqs' = [reqs EXCEPT ![r] = s]
                /\ UNCHANGED <<enabled, sealed, execs>>
  PROVE  RowInv' /\ RoomInv' /\ execs' = execs /\ (enabled => enabled')
<1> USE DEF Nonterminal, Executed, DurableInv
<1>1. execs' = execs /\ ~enabled /\ sealed' = sealed
  BY DEF InitializeDurableExecution
<1>2. \A r \in Requests : execs[r].phase = "ABSENT"
  BY <1>1 DEF RowInv, RowAgrees
<1>3. \A r \in Requests : RowAgrees(r)'
  BY <1>1, <1>2 DEF RowInv, RowAgrees, InitializeDurableExecution
<1>4. RowInv'
  BY <1>1, <1>3 DEF RowInv
<1>5. RoomInv'
  BY <1>1 DEF RoomInv
<1> QED
  BY <1>1, <1>4, <1>5

(* Recovery ends the one open execution as its phase says. *)
LEMMA RecoveryKeepsRow ==
  ASSUME DurableInv, RecoverAfterRestart
  PROVE  /\ RowInv' /\ RoomInv'
         /\ \A r \in Requests :
              \/ execs'[r] = execs[r]
              \/ /\ execs[r].phase = "PREPARED" /\ execs[r].terminal = "NONE"
                 /\ execs'[r].phase = "PREPARED"
                 /\ execs'[r].terminal = "NOT_INVOKED"
              \/ /\ execs[r].phase = "MAY_HAVE_STARTED"
                 /\ execs[r].terminal = "NONE"
                 /\ execs'[r].phase = "MAY_HAVE_STARTED"
                 /\ execs'[r].terminal = "OUTCOME_UNKNOWN"
<1>1. PICK r \in Nonterminal :
        \/ execs[r].phase = "PREPARED" /\ EndNotInvoked(r)
        \/ execs[r].phase = "MAY_HAVE_STARTED" /\ EndUnknown(r)
  BY DEF RecoverAfterRestart
<1>2. r \in Requests /\ execs[r].terminal = "NONE"
  BY DEF Nonterminal, Executed
<1>3. CASE execs[r].phase = "PREPARED" /\ EndNotInvoked(r)
  BY <1>2, <1>3, EndNotInvokedKeepsRow DEF DurableInv, RoomInv
<1>4. CASE execs[r].phase = "MAY_HAVE_STARTED" /\ EndUnknown(r)
  BY <1>2, <1>4, EndUnknownKeepsRow DEF DurableInv, RoomInv
<1> QED
  BY <1>1, <1>3, <1>4

-----------------------------------------------------------------------------
(* What others may do to an owner. *)

(* An owner that a write of somebody else has overtaken holds the ledger no   *)
(* more, and what it still relies on is untouched.                            *)
LEMMA Overtaken ==
  ASSUME DurableInv, NEW q \in Procs,
         revision' = revision + 1, enabled => enabled',
         pc'[q] = pc[q], job'[q] = job[q], at'[q] = at[q],
         claimed'[q] = claimed[q], latched'[q] = latched[q],
         calling'[q] = calling[q], cleanupCertain'[q] = cleanupCertain[q],
         UNCHANGED invocations,
         pc[q] \in Fenced =>
           /\ execs'[job[q]].phase = "MAY_HAVE_STARTED"
           /\ execs'[job[q]].terminal \in {"NONE", "OUTCOME_UNKNOWN"}
  PROVE  OwnerAgrees(q)' /\ ~Holds(q)'
<1>1. at[q] \in Int /\ revision \in Int /\ at[q] <= revision
  BY ParametersAssumption DEF DurableInv, TypeOK, OwnersInv, OwnerAgrees
<1>2. at'[q] <= revision' /\ at'[q] # revision'
  BY <1>1
<1>3. ~Holds(q)'
  BY <1>2 DEF Holds
<1>4. OwnerAgrees(q)
  BY DEF DurableInv, OwnersInv
<1>5. OwnerAgrees(q)'
  BY <1>2, <1>4 DEF OwnerAgrees, Fenced, Claimed
<1> QED
  BY <1>3, <1>5

(* A write that comes from no owner leaves all of them behind. *)
LEMMA OtherWrite ==
  ASSUME DurableInv, TypeOK', RowInv', RoomInv',
         revision' = revision + 1, enabled => enabled',
         UNCHANGED <<ownerVars, invocations, aborted>>,
         \A r \in Requests :
           \/ execs'[r] = execs[r]
           \/ /\ execs[r].phase = "PREPARED" /\ execs[r].terminal = "NONE"
              /\ execs'[r].phase = "PREPARED"
              /\ execs'[r].terminal = "NOT_INVOKED"
           \/ /\ execs[r].phase = "MAY_HAVE_STARTED"
              /\ execs[r].terminal = "NONE"
              /\ execs'[r].phase = "MAY_HAVE_STARTED"
              /\ execs'[r].terminal = "OUTCOME_UNKNOWN"
  PROVE  DurableInv'
<1>1. CallsInv'
  BY DEF DurableInv, CallsInv, CallsAgree
<1>2. ASSUME NEW q \in Procs PROVE OwnerAgrees(q)' /\ ~Holds(q)'
  <2>1. job[q] \in Requests /\ OwnerAgrees(q)
    BY DEF DurableInv, TypeOK, OwnersInv
  <2>2. pc[q] \in Fenced =>
          /\ execs'[job[q]].phase = "MAY_HAVE_STARTED"
          /\ execs'[job[q]].terminal \in {"NONE", "OUTCOME_UNKNOWN"}
    BY <2>1 DEF OwnerAgrees
  <2> QED
    BY <2>2, Overtaken DEF ownerVars
<1>3. RivalsInv'
  BY <1>2 DEF DurableInv, RivalsInv, ownerVars
<1> QED
  BY <1>1, <1>2, <1>3 DEF DurableInv, OwnersInv

(* A write by an owner leaves all the others behind. *)
LEMMA OwnerWrite ==
  ASSUME DurableInv, TypeOK', RowInv', RoomInv', CallsInv', NEW p \in Procs,
         revision' = revision + 1, enabled' = enabled, UNCHANGED invocations,
         \A q \in Procs \ {p} :
           /\ pc'[q] = pc[q] /\ job'[q] = job[q] /\ at'[q] = at[q]
           /\ claimed'[q] = claimed[q] /\ latched'[q] = latched[q]
           /\ calling'[q] = calling[q]
           /\ cleanupCertain'[q] = cleanupCertain[q]
           /\ pc[q] \in Fenced => execs'[job[q]] = execs[job[q]],
         OwnerAgrees(p)',
         pc'[p] \in Fenced =>
           /\ job'[p] = job[p]
           /\ \A q \in Procs \ {p} : pc[q] \in Fenced => job[q] # job[p]
  PROVE  DurableInv'
<1>1. ASSUME NEW q \in Procs \ {p} PROVE OwnerAgrees(q)' /\ ~Holds(q)'
  <2>1. OwnerAgrees(q)
    BY DEF DurableInv, OwnersInv
  <2> QED
    BY <2>1, Overtaken DEF OwnerAgrees
<1>2. RivalsInv'
  BY <1>1 DEF DurableInv, RivalsInv
<1> QED
  BY <1>1, <1>2 DEF DurableInv, OwnersInv

(* A step of an owner that writes nothing to the row. *)
LEMMA OwnerMove ==
  ASSUME DurableInv, TypeOK', NEW p \in Procs, UNCHANGED storeVars, CallsInv',
         \A r \in Requests : r # job[p] => invocations'[r] = invocations[r],
         \A q \in Procs \ {p} :
           /\ pc'[q] = pc[q] /\ job'[q] = job[q] /\ at'[q] = at[q]
           /\ claimed'[q] = claimed[q] /\ latched'[q] = latched[q]
           /\ calling'[q] = calling[q]
           /\ cleanupCertain'[q] = cleanupCertain[q],
         OwnerAgrees(p)',
         Holds(p)' => Holds(p),
         pc'[p] \in Fenced => job'[p] = job[p] /\ pc[p] \in Fenced,
         pc[p] \notin Fenced => UNCHANGED invocations
  PROVE  DurableInv'
<1>1. RowInv' /\ RoomInv'
  BY RowUntouched DEF DurableInv, storeVars
<1>2. ASSUME NEW q \in Procs \ {p} PROVE OwnerAgrees(q)' /\ (Holds(q)' <=> Holds(q))
  <2>1. OwnerAgrees(q) /\ job[q] \in Requests
    BY DEF DurableInv, OwnersInv, TypeOK
  <2>2. pc[q] \in Fenced => invocations'[job[q]] = invocations[job[q]]
    BY <2>1 DEF DurableInv, RivalsInv
  <2>3. OwnerAgrees(q)'
    BY <2>1, <2>2 DEF OwnerAgrees, Fenced, Claimed, storeVars
  <2> QED
    BY <2>3 DEF Holds, storeVars
<1>3. RivalsInv'
  BY <1>2 DEF DurableInv, RivalsInv
<1> QED
  BY <1>1, <1>2, <1>3 DEF DurableInv, OwnersInv

-----------------------------------------------------------------------------
(* Every step keeps the invariant. *)

LEMMA InitDurableInv == Init => DurableInv
<1> SUFFICES ASSUME Init PROVE DurableInv
  OBVIOUS
<1>1. TypeOK
  BY InitTypeOK
<1>2. \A r \in Requests :
        /\ execs[r].phase = "ABSENT" /\ execs[r].terminal = "NONE"
        /\ reqs[r] = "NONE" /\ invocations[r] = 0
  BY DEF Init, NoExecution
<1>3. Executed = {} /\ Nonterminal = {}
  BY <1>2 DEF Executed, Nonterminal
<1>4. RowInv
  BY <1>2, <1>3 DEF RowInv, RowAgrees, Init, HoldingStates
<1>5. RoomInv
  BY <1>3, FS_EmptySet, ParametersAssumption DEF RoomInv
<1>6. CallsInv
  BY <1>2 DEF CallsInv, CallsAgree, Init
<1>7. \A p \in Procs :
        /\ pc[p] = "idle" /\ ~claimed[p] /\ ~latched[p] /\ ~calling[p]
        /\ cleanupCertain[p] /\ at[p] = revision
  BY DEF Init
<1>8. OwnersInv /\ RivalsInv
  BY <1>1, <1>7, ParametersAssumption
  DEF OwnersInv, OwnerAgrees, RivalsInv, Holds, Claimed, Fenced, TypeOK
<1> QED
  BY <1>1, <1>4, <1>5, <1>6, <1>8 DEF DurableInv

(* The steps of an owner that write nothing. *)
LEMMA MovesKeepInv ==
  ASSUME DurableInv, TypeOK', NEW p \in Procs,
         \/ \E r \in Requests : StartRun(p, r)
         \/ ReadSnapshot(p) \/ Confirm(p) \/ ArmTimer(p) \/ AssertCurrent(p)
         \/ (\E now \in Times : PrepareRefused(p, now)) \/ FenceRefused(p)
         \/ Callback(p) \/ TimerFires(p) \/ StoreFails(p)
         \/ Crash(p) \/ Restart(p)
  PROVE  DurableInv'
<1> USE DEF Fenced, Claimed
<1>0. OwnerAgrees(p) /\ TypeOK
  BY DEF DurableInv, OwnersInv
<1>1. UNCHANGED <<storeVars, invocations, aborted>>
  BY DEF StartRun, ReadSnapshot, Confirm, ArmTimer, AssertCurrent,
         PrepareRefused, FenceRefused, Callback, CallbackReturns,
         CallbackDrains, TimerFires, StoreFails, Crash, Restart
<1>2. CallsInv'
  BY <1>1 DEF DurableInv, CallsInv, CallsAgree, storeVars
<1>3. \A q \in Procs \ {p} :
        /\ pc'[q] = pc[q] /\ job'[q] = job[q] /\ at'[q] = at[q]
        /\ claimed'[q] = claimed[q] /\ latched'[q] = latched[q]
        /\ calling'[q] = calling[q]
        /\ cleanupCertain'[q] = cleanupCertain[q]
  BY <1>0
  DEF StartRun, ReadSnapshot, Confirm, ArmTimer, AssertCurrent,
      PrepareRefused, FenceRefused, Callback, CallbackReturns,
      CallbackDrains, TimerFires, StoreFails, Crash, Restart,
      Finish, Retire, GiveUp, TypeOK
<1>4. /\ OwnerAgrees(p)'
      /\ Holds(p)' => Holds(p)
      /\ pc'[p] \in Fenced => job'[p] = job[p] /\ pc[p] \in Fenced
  <2> USE <1>0, <1>1 DEF OwnerAgrees, Holds, storeVars, TypeOK
  <2>1. ASSUME NEW r \in Requests, StartRun(p, r)
        PROVE  /\ OwnerAgrees(p)'
               /\ Holds(p)' => Holds(p)
               /\ pc'[p] \in Fenced => job'[p] = job[p] /\ pc[p] \in Fenced
    BY <2>1 DEF StartRun
  <2>2. CASE ReadSnapshot(p)
    BY <2>2 DEF ReadSnapshot, Finish
  <2>3. CASE Confirm(p)
    BY <2>3 DEF Confirm
  <2>4. CASE ArmTimer(p)
    BY <2>4 DEF ArmTimer, GiveUp
  <2>5. CASE AssertCurrent(p)
    BY <2>5 DEF AssertCurrent
  <2>6. CASE (\E now \in Times : PrepareRefused(p, now)) \/ FenceRefused(p)
    BY <2>6 DEF PrepareRefused, FenceRefused, Finish
  <2>7. CASE CallbackReturns(p)
    BY <2>7 DEF CallbackReturns, GiveUp
  <2>8. CASE CallbackDrains(p)
    BY <2>8 DEF CallbackDrains
  <2>9. CASE TimerFires(p)
    BY <2>9 DEF TimerFires, GiveUp
  <2>10. CASE StoreFails(p)
    BY <2>10 DEF StoreFails, StoreStep, Retire
  <2>11. CASE Crash(p)
    BY <2>11 DEF Crash
  <2>12. CASE Restart(p)
    BY <2>12 DEF Restart
  <2> QED
    BY <2>1, <2>2, <2>3, <2>4, <2>5, <2>6, <2>7, <2>8, <2>9, <2>10, <2>11,
       <2>12 DEF Callback
<1> QED
  BY <1>0, <1>1, <1>2, <1>3, <1>4, OwnerMove

(* The call itself: the one step that relies on what its owner knew before. *)
LEMMA InvokeKeepsInv ==
  ASSUME DurableInv, TypeOK', NEW p \in Procs, Invoke(p)
  PROVE  DurableInv'
<1> USE DEF Fenced, Claimed
<1>0. OwnerAgrees(p) /\ TypeOK /\ job[p] \in Requests
  BY DEF DurableInv, OwnersInv, TypeOK
<1>1. /\ execs[job[p]].phase = "MAY_HAVE_STARTED"
      /\ execs[job[p]].terminal \in {"NONE", "OUTCOME_UNKNOWN"}
      /\ invocations[job[p]] = 0 /\ invocations'[job[p]] = 1
      /\ \A r \in Requests : r # job[p] => invocations'[r] = invocations[r]
  BY <1>0 DEF Invoke, OwnerAgrees, TypeOK
<1>2. CallsInv'
  BY <1>1 DEF Invoke, DurableInv, CallsInv, CallsAgree, storeVars
<1>3. OwnerAgrees(p)' /\ (Holds(p)' => Holds(p))
  BY <1>0, <1>1 DEF Invoke, OwnerAgrees, Holds, TypeOK, storeVars
<1>4. \A q \in Procs \ {p} :
        /\ pc'[q] = pc[q] /\ job'[q] = job[q] /\ at'[q] = at[q]
        /\ claimed'[q] = claimed[q] /\ latched'[q] = latched[q]
        /\ calling'[q] = calling[q]
        /\ cleanupCertain'[q] = cleanupCertain[q]
  BY <1>0 DEF Invoke, TypeOK
<1> QED
  BY <1>1, <1>2, <1>3, <1>4, OwnerMove DEF Invoke

(* What an owner that may write knows of its execution. *)
LEMMA WriterKnows ==
  ASSUME DurableInv, NEW p \in Procs, at[p] = revision
  PROVE  /\ job[p] \in Requests
         /\ pc[p] = "fence" =>
              job[p] \in Nonterminal /\ execs[job[p]].phase = "PREPARED"
         /\ pc[p] \in Fenced =>
              /\ job[p] \in Nonterminal
              /\ execs[job[p]].phase = "MAY_HAVE_STARTED"
         /\ \A q \in Procs \ {p} :
              pc[p] \in Fenced /\ pc[q] \in Fenced => job[q] # job[p]
BY DEF DurableInv, TypeOK, OwnersInv, OwnerAgrees, RivalsInv, Nonterminal,
       Executed

LEMMA ClaimKeepsInv ==
  ASSUME DurableInv, TypeOK', NEW p \in Procs, NEW ack \in BOOLEAN, Claim(p, ack)
  PROVE  DurableInv'
<1> USE DEF Fenced, Claimed, Acknowledged, Proceed, Retire
<1>0. OwnerAgrees(p) /\ TypeOK /\ revision \in Int
  BY ParametersAssumption DEF DurableInv, OwnersInv, TypeOK
<1>1. /\ UNCHANGED <<enabled, sealed, reqs, execs, invocations, aborted>>
      /\ revision' = revision + 1
  BY DEF Claim, Writes
<1>2. RowInv' /\ RoomInv' /\ CallsInv'
  BY <1>1, RowUntouched DEF DurableInv, CallsInv, CallsAgree
<1>3. \A q \in Procs \ {p} :
        /\ pc'[q] = pc[q] /\ job'[q] = job[q] /\ at'[q] = at[q]
        /\ claimed'[q] = claimed[q] /\ latched'[q] = latched[q]
        /\ calling'[q] = calling[q]
        /\ cleanupCertain'[q] = cleanupCertain[q]
  BY <1>0 DEF Claim, TypeOK
<1>4. OwnerAgrees(p)' /\ pc'[p] \notin Fenced
  BY <1>0, <1>1 DEF Claim, OwnerAgrees, TypeOK
<1> QED
  BY <1>1, <1>2, <1>3, <1>4, OwnerWrite

LEMMA PrepareKeepsInv ==
  ASSUME DurableInv, TypeOK', NEW p \in Procs, NEW now, NEW ack \in BOOLEAN,
         Prepare(p, now, ack)
  PROVE  DurableInv'
<1> USE DEF Fenced, Claimed, Acknowledged, Proceed, Retire
<1>0. OwnerAgrees(p) /\ TypeOK /\ revision \in Int
  BY ParametersAssumption DEF DurableInv, OwnersInv, TypeOK
<1>1. /\ UNCHANGED <<enabled, sealed, invocations, aborted>>
      /\ revision' = revision + 1
  BY DEF Prepare, Writes
<1>2. CallsInv'
  BY <1>1, PrepareKeepsRow DEF DurableInv, CallsInv, CallsAgree
<1>3. ASSUME NEW q \in Procs \ {p}
      PROVE  /\ pc'[q] = pc[q] /\ job'[q] = job[q] /\ at'[q] = at[q]
             /\ claimed'[q] = claimed[q] /\ latched'[q] = latched[q]
             /\ calling'[q] = calling[q]
             /\ cleanupCertain'[q] = cleanupCertain[q]
             /\ pc[q] \in Fenced => execs'[job[q]] = execs[job[q]]
  <2>1. job[q] \in Requests /\ OwnerAgrees(q)
    BY DEF DurableInv, OwnersInv, TypeOK
  <2>2. pc[q] \in Fenced => execs'[job[q]] = execs[job[q]]
    BY <2>1, PrepareKeepsRow DEF OwnerAgrees
  <2> QED
    BY <1>0, <2>2 DEF Prepare, TypeOK
<1>4. OwnerAgrees(p)' /\ pc'[p] \notin Fenced
  BY <1>0, <1>1, PrepareKeepsRow DEF Prepare, OwnerAgrees, TypeOK
<1> QED
  BY <1>1, <1>2, <1>3, <1>4, PrepareKeepsRow, OwnerWrite

LEMMA FenceKeepsInv ==
  ASSUME DurableInv, TypeOK', NEW p \in Procs, NEW now, NEW ack \in BOOLEAN,
         Fence(p, now, ack)
  PROVE  DurableInv'
<1> USE DEF Fenced, Claimed, Acknowledged, Proceed, Retire
<1>0. OwnerAgrees(p) /\ TypeOK /\ revision \in Int
  BY ParametersAssumption DEF DurableInv, OwnersInv, TypeOK
<1>1. /\ UNCHANGED <<enabled, invocations, aborted>>
      /\ revision' = revision + 1
  BY DEF Fence, Writes, EndNotInvoked
<1>2. /\ job[p] \in Nonterminal /\ job[p] \in Requests
      /\ execs[job[p]].phase = "PREPARED" /\ execs[job[p]].terminal = "NONE"
  BY WriterKnows DEF Fence, Nonterminal
<1>3. /\ RowInv' /\ RoomInv'
      /\ \A r \in Requests \ {job[p]} : execs'[r] = execs[r]
      /\ \/ /\ execs'[job[p]].phase = "MAY_HAVE_STARTED"
            /\ execs'[job[p]].terminal = "NONE"
            /\ Acknowledged(p, "arm", ack)
         \/ /\ execs'[job[p]].phase = "PREPARED"
            /\ execs'[job[p]].terminal = "NOT_INVOKED"
            /\ Acknowledged(p, "idle", ack)
  <2>1. CASE InTime(job[p], now)
    BY <1>0, <1>2, <2>1, FenceKeepsRow DEF Fence, DurableInv, RoomInv
  <2>2. CASE ~InTime(job[p], now)
    BY <1>0, <1>2, <2>2, EndNotInvokedKeepsRow DEF Fence, DurableInv, RoomInv
  <2> QED
    BY <2>1, <2>2
<1>4. invocations[job[p]] = 0 /\ job[p] \notin aborted
  <2>1. CallsAgree(job[p]) /\ invocations[job[p]] \in Nat
    BY <1>0, <1>2 DEF DurableInv, CallsInv, TypeOK
  <2> QED
    BY <1>2, <2>1 DEF CallsAgree
<1>5. CallsInv'
  BY <1>1, <1>2, <1>3, <1>4 DEF DurableInv, CallsInv, CallsAgree
<1>6. ASSUME NEW q \in Procs \ {p}
      PROVE  /\ pc'[q] = pc[q] /\ job'[q] = job[q] /\ at'[q] = at[q]
             /\ claimed'[q] = claimed[q] /\ latched'[q] = latched[q]
             /\ calling'[q] = calling[q]
             /\ cleanupCertain'[q] = cleanupCertain[q]
             /\ pc[q] \in Fenced =>
                  job[q] # job[p] /\ execs'[job[q]] = execs[job[q]]
  <2>1. job[q] \in Requests /\ OwnerAgrees(q)
    BY DEF DurableInv, OwnersInv, TypeOK
  <2>2. pc[q] \in Fenced => job[q] # job[p] /\ execs'[job[q]] = execs[job[q]]
    BY <1>2, <1>3, <2>1 DEF OwnerAgrees
  <2> QED
    BY <1>0, <1>3, <2>2 DEF TypeOK
<1>7. OwnerAgrees(p)' /\ job'[p] = job[p]
  BY <1>0, <1>1, <1>2, <1>3, <1>4 DEF Fence, OwnerAgrees, TypeOK
<1> QED
  BY <1>1, <1>3, <1>5, <1>6, <1>7, OwnerWrite

(* The two ways to give an outcome up, and the one to settle it. *)
LEMMA EndsKeepInv ==
  ASSUME DurableInv, TypeOK', NEW p \in Procs, NEW now, NEW ack \in BOOLEAN,
         MarkUnknown(p, ack) \/ Complete(p, now, ack)
  PROVE  DurableInv'
<1> USE DEF Fenced, Claimed
<1>0. OwnerAgrees(p) /\ TypeOK /\ revision \in Int
  BY ParametersAssumption DEF DurableInv, OwnersInv, TypeOK
<1>1. /\ UNCHANGED <<enabled, invocations>>
      /\ revision' = revision + 1 /\ at[p] = revision
      /\ pc[p] \in {"unknown", "complete"}
  BY DEF MarkUnknown, Complete, Writes, EndUnknown
<1>2. /\ job[p] \in Nonterminal /\ job[p] \in Requests
      /\ execs[job[p]].phase = "MAY_HAVE_STARTED"
      /\ execs[job[p]].terminal = "NONE"
      /\ \A q \in Procs \ {p} : pc[q] \in Fenced => job[q] # job[p]
  BY <1>1, WriterKnows DEF Nonterminal
<1>3. /\ RowInv' /\ RoomInv'
      /\ \A r \in Requests \ {job[p]} : execs'[r] = execs[r]
      /\ execs'[job[p]].phase = "MAY_HAVE_STARTED"
      /\ \/ execs'[job[p]].terminal = "OUTCOME_UNKNOWN"
         \/ execs'[job[p]].terminal = "SUCCEEDED" /\ pc[p] = "complete"
  <2>1. CASE EndUnknown(job[p])
    BY <1>0, <1>2, <2>1, EndUnknownKeepsRow DEF DurableInv, RoomInv
  <2>2. CASE Complete(p, now, ack) /\ InTime(job[p], now)
    BY <1>0, <1>2, <2>2, SuccessKeepsRow DEF Complete, DurableInv, RoomInv
  <2> QED
    BY <2>1, <2>2 DEF MarkUnknown, Complete
<1>4. /\ pc'[p] \in {"idle", "draining"} /\ at'[p] <= revision'
      /\ claimed'[p] = claimed[p] /\ calling'[p] = calling[p]
      /\ job' = job
      /\ calling[p] => pc'[p] = "draining"
      /\ ~cleanupCertain'[p] => pc'[p] = "draining"
  BY <1>0, <1>1
  DEF MarkUnknown, Complete, Retire, Acknowledged, Proceed, TypeOK, OwnerAgrees
<1>5. CallsInv'
  <2>1. ASSUME NEW r \in Requests \ {job[p]} PROVE CallsAgree(r)'
    <3>1. r \in aborted' => r \in aborted
      BY DEF MarkUnknown, Complete
    <3> QED
      BY <1>1, <1>3, <3>1 DEF DurableInv, CallsInv, CallsAgree
  <2>2. /\ CallsAgree(job[p])
        /\ pc[p] = "complete" => invocations[job[p]] = 1
    BY <1>0, <1>2 DEF DurableInv, CallsInv, OwnerAgrees
  <2>3. job[p] \notin aborted
    BY <1>2, <2>2 DEF CallsAgree
  <2>4. job[p] \in aborted' =>
          /\ execs'[job[p]].terminal = "OUTCOME_UNKNOWN"
          /\ invocations[job[p]] = 1
    <3>1. CASE MarkUnknown(p, ack)
      BY <1>0, <1>3, <2>3, <3>1 DEF MarkUnknown, OwnerAgrees
    <3>2. CASE Complete(p, now, ack)
      BY <2>3, <3>2 DEF Complete
    <3> QED
      BY <3>1, <3>2
  <2>5. CallsAgree(job[p])'
    BY <1>1, <1>3, <1>4, <2>2, <2>4 DEF CallsAgree
  <2> QED
    BY <1>2, <1>4, <2>1, <2>5 DEF CallsInv
<1>6. ASSUME NEW q \in Procs \ {p}
      PROVE  /\ pc'[q] = pc[q] /\ job'[q] = job[q] /\ at'[q] = at[q]
             /\ claimed'[q] = claimed[q] /\ latched'[q] = latched[q]
             /\ calling'[q] = calling[q]
             /\ cleanupCertain'[q] = cleanupCertain[q]
             /\ pc[q] \in Fenced => execs'[job[q]] = execs[job[q]]
  <2>1. job[q] \in Requests
    BY <1>0 DEF TypeOK
  <2> QED
    BY <1>0, <1>2, <1>3, <1>4, <2>1
    DEF MarkUnknown, Complete, Retire, Acknowledged, Proceed, TypeOK
<1>7. OwnerAgrees(p)'
  BY <1>0, <1>1, <1>4 DEF OwnerAgrees
<1> QED
  BY <1>1, <1>3, <1>4, <1>5, <1>6, <1>7, OwnerWrite

(* What other callers of the store do. *)
LEMMA OtherCallersKeepInv ==
  ASSUME DurableInv, TypeOK', OtherCaller
  PROVE  DurableInv'
<1>1. revision' = revision + 1 /\ UNCHANGED <<ownerVars, invocations, aborted>>
  BY DEF OtherCaller, InitializeDurableExecution, WriteElsewhere,
         RecoverAfterRestart, ExpireGrant, RevokeGrant, LegacyReserve,
         LegacyBegin, LegacySucceed, LegacyRelease, LegacyUnknown, LegacyStep,
         Writes
<1>2. CASE UNCHANGED <<enabled, sealed, reqs, execs>>
  BY <1>1, <1>2, RowUntouched, OtherWrite DEF DurableInv
<1>3. CASE RecoverAfterRestart
  <2>1. enabled' = enabled
    BY <1>3 DEF RecoverAfterRestart, EndNotInvoked, EndUnknown
  <2> QED
    BY <1>1, <1>3, <2>1, RecoveryKeepsRow, OtherWrite
<1>4. CASE InitializeDurableExecution
  BY <1>1, <1>4, ByHandKeepsRow, OtherWrite
<1>5. ASSUME NEW r \in Requests,
             \/ \E now \in Times : LegacyReserve(r, now) \/ LegacyBegin(r, now)
             \/ LegacySucceed(r) \/ LegacyRelease(r) \/ LegacyUnknown(r)
      PROVE  DurableInv'
  <2>1. \E s \in RequestState :
          ~enabled /\ reqs' = [reqs EXCEPT ![r] = s]
            /\ UNCHANGED <<enabled, sealed, execs>>
    BY <1>5 DEF LegacyReserve, LegacyBegin, LegacySucceed, LegacyRelease,
                LegacyUnknown, LegacyStep, RequestState
  <2> QED
    BY <1>1, <2>1, ByHandKeepsRow, OtherWrite
<1> QED
  BY <1>2, <1>3, <1>4, <1>5
  DEF OtherCaller, WriteElsewhere, ExpireGrant, RevokeGrant

LEMMA StepDurableInv ==
  ASSUME DurableInv, [Next]_vars
  PROVE  DurableInv'
<1>0. TypeOK'
  BY StepTypeOK DEF DurableInv
<1>1. CASE UNCHANGED vars
  BY <1>0, <1>1, RowUntouched
  DEF vars, storeVars, ownerVars, DurableInv, CallsInv, CallsAgree, OwnersInv,
      OwnerAgrees, RivalsInv, Holds
<1>2. ASSUME NEW p \in Procs, OwnerStep(p) PROVE DurableInv'
  BY <1>0, <1>2, MovesKeepInv, InvokeKeepsInv, ClaimKeepsInv,
     PrepareKeepsInv, FenceKeepsInv, EndsKeepInv DEF OwnerStep
<1>3. ASSUME NEW p \in Procs,
             \/ \E r \in Requests : StartRun(p, r)
             \/ Callback(p) \/ TimerFires(p) \/ Crash(p) \/ Restart(p)
      PROVE  DurableInv'
  BY <1>0, <1>3, MovesKeepInv
<1>4. CASE OtherCaller
  BY <1>0, <1>4, OtherCallersKeepInv
<1> QED
  BY <1>1, <1>2, <1>3, <1>4 DEF Next

LEMMA DurableInvHolds == Spec => []DurableInv
BY InitDurableInv, StepDurableInv, PTL DEF Spec

-----------------------------------------------------------------------------
(* The invariants. *)

(* The application is called at most once for a request, whoever overtakes    *)
(* the owner that calls it, and the row never contradicts the call.           *)
THEOREM CalledAsRecordedHolds == Spec => []CalledAsRecorded
<1>1. DurableInv => CalledAsRecorded
  <2> SUFFICES ASSUME DurableInv PROVE CalledAsRecorded
    OBVIOUS
  <2>1. ASSUME NEW r \in Requests
        PROVE  /\ invocations[r] <= 1
               /\ execs[r].terminal = "NOT_INVOKED" => invocations[r] = 0
               /\ execs[r].terminal = "SUCCEEDED" => invocations[r] = 1
               /\ invocations[r] > 0 =>
                    reqs[r] \in {"EXECUTING", "OUTCOME_UNKNOWN", "SUCCEEDED"}
               /\ r \in aborted =>
                    execs[r].terminal = "OUTCOME_UNKNOWN" /\ invocations[r] = 1
    <3>1. /\ invocations[r] \in Nat /\ CallsAgree(r) /\ RowAgrees(r)
          /\ execs[r].terminal \in Terminals
      BY DEF DurableInv, TypeOK, CallsInv, RowInv, Execution
    <3> QED
      BY <3>1 DEF CallsAgree, RowAgrees, Terminals
  <2> QED
    BY <2>1 DEF CalledAsRecorded, DurableInv
<1> QED
  BY <1>1, DurableInvHolds, PTL

(* The ledger and the executions never contradict each other, at most one     *)
(* execution is open, there is room for all of them, and the generation is    *)
(* sealed exactly when an outcome is unknown.                                 *)
THEOREM CrossLinkedHolds == Spec => []CrossLinked
<1>1. DurableInv => CrossLinked
  <2> SUFFICES ASSUME DurableInv, enabled PROVE CrossLinked
    BY DEF CrossLinked
  <2>1. Cardinality(Nonterminal) <= 1
    <3>1. CASE Nonterminal = {}
      BY <3>1, FS_EmptySet
    <3>2. ASSUME NEW r \in Nonterminal PROVE Cardinality(Nonterminal) <= 1
      <4>1. Nonterminal = {r}
        BY DEF DurableInv, RowInv
      <4> QED
        BY <4>1, FS_Singleton
    <3> QED
      BY <3>1, <3>2
  <2>2. ASSUME NEW r \in Requests
        PROVE  /\ RowAgrees(r) /\ execs[r].terminal \in Terminals
               /\ execs[r].phase = "ABSENT" => execs[r].terminal = "NONE"
               /\ r \in Executed <=> execs[r].phase # "ABSENT"
    BY DEF DurableInv, RowInv, TypeOK, Execution, RowAgrees, Executed
  <2>3. sealed <=> \E r \in Executed : execs[r].terminal = "OUTCOME_UNKNOWN"
    BY <2>2 DEF DurableInv, RowInv, Executed
  <2>4. ASSUME NEW r \in Executed
        PROVE  reqs[r] =
                 CASE execs[r].terminal = "NONE" -> "EXECUTING"
                   [] execs[r].terminal = "NOT_INVOKED" -> "FAILED_RELEASED"
                   [] execs[r].terminal = "SUCCEEDED" -> "SUCCEEDED"
                   [] execs[r].terminal = "OUTCOME_UNKNOWN" -> "OUTCOME_UNKNOWN"
    <3>1. r \in Requests
      BY DEF Executed
    <3> QED
      BY <2>2, <3>1 DEF RowAgrees, Terminals
  <2>5. \A r \in Requests : reqs[r] \in HoldingStates => r \in Executed
    BY <2>2 DEF RowAgrees
  <2> QED
    BY <2>1, <2>3, <2>4, <2>5 DEF DurableInv, RoomInv, CrossLinked
<1> QED
  BY <1>1, DurableInvHolds, PTL

(* No owner is free while anything of its last run is left: not while its     *)
(* callback runs, and never again once it has lost its timer.                 *)
THEOREM FreeOnlyWhenSafeHolds == Spec => []FreeOnlyWhenSafe
<1>1. DurableInv => FreeOnlyWhenSafe
  BY DEF DurableInv, OwnersInv, OwnerAgrees, FreeOnlyWhenSafe
<1> QED
  BY <1>1, DurableInvHolds, PTL

(* Of all owners that believe they hold the ledger, at most one is right. *)
THEOREM OneCurrentOwnerHolds == Spec => []OneCurrentOwner
<1>1. DurableInv => OneCurrentOwner
  BY DEF DurableInv, RivalsInv, Holds, OneCurrentOwner
<1> QED
  BY <1>1, DurableInvHolds, PTL

-----------------------------------------------------------------------------
(* The seal. *)

(* Once an outcome is unknown, every transaction that could move units, or    *)
(* admit a request, needs an execution that is still open.                    *)
UnitsFrozen ==
  /\ sealed' /\ Executed' = Executed
  /\ \A g \in Grants :
       /\ grants'[g].available = grants[g].available
       /\ grants'[g].held = grants[g].held
       /\ grants'[g].consumed = grants[g].consumed

LEMMA SealedStep ==
  ASSUME DurableInv, [Next]_vars, sealed
  PROVE  UnitsFrozen
<1>1. /\ enabled /\ Nonterminal = {} /\ TypeOK
      /\ \A g \in Grants : grants[g] \in Grant
  BY DEF DurableInv, RowInv, RowAgrees, TypeOK
<1>2. CASE UNCHANGED <<sealed, execs, grants>>
  BY <1>2 DEF Executed, UnitsFrozen
<1>3. ASSUME NEW g \in Grants, NEW now,
             UNCHANGED <<sealed, execs>>,
             \/ grants' = [grants EXCEPT ![g] = Refreshed(@, ExpiresAt[g], now)]
             \/ grants' = [grants EXCEPT ![g].lifecycle = "REVOKED"]
      PROVE  UnitsFrozen
  <2>1. DOMAIN grants = Grants /\ \A h \in Grants : grants[h] \in Grant
    BY <1>1 DEF TypeOK
  <2>2. \A h \in Grants \ {g} : grants'[h] = grants[h]
    BY <1>3, <2>1
  <2>3. /\ grants'[g].available = grants[g].available
        /\ grants'[g].held = grants[g].held
        /\ grants'[g].consumed = grants[g].consumed
    <3>1. \/ grants'[g] = Refreshed(grants[g], ExpiresAt[g], now)
          \/ grants'[g] = [grants[g] EXCEPT !.lifecycle = "REVOKED"]
      BY <1>3, <2>1
    <3> QED
      BY <2>1, <3>1 DEF Refreshed, Grant
  <2>4. sealed' /\ Executed' = Executed
    BY <1>3 DEF Executed
  <2> QED
    BY <2>2, <2>3, <2>4 DEF UnitsFrozen
<1>4. ASSUME NEW p \in Procs, OwnerStep(p) PROVE UNCHANGED <<sealed, execs, grants>>
  <2>1. ASSUME NEW now, NEW ack, Prepare(p, now, ack) PROVE FALSE
    BY <2>1 DEF Prepare, Admits
  <2>2. ASSUME NEW now, NEW ack,
               Fence(p, now, ack) \/ MarkUnknown(p, ack) \/ Complete(p, now, ack)
        PROVE FALSE
    BY <1>1, <2>2, WriterKnows DEF Fence, MarkUnknown, Complete, Fenced
  <2> QED
    BY <1>4, <2>1, <2>2
    DEF OwnerStep, ReadSnapshot, Claim, Confirm, PrepareRefused, FenceRefused,
        ArmTimer, AssertCurrent, Invoke, StoreFails, storeVars
<1>5. ASSUME NEW p \in Procs,
             \/ \E r \in Requests : StartRun(p, r)
             \/ Callback(p) \/ TimerFires(p) \/ Crash(p) \/ Restart(p)
      PROVE  UNCHANGED <<sealed, execs, grants>>
  BY <1>5 DEF StartRun, Callback, CallbackReturns, CallbackDrains, TimerFires,
              Crash, Restart, storeVars
<1>6. CASE OtherCaller
  <2>1. ~RecoverAfterRestart
    BY <1>1 DEF RecoverAfterRestart
  <2>2. ASSUME NEW r \in Requests, NEW s, NEW t PROVE ~LegacyStep(r, s, t)
    BY <1>1 DEF LegacyStep
  <2>3. CASE InitializeDurableExecution \/ WriteElsewhere
    BY <1>2, <2>3 DEF InitializeDurableExecution, WriteElsewhere
  <2>4. ASSUME NEW g \in Grants, NEW now \in Times,
               ExpireGrant(g, now) \/ RevokeGrant(g, now)
        PROVE  UnitsFrozen
    BY <1>3, <2>4 DEF ExpireGrant, RevokeGrant
  <2> QED
    BY <1>6, <2>1, <2>2, <2>3, <2>4
    DEF OtherCaller, LegacyReserve, LegacyBegin, LegacySucceed, LegacyRelease,
        LegacyUnknown
<1> QED
  BY <1>2, <1>4, <1>5, <1>6 DEF Next, vars, storeVars

(* A generation is never unsealed, and a sealed one moves no unit of any      *)
(* grant: revoking and expiring change a grant's lifecycle only.              *)
THEOREM SealFreezesLedgerHolds == Spec => SealFreezesLedger
<1>1. DurableInv /\ [Next]_vars => [sealed => UnitsFrozen]_vars
  BY SealedStep
<1> QED
  BY <1>1, DurableInvHolds, PTL DEF Spec, SealFreezesLedger, UnitsFrozen

-----------------------------------------------------------------------------
(* The refinement: durable execution implements MeteredService. *)

\* The mapped variables, as PromiseKept instantiates them.
settlement == [r \in Requests |-> settlementOf(r)]
invoked == {r \in Requests : invocations[r] > 0}

(* What an execution shows of its request. *)
Shown(e) ==
  CASE e.phase = "ABSENT" -> "none"
    [] e.terminal = "NONE" /\ e.phase # "ABSENT" -> "open"
    [] e.terminal = "SUCCEEDED" -> "charged"
    [] e.terminal = "NOT_INVOKED" -> "released"
    [] e.terminal = "OUTCOME_UNKNOWN" -> "unresolved"

LEMMA ShownOutcomes ==
  ASSUME NEW e \in Execution
  PROVE  /\ e.phase = "ABSENT" /\ e.terminal = "NONE" => Shown(e) = "none"
         /\ e.phase # "ABSENT" =>
              /\ e.terminal = "NONE" => Shown(e) = "open"
              /\ e.terminal = "SUCCEEDED" => Shown(e) = "charged"
              /\ e.terminal = "NOT_INVOKED" => Shown(e) = "released"
              /\ e.terminal = "OUTCOME_UNKNOWN" => Shown(e) = "unresolved"
<1>1. CASE e.phase = "ABSENT" /\ e.terminal = "NONE"
  BY <1>1 DEF Shown
<1>2. CASE e.phase # "ABSENT" /\ e.terminal = "NONE"
  BY <1>2 DEF Shown
<1>3. CASE e.phase # "ABSENT" /\ e.terminal = "SUCCEEDED"
  BY <1>3 DEF Shown
<1>4. CASE e.phase # "ABSENT" /\ e.terminal = "NOT_INVOKED"
  BY <1>4 DEF Shown
<1>5. CASE e.phase # "ABSENT" /\ e.terminal = "OUTCOME_UNKNOWN"
  BY <1>5 DEF Shown
<1>6. e.terminal \in Terminals
  BY DEF Execution
<1> QED
  BY <1>1, <1>2, <1>3, <1>4, <1>5, <1>6 DEF Terminals

(* The mapping, now and after a step. *)
LEMMA SettlementOf ==
  /\ settlement = [r \in Requests |-> Shown(execs[r])]
  /\ settlement' = [r \in Requests |-> Shown(execs'[r])]
BY DEF settlement, settlementOf, Shown

(* One execution that changes is one settlement that changes. *)
LEMMA SettlementMoves ==
  ASSUME NEW r \in Requests, \A q \in Requests \ {r} : execs'[q] = execs[q]
  PROVE  settlement' = [settlement EXCEPT ![r] = Shown(execs'[r])]
BY SettlementOf

LEMMA SettlementStays ==
  ASSUME UNCHANGED <<execs, invocations>>
  PROVE  UNCHANGED <<settlement, invoked>>
BY SettlementOf DEF invoked

LEMMA ImplementsStep ==
  ASSUME DurableInv, [Next]_vars
  PROVE  [Promise!Next]_(Promise!vars)
<1> USE DEF Promise!vars
<1>0. TypeOK /\ TypeOK'
  BY StepTypeOK DEF DurableInv
<1>1. CASE UNCHANGED <<execs, invocations>>
  BY <1>1, SettlementStays DEF settlement, invoked
<1>2. ASSUME NEW r \in Nonterminal, UNCHANGED invocations,
             \A q \in Requests \ {r} : execs'[q] = execs[q],
             \/ /\ execs[r].phase = "PREPARED" /\ execs'[r].phase = "PREPARED"
                /\ execs'[r].terminal = "NOT_INVOKED"
             \/ /\ execs'[r].phase = "MAY_HAVE_STARTED"
                /\ execs'[r].terminal = "OUTCOME_UNKNOWN"
             \/ /\ execs'[r].phase = "MAY_HAVE_STARTED"
                /\ execs'[r].terminal = "SUCCEEDED" /\ invocations[r] = 1
      PROVE  Promise!Next
  <2>1. /\ r \in Requests /\ execs[r].phase # "ABSENT"
        /\ execs[r].terminal = "NONE"
    BY DEF Nonterminal, Executed
  <2>0. execs[r] \in Execution /\ execs'[r] \in Execution
    BY <1>0, <2>1 DEF TypeOK
  <2>2. settlement[r] = "open"
    BY <2>0, <2>1, SettlementOf, ShownOutcomes
  <2>3. settlement' = [settlement EXCEPT ![r] = Shown(execs'[r])]
    BY <1>2, <2>1, SettlementMoves
  <2>4. UNCHANGED invoked
    BY <1>2 DEF invoked
  <2>5. r \in invoked <=> invocations[r] = 1
    BY <1>0, <2>1 DEF invoked, DurableInv, CallsInv, CallsAgree, TypeOK
  <2>6. CASE execs[r].phase = "PREPARED" /\ execs'[r].phase = "PREPARED"
             /\ execs'[r].terminal = "NOT_INVOKED"
    <3>1. Shown(execs'[r]) = "released"
      BY <2>0, <2>6, ShownOutcomes
    <3>2. r \notin invoked
      BY <2>1, <2>5, <2>6 DEF DurableInv, CallsInv, CallsAgree
    <3>3. Promise!Release(r)
      BY <2>2, <2>3, <2>4, <3>1, <3>2
      DEF Promise!Release, Promise!Settle, settlement, invoked
    <3> QED
      BY <2>1, <3>3 DEF Promise!Next
  <2>7. CASE execs'[r].phase = "MAY_HAVE_STARTED"
             /\ execs'[r].terminal = "OUTCOME_UNKNOWN"
    <3>1. Shown(execs'[r]) = "unresolved"
      BY <2>0, <2>7, ShownOutcomes
    <3>2. Promise!GiveUp(r)
      BY <2>2, <2>3, <2>4, <3>1
      DEF Promise!GiveUp, Promise!Settle, settlement, invoked
    <3> QED
      BY <2>1, <3>2 DEF Promise!Next
  <2>8. CASE execs'[r].phase = "MAY_HAVE_STARTED"
             /\ execs'[r].terminal = "SUCCEEDED" /\ invocations[r] = 1
    <3>1. Shown(execs'[r]) = "charged"
      BY <2>0, <2>8, ShownOutcomes
    <3>2. Promise!Charge(r)
      BY <2>2, <2>3, <2>4, <2>5, <2>8, <3>1
      DEF Promise!Charge, Promise!Settle, settlement, invoked
    <3> QED
      BY <2>1, <3>2 DEF Promise!Next
  <2> QED
    BY <1>2, <2>6, <2>7, <2>8
<1>3. ASSUME NEW p \in Procs, NEW now, NEW ack, Prepare(p, now, ack)
      PROVE  Promise!Next
  <2> DEFINE r == job[p]
  <2>1. r \in Requests
    BY <1>0 DEF TypeOK
  <2>2. /\ execs[r].phase = "ABSENT" /\ execs[r].terminal = "NONE"
        /\ execs' = [execs EXCEPT ![r] =
             [phase |-> "PREPARED", terminal |-> "NONE", start |-> now]]
    <3>1. /\ reqs[r] = "NONE" /\ RowAgrees(r)
          /\ execs' = [execs EXCEPT ![r] =
               [phase |-> "PREPARED", terminal |-> "NONE", start |-> now]]
      BY <1>3, <2>1 DEF Prepare, Admits, DurableInv, RowInv
    <3>2. execs[r].terminal \in Terminals
      BY <1>0, <2>1 DEF TypeOK, Execution
    <3> QED
      BY <3>1, <3>2 DEF RowAgrees, Terminals
  <2>3. /\ settlement[r] = "none"
        /\ settlement' = [settlement EXCEPT ![r] = "open"]
    <3>1. execs[r] \in Execution /\ execs'[r] \in Execution
      BY <1>0, <2>1 DEF TypeOK
    <3>2. /\ execs'[r].phase = "PREPARED" /\ execs'[r].terminal = "NONE"
          /\ \A q \in Requests \ {r} : execs'[q] = execs[q]
      BY <1>0, <2>1, <2>2 DEF TypeOK
    <3>3. Shown(execs[r]) = "none" /\ Shown(execs'[r]) = "open"
      BY <2>2, <3>1, <3>2, ShownOutcomes
    <3> QED
      BY <2>1, <3>2, <3>3, SettlementOf, SettlementMoves
  <2>4. ~sealed /\ Nonterminal = {}
    BY <1>3 DEF Prepare, Admits
  <2>5. ASSUME NEW q \in Requests PROVE settlement[q] \notin {"open", "unresolved"}
    <3>1. execs[q].terminal # "OUTCOME_UNKNOWN"
      BY <2>4 DEF DurableInv, RowInv
    <3>2. ~(execs[q].phase # "ABSENT" /\ execs[q].terminal = "NONE")
      BY <2>4 DEF Nonterminal, Executed
    <3>3. execs[q] \in Execution /\ execs[q].terminal \in Terminals
      BY <1>0 DEF TypeOK, Execution
    <3>4. execs[q].phase = "ABSENT" => execs[q].terminal = "NONE"
      BY DEF DurableInv, RowInv, RowAgrees
    <3> QED
      BY <3>1, <3>2, <3>3, <3>4, ShownOutcomes, SettlementOf DEF Terminals
  <2>6. UNCHANGED invoked
    BY <1>3 DEF Prepare, invoked
  <2>7. Promise!Admit(r)
    BY <2>1, <2>3, <2>5, <2>6 DEF Promise!Admit, settlement, invoked
  <2> QED
    BY <2>1, <2>7 DEF Promise!Next
<1>4. ASSUME NEW p \in Procs, Invoke(p)
      PROVE  Promise!Next
  <2>0. PICK r \in Requests : r = job[p]
    BY <1>0 DEF TypeOK
  <2>1. /\ r \in Requests
        /\ execs[r].phase = "MAY_HAVE_STARTED"
        /\ execs[r].terminal \in {"NONE", "OUTCOME_UNKNOWN"}
        /\ invocations[r] = 0
    <3>1. pc[p] = "invoke" /\ OwnerAgrees(p) /\ r \in Requests
      BY <1>0, <1>4 DEF Invoke, DurableInv, OwnersInv, TypeOK
    <3> QED
      BY <2>0, <3>1 DEF OwnerAgrees, Fenced
  <2>2. settlement[r] \in {"open", "unresolved"}
    <3>1. execs[r] \in Execution
      BY <1>0, <2>1 DEF TypeOK
    <3> QED
      BY <2>1, <3>1, ShownOutcomes, SettlementOf
  <2>3. UNCHANGED settlement
    BY <1>4, SettlementOf DEF Invoke, storeVars
  <2>4. invoked' = invoked \cup {r} /\ r \notin invoked
    <3>1. invocations' = [invocations EXCEPT ![r] = invocations[r] + 1]
      BY <1>4, <2>0 DEF Invoke
    <3>2. invocations \in [Requests -> Nat]
      BY <1>0 DEF TypeOK
    <3>3. /\ invocations'[r] = 1
          /\ \A q \in Requests \ {r} : invocations'[q] = invocations[q]
      BY <2>1, <3>1, <3>2
    <3> QED
      BY <2>1, <3>3 DEF invoked
  <2>5. Promise!Invoke(r)
    BY <2>1, <2>2, <2>3, <2>4 DEF Promise!Invoke, settlement, invoked
  <2> QED
    BY <2>5 DEF Promise!Next
<1>5. ASSUME NEW p \in Procs, NEW now, NEW ack,
             Fence(p, now, ack) \/ MarkUnknown(p, ack) \/ Complete(p, now, ack)
      PROVE  [Promise!Next]_(Promise!vars)
  <2> DEFINE r == job[p]
  <2>1. /\ r \in Nonterminal /\ r \in Requests /\ UNCHANGED invocations
        /\ pc[p] = "fence" => execs[r].phase = "PREPARED"
        /\ pc[p] \in Fenced => execs[r].phase = "MAY_HAVE_STARTED"
    BY <1>5, WriterKnows DEF Fence, MarkUnknown, Complete, Fenced
  <2>2. CASE Fence(p, now, ack) /\ InTime(r, now)
    <3>1. /\ execs'[r].phase = "MAY_HAVE_STARTED" /\ execs'[r].terminal = "NONE"
          /\ \A q \in Requests \ {r} : execs'[q] = execs[q]
      BY <1>0, <2>1, <2>2, FenceKeepsRow DEF Fence, DurableInv
    <3>2. Shown(execs[r]) = "open" /\ Shown(execs'[r]) = "open"
      <4>1. execs[r] \in Execution /\ execs'[r] \in Execution
        BY <1>0, <2>1 DEF TypeOK
      <4> QED
        BY <2>1, <3>1, <4>1, ShownOutcomes DEF Nonterminal, Executed
    <3>3. UNCHANGED <<settlement, invoked>>
      BY <2>1, <3>1, <3>2, SettlementOf DEF invoked
    <3> QED
      BY <3>3 DEF settlement, invoked
  <2>3. CASE Fence(p, now, ack) /\ ~InTime(r, now)
    <3>1. EndNotInvoked(r) /\ execs[r].phase = "PREPARED"
      BY <2>1, <2>3 DEF Fence
    <3> QED
      BY <1>0, <1>2, <2>1, <3>1, EndNotInvokedKeepsRow DEF DurableInv
  <2>4. CASE EndUnknown(r) /\ execs[r].phase = "MAY_HAVE_STARTED"
    BY <1>0, <1>2, <2>1, <2>4, EndUnknownKeepsRow DEF DurableInv
  <2>5. CASE Complete(p, now, ack) /\ InTime(r, now)
    <3>1. /\ execs[r].phase = "MAY_HAVE_STARTED" /\ invocations[r] = 1
      BY <2>1, <2>5 DEF Complete, Fenced, DurableInv, OwnersInv, OwnerAgrees
    <3>2. /\ execs' = [execs EXCEPT ![r].terminal = "SUCCEEDED"]
          /\ reqs' = [reqs EXCEPT ![r] = "SUCCEEDED"]
          /\ UNCHANGED <<enabled, sealed>>
      BY <2>5 DEF Complete
    <3> QED
      BY <1>0, <1>2, <2>1, <3>1, <3>2, SuccessKeepsRow DEF DurableInv
  <2> QED
    BY <1>5, <2>1, <2>2, <2>3, <2>4, <2>5 DEF MarkUnknown, Complete, Fence, Fenced
<1>6. ASSUME NEW p \in Procs, OwnerStep(p) PROVE [Promise!Next]_(Promise!vars)
  <2>1. CASE UNCHANGED <<execs, invocations>>
    BY <1>1, <2>1
  <2> QED
    BY <1>3, <1>4, <1>5, <1>6, <2>1
    DEF OwnerStep, ReadSnapshot, Claim, Confirm, PrepareRefused, FenceRefused,
        ArmTimer, AssertCurrent, StoreFails, storeVars
<1>7. ASSUME NEW p \in Procs,
             \/ \E r \in Requests : StartRun(p, r)
             \/ Callback(p) \/ TimerFires(p) \/ Crash(p) \/ Restart(p)
      PROVE  UNCHANGED <<execs, invocations>>
  BY <1>7 DEF StartRun, Callback, CallbackReturns, CallbackDrains, TimerFires,
              Crash, Restart, storeVars
<1>8. CASE OtherCaller
  <2>1. CASE RecoverAfterRestart
    <3>1. PICK r \in Nonterminal :
            \/ execs[r].phase = "PREPARED" /\ EndNotInvoked(r)
            \/ execs[r].phase = "MAY_HAVE_STARTED" /\ EndUnknown(r)
      BY <2>1 DEF RecoverAfterRestart
    <3>2. UNCHANGED invocations
      BY <2>1 DEF RecoverAfterRestart
    <3> QED
      BY <1>0, <1>2, <3>1, <3>2, EndNotInvokedKeepsRow, EndUnknownKeepsRow
      DEF DurableInv
  <2>2. CASE ~RecoverAfterRestart
    <3>1. UNCHANGED <<execs, invocations>>
      BY <1>8, <2>2
      DEF OtherCaller, InitializeDurableExecution, WriteElsewhere, ExpireGrant,
          RevokeGrant, LegacyReserve, LegacyBegin, LegacySucceed, LegacyRelease,
          LegacyUnknown, LegacyStep
    <3> QED
      BY <1>1, <3>1
  <2> QED
    BY <2>1, <2>2
<1> QED
  BY <1>1, <1>6, <1>7, <1>8 DEF Next, vars, storeVars

(* Durable execution with its rivals, crashes and recoveries is, seen through *)
(* its executions and the calls of the application, a MeteredService.         *)
THEOREM PromiseKeptHolds == Spec => PromiseKept
<1>1. Init => Promise!Init
  <2> SUFFICES ASSUME Init PROVE Promise!Init
    OBVIOUS
  <2>1. \A r \in Requests : settlementOf(r) = "none" /\ invocations[r] = 0
    BY DEF Init, settlementOf, NoExecution
  <2> QED
    BY <2>1 DEF Promise!Init
<1>2. DurableInv /\ [Next]_vars => [Promise!Next]_(Promise!vars)
  BY ImplementsStep
<1> QED
  BY <1>1, <1>2, DurableInvHolds, PTL DEF Spec, PromiseKept, Promise!Spec
=============================================================================
