---------------------- MODULE ServiceCreditModelProofs ----------------------
(***************************************************************************)
(* Proofs about ServiceCreditModel, for every value of its constants.      *)
(*                                                                         *)
(* The ledger never recomputes a grant's counters, so that they stay non-  *)
(* negative follows only from heldUnits being the sum of the prices of the *)
(* requests that hold units.  The sum is stated without its order: a       *)
(* measure of the sets of request ids is additive when adding one id to a  *)
(* set adds that id's weight, and heldUnits is the measure of the set of   *)
(* all request ids.  That the fold of a restart computes this measure is   *)
(* SumMeasured.                                                            *)
(***************************************************************************)
EXTENDS ServiceCreditModel, FiniteSetTheorems, WellFoundedInduction, TLAPS

Weight(a) ==
  [i \in RequestIds |->
     IF requests[<<a, i>>].state \in HoldingStates
     THEN requests[<<a, i>>].cost ELSE 0]

Additive(m, w) ==
  /\ m \in [SUBSET RequestIds -> Nat]
  /\ m[{}] = 0
  /\ \A S \in SUBSET RequestIds : \A i \in RequestIds \ S :
       m[S \cup {i}] = m[S] + w[i]

\* The weights w of all request ids add up to h.
SumsTo(w, h) == \E m : Additive(m, w) /\ m[RequestIds] = h

Accounted(a) ==
  /\ SumsTo(Weight(a), grants[a].held)
  /\ grants[a].available \in Nat
  /\ grants[a].consumed \in Nat
  /\ Activated(a) =>
       grants[a].available + grants[a].held + grants[a].consumed = a.totalUnits
  /\ ~Activated(a) => grants[a].held = 0

Counted(r) ==
  /\ requests[r].state \in {"NONE", "RESERVED"} => authorizations[r] = 0
  /\ requests[r].state \in {"EXECUTING", "OUTCOME_UNKNOWN", "SUCCEEDED"}
       => authorizations[r] = 1
  /\ authorizations[r] <= 1

LEMMA WeightType ==
  ASSUME TypeOK, NEW a \in Activations
  PROVE  Weight(a) \in [RequestIds -> Nat]
BY DEF TypeOK, Weight, Request, RequestKeys

(* A sum of weights is a natural number that bounds each weight, and moves  *)
(* with the one weight that changes.                                        *)
LEMMA SumBounds ==
  ASSUME NEW w \in [RequestIds -> Nat], NEW h, SumsTo(w, h)
  PROVE  /\ h \in Nat
         /\ \A i \in RequestIds : w[i] <= h
<1>1. PICK m : Additive(m, w) /\ m[RequestIds] = h
  BY DEF SumsTo
<1>2. h \in Nat
  BY <1>1 DEF Additive
<1>3. ASSUME NEW i \in RequestIds PROVE w[i] <= h
  <2>1. (RequestIds \ {i}) \cup {i} = RequestIds
    OBVIOUS
  <2>2. m[RequestIds] = m[RequestIds \ {i}] + w[i]
    BY <1>1, <2>1 DEF Additive
  <2>3. m[RequestIds \ {i}] \in Nat
    BY <1>1 DEF Additive
  <2> QED
    BY <1>1, <1>2, <2>2, <2>3
<1> QED
  BY <1>2, <1>3

LEMMA SumUpdate ==
  ASSUME NEW w \in [RequestIds -> Nat], NEW h, SumsTo(w, h),
         NEW i \in RequestIds, NEW v \in Nat,
         NEW u \in [RequestIds -> Nat],
         u[i] = v, \A j \in RequestIds \ {i} : u[j] = w[j],
         NEW k, k = h - w[i] + v
  PROVE  SumsTo(u, k)
<1>0. PICK m : Additive(m, w) /\ m[RequestIds] = h
  BY DEF SumsTo
<1> DEFINE n == [S \in SUBSET RequestIds |->
                   IF i \in S THEN m[S \ {i}] + v ELSE m[S]]
<1>1. n \in [SUBSET RequestIds -> Nat]
  BY <1>0 DEF Additive
<1>2. n[{}] = 0
  <2>1. m[{}] = 0
    BY <1>0 DEF Additive
  <2> QED
    BY <2>1
<1>3. ASSUME NEW S \in SUBSET RequestIds, NEW j \in RequestIds \ S
      PROVE  n[S \cup {j}] = n[S] + u[j]
  <2>1. CASE j = i
    <3>1. (S \cup {j}) \ {i} = S
      BY <2>1
    <3>2. n[S \cup {j}] = m[S] + v
      BY <2>1, <3>1
    <3> QED
      BY <2>1, <3>2
  <2>2. CASE j # i /\ i \in S
    <3>1. (S \cup {j}) \ {i} = (S \ {i}) \cup {j}
      BY <2>2
    <3>2. m[(S \ {i}) \cup {j}] = m[S \ {i}] + w[j]
      BY <1>0, <2>2 DEF Additive
    <3>3. n[S \cup {j}] = (m[S \ {i}] + w[j]) + v
      BY <2>2, <3>1, <3>2
    <3>4. n[S] = m[S \ {i}] + v /\ u[j] = w[j]
      BY <2>2
    <3>5. m[S \ {i}] \in Nat /\ w[j] \in Nat
      BY <1>0 DEF Additive
    <3> QED
      BY <3>3, <3>4, <3>5
  <2>3. CASE j # i /\ i \notin S
    <3>1. n[S \cup {j}] = m[S \cup {j}] /\ n[S] = m[S] /\ u[j] = w[j]
      BY <2>3
    <3> QED
      BY <1>0, <3>1 DEF Additive
  <2> QED
    BY <2>1, <2>2, <2>3
<1>4. n[RequestIds] = k
  <2>1. (RequestIds \ {i}) \cup {i} = RequestIds
    OBVIOUS
  <2>2. m[RequestIds] = m[RequestIds \ {i}] + w[i]
    BY <1>0, <2>1 DEF Additive
  <2>3. m[RequestIds \ {i}] \in Nat /\ m[RequestIds] \in Nat
    BY <1>0 DEF Additive
  <2>4. n[RequestIds] = m[RequestIds \ {i}] + v
    OBVIOUS
  <2> QED
    BY <1>0, <2>2, <2>3, <2>4
<1>5. Additive(n, u)
  BY <1>1, <1>2, <1>3 DEF Additive
<1> QED
  BY <1>4, <1>5 DEF SumsTo

-----------------------------------------------------------------------------
(* Type correctness. *)

LEMMA GrantOperators ==
  ASSUME NEW g \in Grant, NEW cost \in Nat, NEW e, NEW t
  PROVE  /\ Refreshed(g, e, t) \in Grant
         /\ Hold(g, cost) \in Grant
         /\ ReturnHeld(g, cost) \in Grant
         /\ ConsumeHeld(g, cost) \in Grant
<1>1. Refreshed(g, e, t) \in Grant
  <2>1. [g EXCEPT !.lifecycle = "EXPIRED"] \in Grant
    BY DEF Grant, GrantLifecycle
  <2> QED
    BY <2>1 DEF Refreshed
<1>2. Hold(g, cost) \in Grant
  <2>1. g.available - cost \in Int /\ g.held + cost \in Int
    BY DEF Grant
  <2>2. [g EXCEPT !.available = g.available - cost] \in Grant
    BY <2>1 DEF Grant
  <2>3. [[g EXCEPT !.available = g.available - cost]
           EXCEPT !.held = g.held + cost] \in Grant
    BY <2>1, <2>2 DEF Grant
  <2> QED
    BY <2>3 DEF Hold, Grant
<1>3. ReturnHeld(g, cost) \in Grant
  <2>1. g.held - cost \in Int /\ g.available + cost \in Int
    BY DEF Grant
  <2>2. [g EXCEPT !.held = g.held - cost] \in Grant
    BY <2>1 DEF Grant
  <2>3. [[g EXCEPT !.held = g.held - cost]
           EXCEPT !.available = g.available + cost] \in Grant
    BY <2>1, <2>2 DEF Grant
  <2> QED
    BY <2>3 DEF ReturnHeld, Grant
<1>4. ConsumeHeld(g, cost) \in Grant
  <2>1. g.held - cost \in Int /\ g.consumed + cost \in Int
    BY DEF Grant
  <2>2. [g EXCEPT !.held = g.held - cost] \in Grant
    BY <2>1 DEF Grant
  <2>3. [[g EXCEPT !.held = g.held - cost]
           EXCEPT !.consumed = g.consumed + cost] \in Grant
    BY <2>1, <2>2 DEF Grant
  <2> QED
    BY <2>3 DEF ConsumeHeld, Grant
<1> QED
  BY <1>1, <1>2, <1>3, <1>4

LEMMA RequestMoves ==
  ASSUME NEW q \in Request
  PROVE  /\ [q EXCEPT !.state = "EXECUTING"] \in Request
         /\ [q EXCEPT !.state = "FAILED_RELEASED"] \in Request
         /\ \A result \in Results :
              [[q EXCEPT !.state = "SUCCEEDED"] EXCEPT !.result = result] \in Request
<1>1. ASSUME NEW state \in RequestState
      PROVE  [q EXCEPT !.state = state] \in Request
  BY DEF Request
<1>2. {"EXECUTING", "FAILED_RELEASED", "SUCCEEDED"} \subseteq RequestState
  BY DEF RequestState
<1>3. ASSUME NEW result \in Results
      PROVE  [[q EXCEPT !.state = "SUCCEEDED"] EXCEPT !.result = result] \in Request
  <2>1. [q EXCEPT !.state = "SUCCEEDED"] \in Request
    BY <1>1, <1>2
  <2> QED
    BY <2>1 DEF Request
<1> QED
  BY <1>1, <1>2, <1>3

LEMMA InitTypeOK == Init => TypeOK
BY DEF Init, TypeOK, Grant, NoGrant, Request, NoRequest

LEMMA StepTypeOK ==
  ASSUME TypeOK, [Next]_vars
  PROVE  TypeOK'
<1> USE ActivationsAssumption, ValuesAssumption DEF TypeOK, indexVars
<1>1. ASSUME NEW k \in OfferKeys, NEW s \in Scopes, RegisterOffer(k, s)
      PROVE  TypeOK'
  BY <1>1 DEF RegisterOffer
<1>2. ASSUME NEW a \in Activations, NEW t \in Times,
             ActivateGrantFromTrustedRecord(a, t)
      PROVE  TypeOK'
  <2>1. NewGrant(a.totalUnits) \in Grant
    BY DEF NewGrant, Grant, GrantLifecycle
  <2> QED
    BY <1>2, <2>1 DEF ActivateGrantFromTrustedRecord
<1>3. ASSUME NEW a \in Activations, NEW t \in Times, GetGrant(a, t)
      PROVE  TypeOK'
  BY <1>3, GrantOperators DEF GetGrant, ReadActive, ReadExpired
<1>4. ASSUME NEW a \in Activations, NEW t \in Times, RevokeGrant(a, t)
      PROVE  TypeOK'
  <2>1. [grants[a] EXCEPT !.lifecycle = "REVOKED"] \in Grant
    BY DEF Grant, GrantLifecycle
  <2>2. Refreshed(grants[a], a.expiresAt, t) \in Grant
    BY GrantOperators
  <2>3. grants' \in [Activations -> Grant] /\ clock' = t
    BY <1>4, <2>1, <2>2 DEF RevokeGrant, ReadActive, ReadExpired
  <2>4. UNCHANGED <<offers, indexVars, requests, authorizations>>
    BY <1>4 DEF RevokeGrant
  <2> QED
    BY <2>3, <2>4
<1>5. ASSUME NEW r \in RequestKeys, NEW body \in Bodies, NEW maxCost \in Costs,
             NEW cost \in Costs, NEW t1 \in Times, NEW t2 \in Times,
             ReserveRequest(r, body, maxCost, cost, t1, t2)
      PROVE  TypeOK'
  <2>1. [state |-> "RESERVED", body |-> body, maxCost |-> maxCost,
         cost |-> cost, result |-> None] \in Request
    BY DEF Request, RequestState
  <2>2. r[1] \in Activations
    BY DEF RequestKeys
  <2>3. Hold(grants[r[1]], cost) \in Grant
    BY <2>2, GrantOperators
  <2>4. ASSUME NEW t \in Times
        PROVE  Refreshed(grants[r[1]], r[1].expiresAt, t) \in Grant
    BY <2>2, GrantOperators
  <2>5. grants' \in [Activations -> Grant]
    BY <1>5, <2>2, <2>3, <2>4 DEF ReserveRequest, ReadActive, ReadExpired
  <2>6. requests' \in [RequestKeys -> Request]
    BY <1>5, <2>1 DEF ReserveRequest
  <2>7. clock' \in Nat
    BY <1>5 DEF ReserveRequest, ReadActive, ReadExpired
  <2> QED
    BY <1>5, <2>5, <2>6, <2>7 DEF ReserveRequest
<1>6. ASSUME NEW r \in RequestKeys, NEW t \in Times, BeginExecution(r, t)
      PROVE  TypeOK'
  <2>1. r[1] \in Activations
    BY DEF RequestKeys
  <2>2. [requests[r] EXCEPT !.state = "EXECUTING"] \in Request
    BY RequestMoves
  <2>3. Refreshed(grants[r[1]], r[1].expiresAt, t) \in Grant
    BY <2>1, GrantOperators
  <2>4. grants' \in [Activations -> Grant] /\ clock' = t
    BY <1>6, <2>1, <2>3 DEF BeginExecution, ReadActive, ReadExpired
  <2>5. /\ requests' \in [RequestKeys -> Request]
        /\ authorizations' \in [RequestKeys -> Nat]
    BY <1>6, <2>2 DEF BeginExecution
  <2>6. UNCHANGED <<offers, indexVars>>
    BY <1>6 DEF BeginExecution
  <2> QED
    BY <2>4, <2>5, <2>6
<1>7. ASSUME NEW r \in RequestKeys,
             ReleaseBeforeExecution(r) \/ ReconcileFailedReleased(r)
      PROVE  TypeOK'
  <2>1. r[1] \in Activations /\ requests[r].cost \in Nat
    BY DEF RequestKeys, Request
  <2>2. [requests[r] EXCEPT !.state = "FAILED_RELEASED"] \in Request
    BY RequestMoves
  <2>3. ReturnHeld(grants[r[1]], requests[r].cost) \in Grant
    BY <2>1, GrantOperators
  <2> QED
    BY <1>7, <2>1, <2>2, <2>3
    DEF ReleaseBeforeExecution, ReconcileFailedReleased
<1>8. ASSUME NEW r \in RequestKeys, NEW result \in Results,
             CompleteExecution(r, result) \/ ReconcileSucceeded(r, result)
      PROVE  TypeOK'
  <2>1. r[1] \in Activations /\ requests[r].cost \in Nat
    BY DEF RequestKeys, Request
  <2>2. [[requests[r] EXCEPT !.state = "SUCCEEDED"]
           EXCEPT !.result = result] \in Request
    BY RequestMoves
  <2>3. ConsumeHeld(grants[r[1]], requests[r].cost) \in Grant
    BY <2>1, GrantOperators
  <2>4. requests' = [requests EXCEPT ![r] =
          [[requests[r] EXCEPT !.state = "SUCCEEDED"] EXCEPT !.result = result]]
    BY <1>8 DEF CompleteExecution, ReconcileSucceeded
  <2>5. requests' \in [RequestKeys -> Request]
    BY <2>2, <2>4
  <2>6. grants' \in [Activations -> Grant]
    BY <1>8, <2>1, <2>3 DEF CompleteExecution, ReconcileSucceeded
  <2> QED
    BY <1>8, <2>5, <2>6
    DEF CompleteExecution, ReconcileSucceeded
<1>9. ASSUME NEW r \in RequestKeys, MarkOutcomeUnknown(r)
      PROVE  TypeOK'
  <2>1. [requests[r] EXCEPT !.state = "OUTCOME_UNKNOWN"] \in Request
    BY DEF Request, RequestState
  <2> QED
    BY <1>9, <2>1 DEF MarkOutcomeUnknown
<1>10. CASE UNCHANGED vars
  BY <1>10 DEF vars
<1> QED
  BY <1>1, <1>2, <1>3, <1>4, <1>5, <1>6, <1>7, <1>8, <1>9, <1>10 DEF Next

(* Every reachable state is well typed: no handler leaves a record, an index *)
(* or a counter outside its domain.                                         *)
THEOREM TypeCorrect == Spec => []TypeOK
BY InitTypeOK, StepTypeOK, PTL DEF Spec

-----------------------------------------------------------------------------
(* Serial execution and single authorisation. *)

ExecutionInv ==
  /\ TypeOK
  /\ SerialExecution
  /\ \A r \in RequestKeys : Counted(r)

LEMMA InitExecutionInv == Init => ExecutionInv
<1> SUFFICES ASSUME Init PROVE ExecutionInv
  OBVIOUS
<1>1. \A r \in RequestKeys : requests[r].state = "NONE" /\ authorizations[r] = 0
  BY DEF Init, NoRequest
<1> QED
  BY <1>1, InitTypeOK
  DEF ExecutionInv, SerialExecution, Unresolved, UnresolvedStates, Counted

LEMMA StepExecutionInv ==
  ASSUME ExecutionInv, [Next]_vars
  PROVE  ExecutionInv'
<1>0. TypeOK'
  BY StepTypeOK DEF ExecutionInv
<1> USE DEF ExecutionInv, TypeOK, SerialExecution, Unresolved,
            UnresolvedStates, Counted
(* The steps that leave every request and every authorisation alone. *)
<1>1. ASSUME UNCHANGED <<requests, authorizations>>
      PROVE  ExecutionInv'
  BY <1>0, <1>1
(* The steps that close, or leave unresolved, a request begun earlier. *)
<1>2. ASSUME NEW r \in RequestKeys,
             requests[r].state \in {"EXECUTING", "OUTCOME_UNKNOWN"},
             UNCHANGED authorizations,
             requests'[r].state \in
               {"OUTCOME_UNKNOWN", "SUCCEEDED", "FAILED_RELEASED"},
             \A q \in RequestKeys \ {r} : requests'[q] = requests[q]
      PROVE  ExecutionInv'
  <2>1. SerialExecution'
    BY <1>2
  <2>2. ASSUME NEW q \in RequestKeys PROVE Counted(q)'
    BY <1>2
  <2> QED
    BY <1>0, <2>1, <2>2
(* The steps that reserve a request, or release one not yet begun. *)
<1>3. ASSUME NEW r \in RequestKeys,
             requests[r].state \in {"NONE", "RESERVED"},
             UNCHANGED authorizations,
             requests'[r].state \in {"RESERVED", "FAILED_RELEASED"},
             \A q \in RequestKeys \ {r} : requests'[q] = requests[q]
      PROVE  ExecutionInv'
  <2>1. SerialExecution'
    BY <1>3
  <2>2. ASSUME NEW q \in RequestKeys PROVE Counted(q)'
    BY <1>3
  <2> QED
    BY <1>0, <2>1, <2>2
(* The step that authorises a request. *)
<1>4. ASSUME NEW r \in RequestKeys,
             requests[r].state = "RESERVED",
             Unresolved = {},
             requests'[r].state = "EXECUTING",
             authorizations' = [authorizations EXCEPT ![r] = @ + 1],
             \A q \in RequestKeys \ {r} : requests'[q] = requests[q]
      PROVE  ExecutionInv'
  <2>1. SerialExecution'
    BY <1>4
  <2>2. ASSUME NEW q \in RequestKeys PROVE Counted(q)'
    BY <1>4
  <2> QED
    BY <1>0, <2>1, <2>2
<1>5. ASSUME NEW k \in OfferKeys, NEW s \in Scopes, RegisterOffer(k, s)
      PROVE  ExecutionInv'
  BY <1>1, <1>5 DEF RegisterOffer
<1>6. ASSUME NEW a \in Activations, NEW t \in Times,
             \/ ActivateGrantFromTrustedRecord(a, t)
             \/ GetGrant(a, t)
             \/ RevokeGrant(a, t)
      PROVE  ExecutionInv'
  BY <1>1, <1>6 DEF ActivateGrantFromTrustedRecord, GetGrant, RevokeGrant
<1>7. ASSUME NEW r \in RequestKeys, NEW body \in Bodies, NEW maxCost \in Costs,
             NEW cost \in Costs, NEW t1 \in Times, NEW t2 \in Times,
             ReserveRequest(r, body, maxCost, cost, t1, t2)
      PROVE  ExecutionInv'
  <2>1. CASE UNCHANGED requests
    BY <1>1, <1>7, <2>1 DEF ReserveRequest
  <2>2. CASE requests' = [requests EXCEPT ![r] =
                   [state |-> "RESERVED", body |-> body, maxCost |-> maxCost,
                    cost |-> cost, result |-> None]]
    BY <1>3, <1>7, <2>2 DEF ReserveRequest
  <2> QED
    BY <1>7, <2>1, <2>2 DEF ReserveRequest
<1>8. ASSUME NEW r \in RequestKeys, NEW t \in Times, BeginExecution(r, t)
      PROVE  ExecutionInv'
  <2>1. CASE UNCHANGED <<requests, authorizations>>
    BY <1>1, <2>1
  <2>2. CASE /\ requests' = [requests EXCEPT ![r].state = "EXECUTING"]
             /\ authorizations' = [authorizations EXCEPT ![r] = @ + 1]
    <3>1. requests'[r].state = "EXECUTING"
      BY <2>2 DEF Request
    <3> QED
      BY <1>4, <1>8, <2>2, <3>1 DEF BeginExecution
  <2> QED
    BY <1>8, <2>1, <2>2 DEF BeginExecution
<1>9. ASSUME NEW r \in RequestKeys, ReleaseBeforeExecution(r)
      PROVE  ExecutionInv'
  <2>1. requests'[r].state = "FAILED_RELEASED"
    BY <1>9 DEF ReleaseBeforeExecution, Request
  <2> QED
    BY <1>3, <1>9, <2>1 DEF ReleaseBeforeExecution
<1>10. ASSUME NEW r \in RequestKeys,
              MarkOutcomeUnknown(r) \/ ReconcileFailedReleased(r)
       PROVE  ExecutionInv'
  <2>1. requests'[r].state \in {"OUTCOME_UNKNOWN", "FAILED_RELEASED"}
    BY <1>10 DEF MarkOutcomeUnknown, ReconcileFailedReleased, Request
  <2> QED
    BY <1>2, <1>10, <2>1 DEF MarkOutcomeUnknown, ReconcileFailedReleased
<1>11. ASSUME NEW r \in RequestKeys, NEW result \in Results,
              CompleteExecution(r, result) \/ ReconcileSucceeded(r, result)
       PROVE  ExecutionInv'
  <2>1. requests'[r].state = "SUCCEEDED"
    BY <1>11 DEF CompleteExecution, ReconcileSucceeded, Request
  <2> QED
    BY <1>2, <1>11, <2>1 DEF CompleteExecution, ReconcileSucceeded
<1>12. CASE UNCHANGED vars
  BY <1>1, <1>12 DEF vars
<1> QED
  BY <1>5, <1>6, <1>7, <1>8, <1>9, <1>10, <1>11, <1>12 DEF Next

(* At most one request of the whole ledger is ever executing or unresolved, *)
(* however many grants and reservations there are.                          *)
THEOREM SerialExecutionHolds == Spec => []SerialExecution
<1>1. ExecutionInv => SerialExecution
  BY DEF ExecutionInv
<1> QED
  BY <1>1, InitExecutionInv, StepExecutionInv, PTL DEF Spec

(* A request id is authorised for execution at most once in its life, and no *)
(* request succeeds, executes or is left unresolved without having been.     *)
THEOREM AuthorizedAtMostOnceHolds == Spec => []AuthorizedAtMostOnce
<1>1. ExecutionInv => AuthorizedAtMostOnce
  BY DEF ExecutionInv, AuthorizedAtMostOnce, Counted
<1> QED
  BY <1>1, InitExecutionInv, StepExecutionInv, PTL DEF Spec

-----------------------------------------------------------------------------
(* The units. *)

AccountsInv ==
  /\ TypeOK
  /\ \A a \in Activations : Accounted(a)
  /\ \A r \in RequestKeys : requests[r].state # "NONE" => Activated(r[1])

(* A grant whose counters and request weights a step leaves alone.          *)
LEMMA AccountsKept ==
  ASSUME TypeOK, NEW a \in Activations, Accounted(a),
         grants'[a].available = grants[a].available,
         grants'[a].held = grants[a].held,
         grants'[a].consumed = grants[a].consumed,
         Activated(a)' <=> Activated(a),
         Weight(a)' = Weight(a)
  PROVE  Accounted(a)'
BY DEF Accounted

(* A grant one of whose requests changes its weight from w to v: held moves *)
(* with it, and the other two counters make up for it.                      *)
LEMMA AccountsMoved ==
  ASSUME TypeOK, NEW a \in Activations, Accounted(a),
         NEW i \in RequestIds, NEW v \in Nat,
         Weight(a)' \in [RequestIds -> Nat],
         Weight(a)'[i] = v,
         \A j \in RequestIds \ {i} : Weight(a)'[j] = Weight(a)[j],
         Activated(a), Activated(a)',
         grants'[a].held = grants[a].held - Weight(a)[i] + v,
         grants'[a].available \in Nat,
         grants'[a].consumed \in Nat,
         grants'[a].available + grants'[a].held + grants'[a].consumed =
           grants[a].available + grants[a].held + grants[a].consumed
  PROVE  Accounted(a)'
<1>1. Weight(a) \in [RequestIds -> Nat]
  BY WeightType
<1>2. SumsTo(Weight(a), grants[a].held)
  BY DEF Accounted
<1>3. SumsTo(Weight(a)', grants'[a].held)
  BY <1>1, <1>2, SumUpdate
<1> QED
  BY <1>3 DEF Accounted

LEMMA HeldBounds ==
  ASSUME TypeOK, NEW a \in Activations, Accounted(a)
  PROVE  /\ grants[a].held \in Nat
         /\ \A i \in RequestIds : Weight(a)[i] <= grants[a].held
<1>1. Weight(a) \in [RequestIds -> Nat]
  BY WeightType
<1> QED
  BY <1>1, SumBounds DEF Accounted

LEMMA InitAccountsInv == Init => AccountsInv
<1> SUFFICES ASSUME Init PROVE AccountsInv
  OBVIOUS
<1>1. TypeOK
  BY InitTypeOK
<1>2. ASSUME NEW a \in Activations PROVE Accounted(a)
  <2> DEFINE m == [S \in SUBSET RequestIds |-> 0]
  <2>1. Weight(a) = [i \in RequestIds |-> 0]
    BY DEF Init, Weight, NoRequest, HoldingStates, RequestKeys
  <2>2. Additive(m, Weight(a))
    BY <2>1 DEF Additive
  <2>3. grants[a] = NoGrant
    BY DEF Init
  <2>4. grants[a].held = m[RequestIds]
    BY <2>3 DEF NoGrant
  <2>5. SumsTo(Weight(a), grants[a].held)
    BY <2>2, <2>4 DEF SumsTo
  <2> QED
    BY <2>3, <2>5 DEF Accounted, Activated, NoGrant
<1>3. \A r \in RequestKeys : requests[r].state = "NONE"
  BY DEF Init, NoRequest
<1> QED
  BY <1>1, <1>2, <1>3 DEF AccountsInv

(* The weights of a grant move only at the request a step writes.           *)
LEMMA WeightKept ==
  ASSUME NEW a \in Activations, NEW r \in RequestKeys,
         \A q \in RequestKeys \ {r} : requests'[q] = requests[q],
         \/ r[1] # a
         \/ /\ requests'[r].cost = requests[r].cost
            /\ requests'[r].state \in HoldingStates
                 <=> requests[r].state \in HoldingStates
  PROVE  Weight(a)' = Weight(a)
<1>1. ASSUME NEW i \in RequestIds
      PROVE  Weight(a)'[i] = Weight(a)[i]
  <2>1. <<a, i>> \in RequestKeys
    BY DEF RequestKeys
  <2>2. CASE <<a, i>> = r
    BY <2>1, <2>2 DEF Weight
  <2>3. CASE <<a, i>> # r
    BY <2>1, <2>3 DEF Weight
  <2> QED
    BY <2>2, <2>3
<1> QED
  BY <1>1 DEF Weight

LEMMA WeightMoved ==
  ASSUME NEW r \in RequestKeys, NEW v,
         \A q \in RequestKeys \ {r} : requests'[q] = requests[q],
         v = IF requests'[r].state \in HoldingStates THEN requests'[r].cost ELSE 0
  PROVE  /\ Weight(r[1])'[r[2]] = v
         /\ \A j \in RequestIds \ {r[2]} : Weight(r[1])'[j] = Weight(r[1])[j]
<1>1. r[1] \in Activations /\ r[2] \in RequestIds /\ r = <<r[1], r[2]>>
  BY DEF RequestKeys
<1>2. ASSUME NEW i \in RequestIds
      PROVE  Weight(r[1])'[i] = IF i = r[2] THEN v ELSE Weight(r[1])[i]
  <2>1. <<r[1], i>> \in RequestKeys
    BY <1>1 DEF RequestKeys
  <2>2. CASE i = r[2]
    BY <1>1, <2>2 DEF Weight
  <2>3. CASE i # r[2]
    <3>1. <<r[1], i>> # r
      BY <1>1, <2>3
    <3> QED
      BY <2>1, <2>3, <3>1 DEF Weight
  <2> QED
    BY <2>2, <2>3
<1> QED
  BY <1>1, <1>2 DEF Weight

(* A step that leaves every counter and every request weight alone.         *)
LEMMA AccountsUntouched ==
  ASSUME AccountsInv, TypeOK',
         \A a \in Activations :
           /\ grants'[a].available = grants[a].available
           /\ grants'[a].held = grants[a].held
           /\ grants'[a].consumed = grants[a].consumed
           /\ Activated(a)' <=> Activated(a)
           /\ Weight(a)' = Weight(a),
         \A r \in RequestKeys :
           requests[r].state = "NONE" => requests'[r].state = "NONE"
  PROVE  AccountsInv'
<1>1. \A a \in Activations : Accounted(a)'
  BY AccountsKept DEF AccountsInv
<1>2. \A r \in RequestKeys : requests'[r].state # "NONE" => Activated(r[1])'
  BY DEF AccountsInv, RequestKeys
<1> QED
  BY <1>1, <1>2 DEF AccountsInv

(* A step that writes one request and its grant.                            *)
LEMMA AccountsWritten ==
  ASSUME AccountsInv, TypeOK', NEW r \in RequestKeys,
         \A q \in RequestKeys \ {r} : requests'[q] = requests[q],
         \A b \in Activations \ {r[1]} : grants'[b] = grants[b],
         Activated(r[1]), Activated(r[1])',
         NEW v \in Nat,
         v = IF requests'[r].state \in HoldingStates THEN requests'[r].cost ELSE 0,
         grants'[r[1]].held = grants[r[1]].held - Weight(r[1])[r[2]] + v,
         grants'[r[1]].available \in Nat,
         grants'[r[1]].consumed \in Nat,
         grants'[r[1]].available + grants'[r[1]].held + grants'[r[1]].consumed =
           grants[r[1]].available + grants[r[1]].held + grants[r[1]].consumed
  PROVE  AccountsInv'
<1>1. r[1] \in Activations /\ r[2] \in RequestIds
  BY DEF RequestKeys
<1>2. TypeOK /\ \A a \in Activations : Accounted(a)
  BY DEF AccountsInv
<1>3. Accounted(r[1])'
  <2>1. Weight(r[1])' \in [RequestIds -> Nat]
    BY <1>1 DEF Weight, TypeOK, Request, RequestKeys
  <2>2. /\ Weight(r[1])'[r[2]] = v
        /\ \A j \in RequestIds \ {r[2]} : Weight(r[1])'[j] = Weight(r[1])[j]
    BY WeightMoved
  <2> QED
    BY <1>1, <1>2, <2>1, <2>2, AccountsMoved
<1>4. ASSUME NEW b \in Activations, b # r[1]
      PROVE  Accounted(b)'
  <2>1. Weight(b)' = Weight(b)
    BY <1>4, WeightKept
  <2>2. Activated(b)' <=> Activated(b)
    BY <1>4 DEF Activated
  <2> QED
    BY <1>2, <1>4, <2>1, <2>2, AccountsKept
<1>5. ASSUME NEW q \in RequestKeys, requests'[q].state # "NONE"
      PROVE  Activated(q[1])'
  <2>1. CASE q[1] = r[1]
    BY <2>1
  <2>2. CASE q[1] # r[1]
    <3>1. q # r /\ q[1] \in Activations
      BY <2>2 DEF RequestKeys
    <3> QED
      BY <1>5, <2>2, <3>1 DEF AccountsInv, Activated
  <2> QED
    BY <2>1, <2>2
<1> QED
  BY <1>3, <1>4, <1>5 DEF AccountsInv

LEMMA GrantFields ==
  ASSUME NEW g \in Grant, NEW cost \in Nat, NEW e, NEW t
  PROVE  /\ Refreshed(g, e, t).available = g.available
         /\ Refreshed(g, e, t).held = g.held
         /\ Refreshed(g, e, t).consumed = g.consumed
         /\ Refreshed(g, e, t).lifecycle = "NONE" <=> g.lifecycle = "NONE"
         /\ Hold(g, cost).available = g.available - cost
         /\ Hold(g, cost).held = g.held + cost
         /\ Hold(g, cost).consumed = g.consumed
         /\ Hold(g, cost).lifecycle = g.lifecycle
         /\ ReturnHeld(g, cost).available = g.available + cost
         /\ ReturnHeld(g, cost).held = g.held - cost
         /\ ReturnHeld(g, cost).consumed = g.consumed
         /\ ReturnHeld(g, cost).lifecycle = g.lifecycle
         /\ ConsumeHeld(g, cost).available = g.available
         /\ ConsumeHeld(g, cost).held = g.held - cost
         /\ ConsumeHeld(g, cost).consumed = g.consumed + cost
         /\ ConsumeHeld(g, cost).lifecycle = g.lifecycle
<1>1. /\ Refreshed(g, e, t).available = g.available
      /\ Refreshed(g, e, t).held = g.held
      /\ Refreshed(g, e, t).consumed = g.consumed
      /\ Refreshed(g, e, t).lifecycle = "NONE" <=> g.lifecycle = "NONE"
  <2>1. CASE g.lifecycle = "ACTIVE" /\ t >= e
    BY <2>1 DEF Refreshed, Grant
  <2>2. CASE ~(g.lifecycle = "ACTIVE" /\ t >= e)
    BY <2>2 DEF Refreshed
  <2> QED
    BY <2>1, <2>2
<1>2. /\ Hold(g, cost).available = g.available - cost
      /\ Hold(g, cost).held = g.held + cost
      /\ Hold(g, cost).consumed = g.consumed
      /\ Hold(g, cost).lifecycle = g.lifecycle
  BY DEF Hold, Grant
<1>3. /\ ReturnHeld(g, cost).available = g.available + cost
      /\ ReturnHeld(g, cost).held = g.held - cost
      /\ ReturnHeld(g, cost).consumed = g.consumed
      /\ ReturnHeld(g, cost).lifecycle = g.lifecycle
  BY DEF ReturnHeld, Grant
<1>4. /\ ConsumeHeld(g, cost).available = g.available
      /\ ConsumeHeld(g, cost).held = g.held - cost
      /\ ConsumeHeld(g, cost).consumed = g.consumed + cost
      /\ ConsumeHeld(g, cost).lifecycle = g.lifecycle
  BY DEF ConsumeHeld, Grant
<1> QED
  BY <1>1, <1>2, <1>3, <1>4

LEMMA StepAccountsInv ==
  ASSUME AccountsInv, [Next]_vars
  PROVE  AccountsInv'
<1>0. TypeOK /\ TypeOK'
  BY StepTypeOK DEF AccountsInv
<1>a. ASSUME NEW a \in Activations
      PROVE  /\ grants[a] \in Grant
             /\ Accounted(a)
             /\ grants[a].available \in Nat
             /\ grants[a].held \in Nat
             /\ grants[a].consumed \in Nat
  BY <1>0, HeldBounds DEF AccountsInv, Accounted, TypeOK
(* The steps after which every grant has the counters it had. *)
<1>1. ASSUME UNCHANGED requests,
             \A a \in Activations :
               /\ grants'[a].available = grants[a].available
               /\ grants'[a].held = grants[a].held
               /\ grants'[a].consumed = grants[a].consumed
               /\ grants'[a].lifecycle = "NONE" <=> grants[a].lifecycle = "NONE"
      PROVE  AccountsInv'
  <2>1. \A a \in Activations : Weight(a)' = Weight(a)
    BY <1>1 DEF Weight
  <2> QED
    BY <1>0, <1>1, <2>1, AccountsUntouched DEF Activated
<1>2. ASSUME NEW a \in Activations, NEW t, ReadExpired(a, t), UNCHANGED requests
      PROVE  AccountsInv'
  <2>1. grants' = [grants EXCEPT ![a] = Refreshed(grants[a], a.expiresAt, t)]
    BY <1>2 DEF ReadExpired
  <2>2. /\ Refreshed(grants[a], a.expiresAt, t).available = grants[a].available
        /\ Refreshed(grants[a], a.expiresAt, t).held = grants[a].held
        /\ Refreshed(grants[a], a.expiresAt, t).consumed = grants[a].consumed
        /\ Refreshed(grants[a], a.expiresAt, t).lifecycle = "NONE"
             <=> grants[a].lifecycle = "NONE"
    BY <1>a, GrantFields
  <2> QED
    BY <1>0, <1>1, <1>2, <2>1, <2>2 DEF TypeOK
<1>3. ASSUME NEW k \in OfferKeys, NEW s \in Scopes, RegisterOffer(k, s)
      PROVE  AccountsInv'
  BY <1>1, <1>3 DEF RegisterOffer
<1>4. ASSUME NEW a \in Activations, NEW t \in Times,
             ActivateGrantFromTrustedRecord(a, t)
      PROVE  AccountsInv'
  <2>1. grants'[a] = NewGrant(a.totalUnits) /\ UNCHANGED requests
    BY <1>0, <1>4 DEF ActivateGrantFromTrustedRecord, TypeOK
  <2>2. /\ grants'[a].held = 0
        /\ grants'[a].available = a.totalUnits
        /\ grants'[a].consumed = 0
        /\ Activated(a)'
    BY <2>1 DEF NewGrant, Activated
  <2>3. Weight(a)' = Weight(a) /\ SumsTo(Weight(a), 0)
    <3>1. grants[a].held = 0 /\ SumsTo(Weight(a), grants[a].held)
      BY <1>a, <1>4
      DEF ActivateGrantFromTrustedRecord, IdentitiesFree, Accounted
    <3> QED
      BY <2>1, <3>1 DEF Weight
  <2>4. a.totalUnits \in Nat
    BY ActivationsAssumption
  <2>5. Accounted(a)'
    BY <2>2, <2>3, <2>4 DEF Accounted
  <2>6. ASSUME NEW b \in Activations, b # a
        PROVE  Accounted(b)'
    <3>1. grants'[b] = grants[b]
      BY <1>0, <1>4, <2>6 DEF ActivateGrantFromTrustedRecord, TypeOK
    <3>2. Weight(b)' = Weight(b)
      BY <2>1 DEF Weight
    <3>3. Activated(b)' <=> Activated(b)
      BY <3>1 DEF Activated
    <3> QED
      BY <1>0, <1>a, <3>1, <3>2, <3>3, AccountsKept
  <2>7. ASSUME NEW q \in RequestKeys, requests'[q].state # "NONE"
        PROVE  Activated(q[1])'
    <3>1. q[1] \in Activations /\ Activated(q[1])
      BY <2>1, <2>7 DEF AccountsInv, RequestKeys
    <3> QED
      BY <1>0, <1>4, <2>2, <3>1
      DEF Activated, ActivateGrantFromTrustedRecord, TypeOK
  <2> QED
    BY <1>0, <2>5, <2>6, <2>7 DEF AccountsInv
<1>5. ASSUME NEW a \in Activations, NEW t \in Times, GetGrant(a, t)
      PROVE  AccountsInv'
  BY <1>1, <1>2, <1>5 DEF GetGrant
<1>6. ASSUME NEW a \in Activations, NEW t \in Times, RevokeGrant(a, t)
      PROVE  AccountsInv'
  <2>1. CASE ReadExpired(a, t)
    BY <1>2, <1>6, <2>1 DEF RevokeGrant
  <2>2. CASE /\ ReadActive(a, t)
             /\ grants' = [grants EXCEPT ![a].lifecycle = "REVOKED"]
    <3>1. \A b \in Activations :
            /\ grants'[b].available = grants[b].available
            /\ grants'[b].held = grants[b].held
            /\ grants'[b].consumed = grants[b].consumed
            /\ grants'[b].lifecycle = "NONE" <=> grants[b].lifecycle = "NONE"
      BY <1>0, <2>2 DEF ReadActive, TypeOK, Grant
    <3> QED
      BY <1>1, <1>6, <3>1 DEF RevokeGrant
  <2> QED
    BY <1>6, <2>1, <2>2 DEF RevokeGrant
<1>7. ASSUME NEW r \in RequestKeys, NEW body \in Bodies, NEW maxCost \in Costs,
             NEW cost \in Costs, NEW t1 \in Times, NEW t2 \in Times,
             ReserveRequest(r, body, maxCost, cost, t1, t2)
      PROVE  AccountsInv'
  <2>0. r[1] \in Activations /\ r[2] \in RequestIds /\ r = <<r[1], r[2]>>
    BY DEF RequestKeys
  <2>1. CASE UNCHANGED requests /\ (ReadExpired(r[1], t1) \/ ReadExpired(r[1], t2))
    BY <1>2, <2>0, <2>1
  <2>2. CASE UNCHANGED <<grants, requests>>
    BY <1>1, <2>2
  <2>3. CASE /\ cost <= grants[r[1]].available
             /\ grants[r[1]].lifecycle = "ACTIVE"
             /\ grants' = [grants EXCEPT ![r[1]] = Hold(@, cost)]
             /\ requests' = [requests EXCEPT ![r] =
                  [state |-> "RESERVED", body |-> body, maxCost |-> maxCost,
                   cost |-> cost, result |-> None]]
    <3>1. cost \in Nat /\ requests[r].state = "NONE"
      BY <1>7, ValuesAssumption DEF ReserveRequest
    <3>2. grants'[r[1]] = Hold(grants[r[1]], cost)
      BY <1>0, <2>0, <2>3 DEF TypeOK
    <3>3. /\ grants'[r[1]].available = grants[r[1]].available - cost
          /\ grants'[r[1]].held = grants[r[1]].held + cost
          /\ grants'[r[1]].consumed = grants[r[1]].consumed
          /\ grants'[r[1]].lifecycle = grants[r[1]].lifecycle
      BY <1>a, <2>0, <3>1, <3>2, GrantFields
    <3>4. Activated(r[1]) /\ Activated(r[1])'
      BY <2>3, <3>3 DEF Activated
    <3>5. requests'[r].state = "RESERVED" /\ requests'[r].cost = cost
      BY <1>0, <2>3 DEF TypeOK
    <3>6. Weight(r[1])[r[2]] = 0
      BY <2>0, <3>1 DEF Weight, HoldingStates
    <3>7. cost = IF requests'[r].state \in HoldingStates
                 THEN requests'[r].cost ELSE 0
      BY <3>5 DEF HoldingStates
    <3>8. /\ \A q \in RequestKeys \ {r} : requests'[q] = requests[q]
          /\ \A b \in Activations \ {r[1]} : grants'[b] = grants[b]
      BY <1>0, <2>3 DEF TypeOK
    <3>9. /\ grants'[r[1]].held = grants[r[1]].held - Weight(r[1])[r[2]] + cost
          /\ grants'[r[1]].available \in Nat
          /\ grants'[r[1]].consumed \in Nat
          /\ grants'[r[1]].available + grants'[r[1]].held + grants'[r[1]].consumed =
               grants[r[1]].available + grants[r[1]].held + grants[r[1]].consumed
      BY <1>a, <2>0, <2>3, <3>1, <3>3, <3>6
    <3> QED
      BY <1>0, <3>1, <3>4, <3>7, <3>8, <3>9, AccountsWritten
  <2> QED
    BY <1>7, <2>1, <2>2, <2>3 DEF ReserveRequest, ReadActive
<1>8. ASSUME NEW r \in RequestKeys, NEW t \in Times, BeginExecution(r, t)
      PROVE  AccountsInv'
  <2>0. r[1] \in Activations
    BY DEF RequestKeys
  <2>1. CASE ReadExpired(r[1], t) /\ UNCHANGED requests
    BY <1>2, <2>0, <2>1
  <2>2. CASE /\ requests' = [requests EXCEPT ![r].state = "EXECUTING"]
             /\ UNCHANGED grants
    <3>1. /\ requests'[r].state = "EXECUTING"
          /\ requests'[r].cost = requests[r].cost
          /\ \A q \in RequestKeys \ {r} : requests'[q] = requests[q]
      BY <1>0, <2>2 DEF TypeOK, Request
    <3>2. requests[r].state = "RESERVED"
      BY <1>8 DEF BeginExecution
    <3>3. \A a \in Activations : Weight(a)' = Weight(a)
      BY <3>1, <3>2, WeightKept DEF HoldingStates
    <3> QED
      BY <1>0, <2>2, <3>1, <3>2, <3>3, AccountsUntouched DEF Activated
  <2> QED
    BY <1>8, <2>1, <2>2 DEF BeginExecution
<1>9. ASSUME NEW r \in RequestKeys, MarkOutcomeUnknown(r)
      PROVE  AccountsInv'
  <2>1. /\ requests'[r].state = "OUTCOME_UNKNOWN"
        /\ requests'[r].cost = requests[r].cost
        /\ \A q \in RequestKeys \ {r} : requests'[q] = requests[q]
    BY <1>0, <1>9 DEF MarkOutcomeUnknown, TypeOK, Request
  <2>2. requests[r].state = "EXECUTING" /\ UNCHANGED grants
    BY <1>9 DEF MarkOutcomeUnknown
  <2>3. \A a \in Activations : Weight(a)' = Weight(a)
    BY <2>1, <2>2, WeightKept DEF HoldingStates
  <2> QED
    BY <1>0, <2>1, <2>2, <2>3, AccountsUntouched DEF Activated
(* The steps that settle a request: its cost leaves held. *)
<1>10. ASSUME NEW r \in RequestKeys,
              requests[r].state \in HoldingStates,
              requests'[r].state \in {"SUCCEEDED", "FAILED_RELEASED"},
              \A q \in RequestKeys \ {r} : requests'[q] = requests[q],
              \/ grants' = [grants EXCEPT ![r[1]] = ReturnHeld(@, requests[r].cost)]
              \/ grants' = [grants EXCEPT ![r[1]] = ConsumeHeld(@, requests[r].cost)]
       PROVE  AccountsInv'
  <2>0. r[1] \in Activations /\ r[2] \in RequestIds /\ r = <<r[1], r[2]>>
    BY DEF RequestKeys
  <2> DEFINE cost == requests[r].cost
  <2>1. cost \in Nat
    BY <1>0 DEF TypeOK, Request
  <2>2. Weight(r[1])[r[2]] = cost
    BY <1>10, <2>0 DEF Weight
  <2>3. Activated(r[1])
    BY <1>10 DEF AccountsInv, HoldingStates
  <2>4. \/ grants'[r[1]] = ReturnHeld(grants[r[1]], cost)
        \/ grants'[r[1]] = ConsumeHeld(grants[r[1]], cost)
    BY <1>0, <1>10, <2>0 DEF TypeOK
  <2> HIDE DEF cost
  <2>5. /\ grants'[r[1]].held = grants[r[1]].held - cost
        /\ grants'[r[1]].lifecycle = grants[r[1]].lifecycle
        /\ \/ /\ grants'[r[1]].available = grants[r[1]].available + cost
              /\ grants'[r[1]].consumed = grants[r[1]].consumed
           \/ /\ grants'[r[1]].available = grants[r[1]].available
              /\ grants'[r[1]].consumed = grants[r[1]].consumed + cost
    <3>1. grants[r[1]] \in Grant
      BY <1>a, <2>0
    <3>2. CASE grants'[r[1]] = ReturnHeld(grants[r[1]], cost)
      BY <2>1, <3>1, <3>2, GrantFields
    <3>3. CASE grants'[r[1]] = ConsumeHeld(grants[r[1]], cost)
      BY <2>1, <3>1, <3>3, GrantFields
    <3> QED
      BY <2>4, <3>2, <3>3
  <2>6. /\ grants'[r[1]].held = grants[r[1]].held - Weight(r[1])[r[2]] + 0
        /\ grants'[r[1]].available \in Nat
        /\ grants'[r[1]].consumed \in Nat
        /\ grants'[r[1]].available + grants'[r[1]].held + grants'[r[1]].consumed =
             grants[r[1]].available + grants[r[1]].held + grants[r[1]].consumed
    BY <1>a, <2>0, <2>1, <2>2, <2>5
  <2>7. 0 = IF requests'[r].state \in HoldingStates
            THEN requests'[r].cost ELSE 0
    BY <1>10 DEF HoldingStates
  <2>8. \A b \in Activations \ {r[1]} : grants'[b] = grants[b]
    BY <1>0, <1>10 DEF TypeOK
  <2>9. Activated(r[1])'
    BY <2>3, <2>5 DEF Activated
  <2> QED
    BY <1>0, <1>10, <2>3, <2>6, <2>7, <2>8, <2>9, AccountsWritten
<1>11. ASSUME NEW r \in RequestKeys,
              ReleaseBeforeExecution(r) \/ ReconcileFailedReleased(r)
       PROVE  AccountsInv'
  <2>1. /\ requests'[r].state = "FAILED_RELEASED"
        /\ \A q \in RequestKeys \ {r} : requests'[q] = requests[q]
        /\ requests[r].state \in HoldingStates
    BY <1>0, <1>11
    DEF ReleaseBeforeExecution, ReconcileFailedReleased, TypeOK, Request,
        HoldingStates
  <2> QED
    BY <1>10, <1>11, <2>1 DEF ReleaseBeforeExecution, ReconcileFailedReleased
<1>12. ASSUME NEW r \in RequestKeys, NEW result \in Results,
              CompleteExecution(r, result) \/ ReconcileSucceeded(r, result)
       PROVE  AccountsInv'
  <2>1. /\ requests'[r].state = "SUCCEEDED"
        /\ \A q \in RequestKeys \ {r} : requests'[q] = requests[q]
        /\ requests[r].state \in HoldingStates
    BY <1>0, <1>12
    DEF CompleteExecution, ReconcileSucceeded, TypeOK, Request, HoldingStates
  <2> QED
    BY <1>10, <1>12, <2>1 DEF CompleteExecution, ReconcileSucceeded
<1>13. CASE UNCHANGED vars
  BY <1>1, <1>13 DEF vars
<1> QED
  BY <1>3, <1>4, <1>5, <1>6, <1>7, <1>8, <1>9, <1>11, <1>12, <1>13 DEF Next

(* Whatever the prices, the fundings and the order of the calls, a grant's   *)
(* counters never go below zero and always add up to what was funded.        *)
THEOREM NeverOverspentHolds == Spec => []NeverOverspent
<1>1. AccountsInv => NeverOverspent
  BY HeldBounds DEF AccountsInv, NeverOverspent, Accounted
<1> QED
  BY <1>1, InitAccountsInv, StepAccountsInv, PTL DEF Spec

-----------------------------------------------------------------------------
(* Expiry and revocation. *)

(* A reading that leaves a grant active lies before the grant's expiry. *)
LEMMA ActiveReading ==
  ASSUME TypeOK, NEW a \in Activations, NEW t \in Times, ReadActive(a, t)
  PROVE  t < a.expiresAt /\ clock' = t /\ grants[a].lifecycle = "ACTIVE"
<1>1. t \in Nat /\ a.expiresAt \in Nat
  BY ActivationsAssumption, ValuesAssumption
<1>2. grants[a].lifecycle = "ACTIVE" /\ clock' = t
  BY DEF ReadActive
<1>3. ~(t >= a.expiresAt)
  <2> SUFFICES ASSUME t >= a.expiresAt PROVE FALSE
    OBVIOUS
  <2>1. Refreshed(grants[a], a.expiresAt, t).lifecycle = "EXPIRED"
    BY <1>2 DEF Refreshed, TypeOK, Grant
  <2> QED
    BY <2>1 DEF ReadActive
<1> QED
  BY <1>1, <1>2, <1>3

\* What RetiredGrantsOnlyDrain says of a step.
OnlyDrains ==
  \A a \in Activations : grants[a].lifecycle \in {"EXPIRED", "REVOKED"} =>
    /\ grants'[a].lifecycle = grants[a].lifecycle
    /\ grants'[a].held <= grants[a].held
    /\ \A i \in RequestIds : authorizations'[<<a, i>>] = authorizations[<<a, i>>]

LEMMA RetiredStep ==
  ASSUME TypeOK, [Next]_vars
  PROVE  OnlyDrains
<1>a. \A a \in Activations : grants[a] \in Grant
  BY DEF TypeOK
<1>b. \A r \in RequestKeys : r[1] \in Activations /\ r = <<r[1], r[2]>>
  BY DEF RequestKeys
(* The steps that leave the retired grants alone. *)
<1>1. ASSUME UNCHANGED authorizations,
             \A a \in Activations :
               grants[a].lifecycle \in {"EXPIRED", "REVOKED"} => grants'[a] = grants[a]
      PROVE  OnlyDrains
  BY <1>a, <1>1 DEF OnlyDrains, Grant
<1>2. ASSUME NEW a \in Activations, NEW t,
             ReadExpired(a, t), UNCHANGED authorizations
      PROVE  OnlyDrains
  BY <1>1, <1>2 DEF ReadExpired, TypeOK
<1>3. ASSUME NEW a \in Activations, NEW g,
             grants[a].lifecycle \notin {"EXPIRED", "REVOKED"},
             grants' = [grants EXCEPT ![a] = g], UNCHANGED authorizations
      PROVE  OnlyDrains
  BY <1>1, <1>3 DEF TypeOK
(* The steps that settle a request. *)
<1>4. ASSUME NEW r \in RequestKeys, UNCHANGED authorizations,
             \/ grants' = [grants EXCEPT ![r[1]] = ReturnHeld(@, requests[r].cost)]
             \/ grants' = [grants EXCEPT ![r[1]] = ConsumeHeld(@, requests[r].cost)]
      PROVE  OnlyDrains
  <2>1. r[1] \in Activations /\ requests[r].cost \in Nat
    BY <1>b DEF TypeOK, Request
  <2>2. /\ ReturnHeld(grants[r[1]], requests[r].cost).held <= grants[r[1]].held
        /\ ConsumeHeld(grants[r[1]], requests[r].cost).held <= grants[r[1]].held
        /\ ReturnHeld(grants[r[1]], requests[r].cost).lifecycle = grants[r[1]].lifecycle
        /\ ConsumeHeld(grants[r[1]], requests[r].cost).lifecycle = grants[r[1]].lifecycle
    <3>1. grants[r[1]] \in Grant /\ grants[r[1]].held \in Int
      BY <1>a, <2>1 DEF Grant
    <3>2. /\ ReturnHeld(grants[r[1]], requests[r].cost).held =
               grants[r[1]].held - requests[r].cost
          /\ ConsumeHeld(grants[r[1]], requests[r].cost).held =
               grants[r[1]].held - requests[r].cost
          /\ ReturnHeld(grants[r[1]], requests[r].cost).lifecycle = grants[r[1]].lifecycle
          /\ ConsumeHeld(grants[r[1]], requests[r].cost).lifecycle = grants[r[1]].lifecycle
      BY <2>1, <3>1, GrantFields
    <3> QED
      BY <2>1, <3>1, <3>2
  <2>3. \A a \in Activations :
          /\ grants'[a].held <= grants[a].held
          /\ grants'[a].lifecycle = grants[a].lifecycle
    <3>1. \A a \in Activations : grants[a].held <= grants[a].held
      BY <1>a DEF Grant
    <3> QED
      BY <1>4, <2>1, <2>2, <3>1 DEF TypeOK
  <2> QED
    BY <1>4, <2>3 DEF OnlyDrains
<1>5. ASSUME NEW k \in OfferKeys, NEW s \in Scopes, RegisterOffer(k, s)
      PROVE  OnlyDrains
  BY <1>1, <1>5 DEF RegisterOffer
<1>6. ASSUME NEW a \in Activations, NEW t \in Times,
             \/ ActivateGrantFromTrustedRecord(a, t)
             \/ GetGrant(a, t)
             \/ RevokeGrant(a, t)
      PROVE  OnlyDrains
  <2>1. CASE ActivateGrantFromTrustedRecord(a, t)
    BY <1>3, <2>1
    DEF ActivateGrantFromTrustedRecord, IdentitiesFree, Activated
  <2>2. CASE GetGrant(a, t)
    BY <1>1, <1>2, <2>2 DEF GetGrant
  <2>3. CASE RevokeGrant(a, t)
    <3>1. CASE ReadExpired(a, t)
      BY <1>2, <2>3, <3>1 DEF RevokeGrant
    <3>2. CASE /\ ReadActive(a, t)
               /\ grants' = [grants EXCEPT ![a].lifecycle = "REVOKED"]
      BY <1>3, <2>3, <3>2 DEF RevokeGrant, ReadActive
    <3> QED
      BY <2>3, <3>1, <3>2 DEF RevokeGrant
  <2> QED
    BY <1>6, <2>1, <2>2, <2>3
<1>7. ASSUME NEW r \in RequestKeys, NEW body \in Bodies, NEW maxCost \in Costs,
             NEW cost \in Costs, NEW t1 \in Times, NEW t2 \in Times,
             ReserveRequest(r, body, maxCost, cost, t1, t2)
      PROVE  OnlyDrains
  <2>1. UNCHANGED authorizations /\ r[1] \in Activations
    BY <1>b, <1>7 DEF ReserveRequest
  <2>2. CASE ReadExpired(r[1], t1) \/ ReadExpired(r[1], t2)
    BY <1>2, <2>1, <2>2
  <2>3. CASE UNCHANGED grants
    BY <1>1, <2>1, <2>3
  <2>4. CASE ReadActive(r[1], t2) /\ grants' = [grants EXCEPT ![r[1]] = Hold(@, cost)]
    BY <1>3, <2>1, <2>4 DEF ReadActive
  <2> QED
    BY <1>7, <2>2, <2>3, <2>4 DEF ReserveRequest
<1>8. ASSUME NEW r \in RequestKeys, NEW t \in Times, BeginExecution(r, t)
      PROVE  OnlyDrains
  <2>1. CASE ReadExpired(r[1], t) /\ UNCHANGED authorizations
    BY <1>b, <1>2, <2>1
  <2>2. CASE /\ ReadActive(r[1], t) /\ UNCHANGED grants
             /\ authorizations' = [authorizations EXCEPT ![r] = @ + 1]
    <3>1. ASSUME NEW a \in Activations,
                 grants[a].lifecycle \in {"EXPIRED", "REVOKED"},
                 NEW i \in RequestIds
          PROVE  authorizations'[<<a, i>>] = authorizations[<<a, i>>]
      <4>1. <<a, i>> # r /\ <<a, i>> \in RequestKeys
        BY <1>b, <2>2, <3>1 DEF ReadActive, RequestKeys
      <4> QED
        BY <2>2, <4>1 DEF TypeOK
    <3>2. \A a \in Activations : grants[a].held <= grants[a].held
      BY <1>a DEF Grant
    <3> QED
      BY <2>2, <3>1, <3>2 DEF OnlyDrains
  <2> QED
    BY <1>8, <2>1, <2>2 DEF BeginExecution
<1>9. ASSUME NEW r \in RequestKeys,
             \/ ReleaseBeforeExecution(r) \/ ReconcileFailedReleased(r)
             \/ \E result \in Results :
                  CompleteExecution(r, result) \/ ReconcileSucceeded(r, result)
      PROVE  OnlyDrains
  BY <1>4, <1>9
  DEF ReleaseBeforeExecution, ReconcileFailedReleased, CompleteExecution,
      ReconcileSucceeded
<1>10. ASSUME NEW r \in RequestKeys, MarkOutcomeUnknown(r)
       PROVE  OnlyDrains
  BY <1>1, <1>10 DEF MarkOutcomeUnknown
<1>11. CASE UNCHANGED vars
  BY <1>1, <1>11 DEF vars
<1> QED
  BY <1>5, <1>6, <1>7, <1>8, <1>9, <1>10, <1>11 DEF Next

(* Whatever the clock does next, a grant that expired or was revoked never    *)
(* serves again: it holds nothing new and authorises nothing.                 *)
THEOREM RetiredGrantsOnlyDrainHolds == Spec => RetiredGrantsOnlyDrain
<1>1. TypeOK /\ [Next]_vars => [OnlyDrains]_vars
  BY RetiredStep
<1> QED
  BY <1>1, TypeCorrect, PTL DEF Spec, RetiredGrantsOnlyDrain, OnlyDrains

\* What AdmittedBeforeExpiry says of a step.
AdmitsInTime ==
  \A r \in RequestKeys :
    \/ requests[r].state = "NONE" /\ requests'[r].state # "NONE"
    \/ authorizations'[r] # authorizations[r]
    => clock' < r[1].expiresAt /\ grants'[r[1]].lifecycle = "ACTIVE"

LEMMA AdmissionStep ==
  ASSUME TypeOK, [Next]_vars
  PROVE  AdmitsInTime
<1>1. ASSUME NEW r \in RequestKeys, requests[r].state # "NONE",
             UNCHANGED authorizations,
             \A q \in RequestKeys \ {r} : requests'[q] = requests[q]
      PROVE  AdmitsInTime
  BY <1>1 DEF AdmitsInTime
<1>2. CASE UNCHANGED <<requests, authorizations>>
  BY <1>2 DEF AdmitsInTime
<1>3. ASSUME NEW r \in RequestKeys, NEW body \in Bodies, NEW maxCost \in Costs,
             NEW cost \in Costs, NEW t1 \in Times, NEW t2 \in Times,
             ReserveRequest(r, body, maxCost, cost, t1, t2)
      PROVE  AdmitsInTime
  <2>1. CASE UNCHANGED requests
    BY <1>2, <1>3, <2>1 DEF ReserveRequest
  <2>2. CASE /\ ReadActive(r[1], t2)
             /\ grants' = [grants EXCEPT ![r[1]] = Hold(@, cost)]
             /\ \A q \in RequestKeys \ {r} : requests'[q] = requests[q]
    <3>1. r[1] \in Activations /\ cost \in Nat /\ grants[r[1]] \in Grant
      BY ValuesAssumption DEF RequestKeys, TypeOK
    <3>2. clock' < r[1].expiresAt /\ grants[r[1]].lifecycle = "ACTIVE"
      BY <2>2, <3>1, ActiveReading
    <3>3. grants'[r[1]] = Hold(grants[r[1]], cost)
      BY <2>2, <3>1 DEF TypeOK
    <3>4. grants'[r[1]].lifecycle = "ACTIVE"
      <4>1. \A g \in Grant, c \in Nat : Hold(g, c).lifecycle = g.lifecycle
        BY GrantFields
      <4> QED
        BY <3>1, <3>2, <3>3, <4>1
    <3> QED
      BY <1>3, <2>2, <3>2, <3>4 DEF AdmitsInTime, ReserveRequest
  <2> QED
    BY <1>3, <2>1, <2>2 DEF ReserveRequest, TypeOK
<1>4. ASSUME NEW r \in RequestKeys, NEW t \in Times, BeginExecution(r, t)
      PROVE  AdmitsInTime
  <2>1. CASE UNCHANGED <<requests, authorizations>>
    BY <1>2, <2>1
  <2>2. CASE /\ ReadActive(r[1], t) /\ UNCHANGED grants
             /\ requests' = [requests EXCEPT ![r].state = "EXECUTING"]
             /\ authorizations' = [authorizations EXCEPT ![r] = @ + 1]
    <3>1. r[1] \in Activations
      BY DEF RequestKeys
    <3>2. clock' < r[1].expiresAt /\ grants'[r[1]].lifecycle = "ACTIVE"
      BY <2>2, <3>1, ActiveReading
    <3> QED
      BY <2>2, <3>2 DEF AdmitsInTime, TypeOK
  <2> QED
    BY <1>4, <2>1, <2>2 DEF BeginExecution
<1>5. ASSUME NEW r \in RequestKeys,
             \/ ReleaseBeforeExecution(r)
             \/ MarkOutcomeUnknown(r)
             \/ ReconcileFailedReleased(r)
             \/ \E result \in Results :
                  CompleteExecution(r, result) \/ ReconcileSucceeded(r, result)
      PROVE  AdmitsInTime
  <2>1. /\ requests[r].state # "NONE" /\ UNCHANGED authorizations
        /\ \A q \in RequestKeys \ {r} : requests'[q] = requests[q]
    BY <1>5
    DEF ReleaseBeforeExecution, MarkOutcomeUnknown, ReconcileFailedReleased,
        CompleteExecution, ReconcileSucceeded, TypeOK
  <2> QED
    BY <1>1, <2>1
<1> QED
  BY <1>2, <1>3, <1>4, <1>5
  DEF Next, vars, RegisterOffer, ActivateGrantFromTrustedRecord, GetGrant,
      RevokeGrant

(* Units are held, and requests authorised, only at a reading that lies       *)
(* before the grant's expiry, however long the price took to compute.         *)
THEOREM AdmittedBeforeExpiryHolds == Spec => AdmittedBeforeExpiry
<1>1. TypeOK /\ [Next]_vars => [AdmitsInTime]_vars
  BY AdmissionStep
<1> QED
  BY <1>1, TypeCorrect, PTL DEF Spec, AdmittedBeforeExpiry, AdmitsInTime

-----------------------------------------------------------------------------
(* Restart. *)

\* What a grant's requests have earned.
Earned(a) ==
  [i \in RequestIds |->
     IF requests[<<a, i>>].state = "SUCCEEDED" THEN requests[<<a, i>>].cost ELSE 0]

RequestSound(r) ==
  /\ requests[r].cost <= requests[r].maxCost
  /\ requests[r].cost <= r[1].totalUnits
  /\ requests[r].state = "SUCCEEDED" <=> requests[r].result # None

RestartInv ==
  /\ AccountsInv
  /\ \A a \in Activations : Activated(a) => SumsTo(Earned(a), grants[a].consumed)
  /\ \A r \in Recorded : RequestSound(r)
  /\ IsFiniteSet(Recorded) /\ Cardinality(Recorded) <= MaxRequests

LEMMA InitRestartInv == Init => RestartInv
<1> SUFFICES ASSUME Init PROVE RestartInv
  OBVIOUS
<1>1. Recorded = {}
  BY DEF Init, Recorded, NoRequest
<1>2. \A a \in Activations : ~Activated(a)
  BY DEF Init, Activated, NoGrant
<1>3. IsFiniteSet(Recorded) /\ Cardinality(Recorded) <= MaxRequests
  BY <1>1, FS_EmptySet, ValuesAssumption
<1> QED
  BY <1>1, <1>2, <1>3, InitAccountsInv DEF RestartInv

(* The earnings of a grant move only at the request a step completes. *)
LEMMA EarnedKept ==
  ASSUME NEW a \in Activations, NEW r \in RequestKeys,
         \A q \in RequestKeys \ {r} : requests'[q] = requests[q],
         \/ r[1] # a
         \/ requests'[r].state # "SUCCEEDED" /\ requests[r].state # "SUCCEEDED"
  PROVE  Earned(a)' = Earned(a)
<1>1. ASSUME NEW i \in RequestIds
      PROVE  Earned(a)'[i] = Earned(a)[i]
  <2>1. <<a, i>> \in RequestKeys
    BY DEF RequestKeys
  <2>2. CASE <<a, i>> = r
    BY <2>1, <2>2 DEF Earned
  <2>3. CASE <<a, i>> # r
    BY <2>1, <2>3 DEF Earned
  <2> QED
    BY <2>2, <2>3
<1> QED
  BY <1>1 DEF Earned

LEMMA EarnedMoved ==
  ASSUME NEW r \in RequestKeys,
         \A q \in RequestKeys \ {r} : requests'[q] = requests[q],
         requests[r].state # "SUCCEEDED", requests'[r].state = "SUCCEEDED"
  PROVE  /\ Earned(r[1])[r[2]] = 0
         /\ Earned(r[1])'[r[2]] = requests'[r].cost
         /\ \A j \in RequestIds \ {r[2]} : Earned(r[1])'[j] = Earned(r[1])[j]
<1>1. r[1] \in Activations /\ r[2] \in RequestIds /\ r = <<r[1], r[2]>>
  BY DEF RequestKeys
<1>2. /\ Earned(r[1])[r[2]] = 0
      /\ Earned(r[1])'[r[2]] = requests'[r].cost
  BY <1>1 DEF Earned
<1>3. ASSUME NEW j \in RequestIds \ {r[2]}
      PROVE  Earned(r[1])'[j] = Earned(r[1])[j]
  <2>1. <<r[1], j>> \in RequestKeys /\ <<r[1], j>> # r
    BY <1>1 DEF RequestKeys
  <2> QED
    BY <2>1 DEF Earned
<1> QED
  BY <1>2, <1>3

LEMMA StepRestartInv ==
  ASSUME RestartInv, [Next]_vars
  PROVE  RestartInv'
<1>0. TypeOK /\ TypeOK' /\ AccountsInv /\ AccountsInv'
  BY StepTypeOK, StepAccountsInv DEF RestartInv, AccountsInv
<1>a. ASSUME NEW r \in RequestKeys
      PROVE  /\ r[1] \in Activations
             /\ requests[r] \in Request /\ requests'[r] \in Request
             /\ requests[r].cost \in Nat
             /\ grants[r[1]] \in Grant
  <2>1. r[1] \in Activations /\ requests[r] \in Request /\ requests'[r] \in Request
    BY <1>0 DEF RequestKeys, TypeOK
  <2> QED
    BY <1>0, <2>1 DEF TypeOK, Request
(* The steps that leave every request alone, and every grant's consumption.  *)
<1>1. ASSUME UNCHANGED requests,
             \A a \in Activations :
               /\ grants'[a].consumed = grants[a].consumed
               /\ grants'[a].lifecycle = "NONE" <=> grants[a].lifecycle = "NONE"
      PROVE  RestartInv'
  BY <1>0, <1>1 DEF RestartInv, Earned, Activated, Recorded, RequestSound
<1>2. ASSUME NEW a \in Activations, NEW t, ReadExpired(a, t), UNCHANGED requests
      PROVE  RestartInv'
  <2>1. grants' = [grants EXCEPT ![a] = Refreshed(grants[a], a.expiresAt, t)]
    BY <1>2 DEF ReadExpired
  <2>2. /\ Refreshed(grants[a], a.expiresAt, t).consumed = grants[a].consumed
        /\ Refreshed(grants[a], a.expiresAt, t).lifecycle = "NONE"
             <=> grants[a].lifecycle = "NONE"
    BY <1>0, GrantFields DEF TypeOK
  <2> QED
    BY <1>0, <1>1, <1>2, <2>1, <2>2 DEF TypeOK
(* The steps that move a recorded request on. *)
<1>3. ASSUME NEW r \in Recorded,
             requests'[r].state # "NONE",
             requests'[r].cost = requests[r].cost,
             requests'[r].maxCost = requests[r].maxCost,
             requests'[r].state = "SUCCEEDED" <=> requests'[r].result # None,
             \A q \in RequestKeys \ {r} : requests'[q] = requests[q],
             \A a \in Activations : Activated(a)' <=> Activated(a),
             \A a \in Activations : Activated(a)' =>
               SumsTo(Earned(a)', grants'[a].consumed)
      PROVE  RestartInv'
  <2>1. r \in RequestKeys
    BY DEF Recorded
  <2>2. Recorded' = Recorded
    BY <1>3, <2>1 DEF Recorded
  <2>3. ASSUME NEW q \in Recorded PROVE RequestSound(q)'
    <3>1. RequestSound(q) /\ q \in RequestKeys
      BY DEF RestartInv, Recorded
    <3>2. CASE q = r
      BY <1>3, <3>1, <3>2 DEF RequestSound
    <3>3. CASE q # r
      BY <1>3, <3>1, <3>3 DEF RequestSound
    <3> QED
      BY <3>2, <3>3
  <2> QED
    BY <1>0, <1>3, <2>2, <2>3 DEF RestartInv
(* Of these, the steps that consume nothing. *)
<1>4. ASSUME NEW r \in Recorded,
             requests[r].state # "SUCCEEDED",
             requests'[r].state \notin {"NONE", "SUCCEEDED"},
             requests'[r].cost = requests[r].cost,
             requests'[r].maxCost = requests[r].maxCost,
             requests'[r].result = requests[r].result,
             \A q \in RequestKeys \ {r} : requests'[q] = requests[q],
             \/ UNCHANGED grants
             \/ grants' = [grants EXCEPT ![r[1]] = ReturnHeld(@, requests[r].cost)]
      PROVE  RestartInv'
  <2>1. r \in RequestKeys /\ RequestSound(r)
    BY DEF Recorded, RestartInv
  <2>2. \A a \in Activations :
          /\ grants'[a].consumed = grants[a].consumed
          /\ Activated(a)' <=> Activated(a)
    <3>1. /\ ReturnHeld(grants[r[1]], requests[r].cost).consumed
               = grants[r[1]].consumed
          /\ ReturnHeld(grants[r[1]], requests[r].cost).lifecycle
               = grants[r[1]].lifecycle
      BY <1>a, <2>1, GrantFields
    <3> QED
      BY <1>0, <1>4, <3>1 DEF TypeOK, Activated
  <2>3. \A a \in Activations : Earned(a)' = Earned(a)
    BY <1>4, <2>1, EarnedKept
  <2>4. \A a \in Activations : Activated(a)' =>
          SumsTo(Earned(a)', grants'[a].consumed)
    BY <2>2, <2>3 DEF RestartInv
  <2>5. requests'[r].state = "SUCCEEDED" <=> requests'[r].result # None
    BY <1>4, <2>1 DEF RequestSound
  <2> QED
    BY <1>3, <1>4, <2>2, <2>4, <2>5
<1>5. ASSUME NEW k \in OfferKeys, NEW s \in Scopes, RegisterOffer(k, s)
      PROVE  RestartInv'
  BY <1>1, <1>5 DEF RegisterOffer
<1>6. ASSUME NEW a \in Activations, NEW t \in Times,
             ActivateGrantFromTrustedRecord(a, t)
      PROVE  RestartInv'
  <2>1. /\ ~Activated(a) /\ UNCHANGED requests
        /\ grants'[a].consumed = 0
        /\ \A b \in Activations \ {a} : grants'[b] = grants[b]
    BY <1>0, <1>6
    DEF ActivateGrantFromTrustedRecord, IdentitiesFree, NewGrant, TypeOK
  <2>2. \A i \in RequestIds : <<a, i>> \in RequestKeys /\ <<a, i>>[1] = a
    BY DEF RequestKeys
  <2>3. \A i \in RequestIds : requests[<<a, i>>].state = "NONE"
    BY <1>0, <2>1, <2>2 DEF AccountsInv
  <2>4. SumsTo(Earned(a)', 0)
    <3> DEFINE m == [S \in SUBSET RequestIds |-> 0]
    <3>1. Earned(a)' = [i \in RequestIds |-> 0]
      BY <2>1, <2>3 DEF Earned
    <3>2. Additive(m, Earned(a)') /\ m[RequestIds] = 0
      BY <3>1 DEF Additive
    <3> QED
      BY <3>2 DEF SumsTo
  <2>5. ASSUME NEW b \in Activations, Activated(b)'
        PROVE  SumsTo(Earned(b)', grants'[b].consumed)
    <3>1. CASE b = a
      BY <2>1, <2>4, <3>1
    <3>2. CASE b # a
      <4>1. Activated(b) /\ Earned(b)' = Earned(b) /\ grants'[b] = grants[b]
        BY <2>1, <2>5, <3>2 DEF Activated, Earned
      <4> QED
        BY <4>1 DEF RestartInv
    <3> QED
      BY <3>1, <3>2
  <2> QED
    BY <1>0, <2>1, <2>5 DEF RestartInv, Recorded, RequestSound
<1>7. ASSUME NEW a \in Activations, NEW t \in Times,
             GetGrant(a, t) \/ RevokeGrant(a, t)
      PROVE  RestartInv'
  <2>0. UNCHANGED requests
    BY <1>7 DEF GetGrant, RevokeGrant
  <2>1. CASE ReadExpired(a, t)
    BY <1>2, <2>0, <2>1
  <2>2. CASE UNCHANGED grants
    BY <1>1, <2>0, <2>2
  <2>3. CASE ReadActive(a, t) /\ grants' = [grants EXCEPT ![a].lifecycle = "REVOKED"]
    <3>1. \A b \in Activations :
            /\ grants'[b].consumed = grants[b].consumed
            /\ grants'[b].lifecycle = "NONE" <=> grants[b].lifecycle = "NONE"
      BY <1>0, <2>3 DEF ReadActive, TypeOK, Grant
    <3> QED
      BY <1>1, <2>0, <3>1
  <2> QED
    BY <1>7, <2>1, <2>2, <2>3 DEF GetGrant, RevokeGrant
<1>8. ASSUME NEW r \in RequestKeys, NEW body \in Bodies, NEW maxCost \in Costs,
             NEW cost \in Costs, NEW t1 \in Times, NEW t2 \in Times,
             ReserveRequest(r, body, maxCost, cost, t1, t2)
      PROVE  RestartInv'
  <2>1. CASE UNCHANGED requests /\ (ReadExpired(r[1], t1) \/ ReadExpired(r[1], t2))
    BY <1>2, <1>a, <2>1
  <2>2. CASE UNCHANGED <<grants, requests>>
    BY <1>1, <2>2
  <2>3. CASE /\ cost <= maxCost /\ cost <= grants[r[1]].available
             /\ grants[r[1]].lifecycle = "ACTIVE"
             /\ grants' = [grants EXCEPT ![r[1]] = Hold(@, cost)]
             /\ requests' = [requests EXCEPT ![r] =
                  [state |-> "RESERVED", body |-> body, maxCost |-> maxCost,
                   cost |-> cost, result |-> None]]
    <3>1. /\ cost \in Nat /\ requests[r].state = "NONE" /\ r \notin Recorded
          /\ Cardinality(Recorded) < MaxRequests
      BY <1>8, ValuesAssumption DEF ReserveRequest, Recorded
    <3>2. /\ requests'[r].state = "RESERVED" /\ requests'[r].cost = cost
          /\ requests'[r].maxCost = maxCost /\ requests'[r].result = None
          /\ \A q \in RequestKeys \ {r} : requests'[q] = requests[q]
      BY <1>0, <2>3 DEF TypeOK
    <3>3. Recorded' = Recorded \cup {r}
      BY <3>2 DEF Recorded
    <3>4. IsFiniteSet(Recorded') /\ Cardinality(Recorded') <= MaxRequests
      <4>1. /\ IsFiniteSet(Recorded \cup {r})
            /\ Cardinality(Recorded \cup {r}) = Cardinality(Recorded) + 1
        BY <3>1, FS_AddElement DEF RestartInv
      <4>2. Cardinality(Recorded) \in Nat
        BY FS_CardinalityType DEF RestartInv
      <4> QED
        BY <3>1, <3>3, <4>1, <4>2, ValuesAssumption
    <3>5. cost <= r[1].totalUnits
      <4>1. Accounted(r[1]) /\ Activated(r[1])
        BY <1>0, <1>a, <2>3 DEF AccountsInv, Activated
      <4>2. /\ grants[r[1]].held \in Nat /\ grants[r[1]].available \in Nat
            /\ grants[r[1]].consumed \in Nat
            /\ grants[r[1]].available + grants[r[1]].held + grants[r[1]].consumed
                 = r[1].totalUnits
        BY <1>0, <1>a, <4>1, HeldBounds DEF Accounted
      <4> QED
        BY <2>3, <3>1, <4>2
    <3>6. ASSUME NEW q \in Recorded' PROVE RequestSound(q)'
      <4>1. CASE q = r
        BY <2>3, <3>2, <3>5, <4>1 DEF RequestSound
      <4>2. CASE q # r
        <5>1. q \in Recorded /\ q \in RequestKeys
          BY <3>3, <4>2 DEF Recorded
        <5> QED
          BY <3>2, <4>2, <5>1 DEF RestartInv, RequestSound
      <4> QED
        BY <4>1, <4>2
    <3>7. ASSUME NEW a \in Activations, Activated(a)'
          PROVE  SumsTo(Earned(a)', grants'[a].consumed)
      <4>1. /\ Hold(grants[r[1]], cost).consumed = grants[r[1]].consumed
            /\ Hold(grants[r[1]], cost).lifecycle = grants[r[1]].lifecycle
        BY <1>a, <3>1, GrantFields
      <4>2. grants'[a].consumed = grants[a].consumed /\ Activated(a)
        BY <1>0, <2>3, <3>7, <4>1 DEF TypeOK, Activated
      <4>3. Earned(a)' = Earned(a)
        BY <3>1, <3>2, EarnedKept
      <4> QED
        BY <4>2, <4>3 DEF RestartInv
    <3> QED
      BY <1>0, <3>4, <3>6, <3>7 DEF RestartInv
  <2> QED
    BY <1>8, <2>1, <2>2, <2>3 DEF ReserveRequest, ReadActive
<1>9. ASSUME NEW r \in RequestKeys, NEW t \in Times, BeginExecution(r, t)
      PROVE  RestartInv'
  <2>1. CASE ReadExpired(r[1], t) /\ UNCHANGED requests
    BY <1>2, <1>a, <2>1
  <2>2. CASE requests' = [requests EXCEPT ![r].state = "EXECUTING"] /\ UNCHANGED grants
    <3>1. /\ requests'[r].state = "EXECUTING"
          /\ requests'[r].cost = requests[r].cost
          /\ requests'[r].maxCost = requests[r].maxCost
          /\ requests'[r].result = requests[r].result
          /\ \A q \in RequestKeys \ {r} : requests'[q] = requests[q]
      BY <1>0, <2>2 DEF TypeOK, Request
    <3>2. requests[r].state = "RESERVED" /\ r \in Recorded
      BY <1>9 DEF BeginExecution, Recorded
    <3> QED
      BY <1>4, <2>2, <3>1, <3>2
  <2> QED
    BY <1>9, <2>1, <2>2 DEF BeginExecution
<1>10. ASSUME NEW r \in RequestKeys,
              \/ ReleaseBeforeExecution(r)
              \/ MarkOutcomeUnknown(r)
              \/ ReconcileFailedReleased(r)
       PROVE  RestartInv'
  <2>1. /\ requests'[r].state \in {"FAILED_RELEASED", "OUTCOME_UNKNOWN"}
        /\ requests'[r].cost = requests[r].cost
        /\ requests'[r].maxCost = requests[r].maxCost
        /\ requests'[r].result = requests[r].result
        /\ \A q \in RequestKeys \ {r} : requests'[q] = requests[q]
    BY <1>0, <1>10
    DEF ReleaseBeforeExecution, MarkOutcomeUnknown, ReconcileFailedReleased,
        TypeOK, Request
  <2>2. /\ requests[r].state \notin {"NONE", "SUCCEEDED"} /\ r \in Recorded
        /\ \/ UNCHANGED grants
           \/ grants' = [grants EXCEPT ![r[1]] = ReturnHeld(@, requests[r].cost)]
    BY <1>10
    DEF ReleaseBeforeExecution, MarkOutcomeUnknown, ReconcileFailedReleased,
        Recorded
  <2> QED
    BY <1>4, <2>1, <2>2
<1>11. ASSUME NEW r \in RequestKeys, NEW result \in Results,
              CompleteExecution(r, result) \/ ReconcileSucceeded(r, result)
       PROVE  RestartInv'
  <2>1. /\ requests'[r].state = "SUCCEEDED"
        /\ requests'[r].cost = requests[r].cost
        /\ requests'[r].maxCost = requests[r].maxCost
        /\ requests'[r].result = result
        /\ \A q \in RequestKeys \ {r} : requests'[q] = requests[q]
    BY <1>0, <1>11 DEF CompleteExecution, ReconcileSucceeded, TypeOK, Request
  <2>2. /\ requests[r].state \notin {"NONE", "SUCCEEDED"} /\ r \in Recorded
        /\ grants' = [grants EXCEPT ![r[1]] = ConsumeHeld(@, requests[r].cost)]
    BY <1>11 DEF CompleteExecution, ReconcileSucceeded, Recorded
  <2>3. result # None
    BY ValuesAssumption
  <2>4. /\ grants'[r[1]].consumed = grants[r[1]].consumed + requests[r].cost
        /\ grants'[r[1]].lifecycle = grants[r[1]].lifecycle
        /\ \A b \in Activations \ {r[1]} : grants'[b] = grants[b]
    <3>1. /\ ConsumeHeld(grants[r[1]], requests[r].cost).consumed
               = grants[r[1]].consumed + requests[r].cost
          /\ ConsumeHeld(grants[r[1]], requests[r].cost).lifecycle
               = grants[r[1]].lifecycle
      BY <1>a, GrantFields
    <3> QED
      BY <1>0, <1>a, <2>2, <3>1 DEF TypeOK
  <2>5. \A a \in Activations : Activated(a)' <=> Activated(a)
    BY <2>4 DEF Activated
  <2>6. ASSUME NEW a \in Activations, Activated(a)'
        PROVE  SumsTo(Earned(a)', grants'[a].consumed)
    <3>1. Activated(a) /\ SumsTo(Earned(a), grants[a].consumed)
      BY <2>5, <2>6 DEF RestartInv
    <3>2. CASE a # r[1]
      <4>1. Earned(a)' = Earned(a)
        BY <2>1, <3>2, EarnedKept
      <4> QED
        BY <2>4, <3>1, <3>2, <4>1
    <3>3. CASE a = r[1]
      <4>1. Earned(a) \in [RequestIds -> Nat] /\ Earned(a)' \in [RequestIds -> Nat]
        BY <1>0 DEF Earned, TypeOK, Request, RequestKeys
      <4>2. r[2] \in RequestIds /\ requests[r].cost \in Nat
        BY <1>a DEF RequestKeys
      <4>3. /\ Earned(a)[r[2]] = 0 /\ Earned(a)'[r[2]] = requests[r].cost
            /\ \A j \in RequestIds \ {r[2]} : Earned(a)'[j] = Earned(a)[j]
        BY <2>1, <2>2, <3>3, EarnedMoved
      <4>4. grants[a].consumed \in Nat
        BY <1>0 DEF AccountsInv, Accounted
      <4>5. grants'[a].consumed = grants[a].consumed - Earned(a)[r[2]] + requests[r].cost
        BY <2>4, <3>3, <4>2, <4>3, <4>4
      <4> QED
        BY <3>1, <4>1, <4>2, <4>3, <4>5, SumUpdate
    <3> QED
      BY <3>2, <3>3
  <2>7. requests'[r].state = "SUCCEEDED" <=> requests'[r].result # None
    BY <2>1, <2>3
  <2> QED
    BY <1>3, <2>1, <2>2, <2>5, <2>6, <2>7
<1>12. CASE UNCHANGED vars
  BY <1>1, <1>12 DEF vars
<1> QED
  BY <1>5, <1>6, <1>7, <1>8, <1>9, <1>10, <1>11, <1>12 DEF Next

\* A nonempty set of naturals has a least one.
LEMMA LeastNumber ==
  ASSUME NEW N, N \subseteq Nat, N # {}
  PROVE  \E x \in N : \A y \in N : x <= y
<1> DEFINE R == {ss \in Nat \X Nat : ss[1] < ss[2]}
<1>1. IsWellFoundedOn(R, Nat)
  BY NatLessThanWellFounded, Zenon DEF OpToRel
<1>2. PICK x \in N : \A y \in N : ~ (<<y, x>> \in R)
  <2> HIDE DEF R
  <2> QED
    BY <1>1, WFMin
<1>3. ASSUME NEW y \in N
      PROVE  x <= y
  <2>1. x \in Nat /\ y \in Nat /\ <<y, x>> \in Nat \X Nat
    OBVIOUS
  <2>2. <<y, x>>[1] = y /\ <<y, x>>[2] = x
    OBVIOUS
  <2>3. ~ (y < x)
    BY <1>2, <2>1, <2>2
  <2> QED
    BY <2>1, <2>3
<1> QED
  BY <1>3

\* A family of sets of request ids, if not empty, has a member none of whose
\* subsets with one id less is in it.
LEMMA SmallestIds ==
  ASSUME NEW F, F \subseteq SUBSET RequestIds, F # {}
  PROVE  \E T \in F : \A i \in T : T \ {i} \notin F
<1>1. \A T \in F : IsFiniteSet(T) /\ Cardinality(T) \in Nat
  BY RequestIdsAssumption, FS_Subset, FS_CardinalityType
<1> DEFINE N == {Cardinality(T) : T \in F}
<1>2. N \subseteq Nat /\ N # {}
  BY <1>1
<1>3. PICK n \in N : \A k \in N : n <= k
  <2> HIDE DEF N
  <2> QED
    BY <1>2, LeastNumber
<1>4. PICK T \in F : Cardinality(T) = n
  OBVIOUS
<1>5. ASSUME NEW i \in T, T \ {i} \in F
      PROVE  FALSE
  <2>1. Cardinality(T \ {i}) = Cardinality(T) - 1
    BY <1>1, FS_RemoveElement
  <2>2. Cardinality(T \ {i}) \in N
    BY <1>5
  <2>3. n <= Cardinality(T \ {i}) /\ n \in Nat
    <3> HIDE DEF N
    <3> QED
      BY <1>2, <1>3, <2>2
  <2> QED
    BY <1>4, <2>1, <2>3
<1> QED
  BY <1>5

(* A measure does not see the ids that weigh nothing.                        *)
LEMMA WeightlessIds ==
  ASSUME NEW w, NEW m, Additive(m, w), NEW T \in SUBSET RequestIds,
         \A i \in RequestIds \ T : w[i] = 0
  PROVE  m[RequestIds] = m[T]
<1> DEFINE F == {U \in SUBSET RequestIds : T \subseteq U /\ m[U] # m[T]}
<1>1. SUFFICES ASSUME F # {} PROVE FALSE
  OBVIOUS
<1>2. F \subseteq SUBSET RequestIds
  OBVIOUS
<1>3. PICK U \in F : \A i \in U : U \ {i} \notin F
  <2> HIDE DEF F
  <2> QED
    BY <1>1, <1>2, SmallestIds
<1>4. U \in SUBSET RequestIds /\ T \subseteq U /\ m[U] # m[T]
  OBVIOUS
<1>5. PICK i \in U : i \notin T
  BY <1>4
<1>6. /\ U \ {i} \in SUBSET RequestIds /\ i \in RequestIds \ (U \ {i})
      /\ (U \ {i}) \cup {i} = U /\ T \subseteq U \ {i}
  BY <1>4, <1>5
<1>7. m[(U \ {i}) \cup {i}] = m[U \ {i}] + w[i] /\ m[U \ {i}] \in Nat
  BY <1>6 DEF Additive
<1>8. w[i] = 0
  BY <1>4, <1>5
<1>9. m[(U \ {i}) \cup {i}] = m[U \ {i}]
  BY <1>7, <1>8
<1>10. m[U] = m[U \ {i}]
  BY <1>6, <1>9, Zenon
<1>11. m[U \ {i}] # m[T]
  BY <1>4, <1>10
<1>12. U \ {i} \in F
  BY <1>6, <1>11
<1> QED
  BY <1>3, <1>5, <1>12

\* The fold takes the ids in an order of its own, and arrives there too.
FoldsOver(it, T, w) ==
  /\ it[{}] = 0
  /\ \A s \in SUBSET T : s # {} => \E x \in s : it[s] = w[x] + it[s \ {x}]

LEMMA FoldMeasures ==
  ASSUME NEW w \in [RequestIds -> Nat], NEW m, Additive(m, w),
         NEW T \in SUBSET RequestIds, NEW it, FoldsOver(it, T, w)
  PROVE  it[T] = m[T]
<1> DEFINE F == {U \in SUBSET T : it[U] # m[U]}
<1>1. SUFFICES ASSUME F # {} PROVE FALSE
  OBVIOUS
<1>2. F \subseteq SUBSET RequestIds
  OBVIOUS
<1>3. PICK U \in F : \A x \in U : U \ {x} \notin F
  <2> HIDE DEF F
  <2> QED
    BY <1>1, <1>2, SmallestIds
<1>4. m[{}] = 0 /\ it[{}] = 0
  BY DEF Additive, FoldsOver
<1>5. U # {} /\ U \in SUBSET T
  BY <1>4
<1>7. PICK x : x \in U /\ it[U] = w[x] + it[U \ {x}]
  BY <1>5 DEF FoldsOver
<1>9. it[U \ {x}] = m[U \ {x}]
  BY <1>3, <1>5, <1>7
<1>10. /\ U \ {x} \in SUBSET RequestIds /\ x \in RequestIds \ (U \ {x})
       /\ (U \ {x}) \cup {x} = U
  BY <1>5, <1>7
<1>11. m[(U \ {x}) \cup {x}] = m[U \ {x}] + w[x]
  BY <1>10 DEF Additive
<1>12. m[U \ {x}] \in Nat /\ w[x] \in Nat
  BY <1>10 DEF Additive
<1>13. m[U] = m[U \ {x}] + w[x]
  BY <1>10, <1>11, Zenon
<1>14. it[U] = w[x] + m[U \ {x}]
  BY <1>7, <1>9, Zenon
<1>15. it[U] = m[U]
  BY <1>12, <1>13, <1>14
<1> QED
  BY <1>3, <1>15

(* What MapThenSumSet computes is the measure of the ids it adds.            *)
LEMMA SumMeasured ==
  ASSUME NEW w \in [RequestIds -> Nat], NEW m, Additive(m, w),
         NEW T \in SUBSET RequestIds, NEW f, \A x \in T : f[x] = w[x]
  PROVE  SumOver(f, T) = m[T]
<1> DEFINE Fold(it) ==
      it = [s \in SUBSET T |-> IF s = {} THEN 0
              ELSE f[CHOOSE x \in s : TRUE] + it[s \ {CHOOSE x \in s : TRUE}]]
           e == CHOOSE it : Fold(it)
           k == [s \in SUBSET T |-> m[s]]
<1>1. SumOver(f, T) = e[T]
  BY Zenon DEF SumOver, MapThenSumSet, MapThenFoldSet
<1>2. ASSUME NEW s \in SUBSET T, NEW x \in s
      PROVE  /\ s \ {x} \in SUBSET T
             /\ w[x] = f[x]
             /\ m[s] = w[x] + m[s \ {x}]
  <2>1. /\ s \ {x} \in SUBSET T /\ s \ {x} \in SUBSET RequestIds
        /\ x \in RequestIds \ (s \ {x})
    OBVIOUS
  <2>2. (s \ {x}) \cup {x} = s
    BY <2>1
  <2>3. m[(s \ {x}) \cup {x}] = m[s \ {x}] + w[x] /\ m[s \ {x}] \in Nat /\ w[x] \in Nat
    BY <2>1 DEF Additive
  <2>4. m[s] = m[s \ {x}] + w[x]
    BY <2>2, <2>3, Zenon
  <2>5. m[s] = w[x] + m[s \ {x}]
    BY <2>3, <2>4
  <2> QED
    BY <2>1, <2>5
<1>3. Fold(k)
  <2>1. ASSUME NEW s \in SUBSET T
        PROVE  m[s] = IF s = {} THEN 0
                 ELSE f[CHOOSE x \in s : TRUE] + k[s \ {CHOOSE x \in s : TRUE}]
    <3>1. CASE s = {}
      BY <3>1 DEF Additive
    <3>2. CASE s # {}
      <4>1. PICK x : x = CHOOSE y \in s : TRUE
        OBVIOUS
      <4>2. x \in s
        BY <3>2, <4>1
      <4>3. /\ s \ {x} \in SUBSET T
            /\ w[x] = f[x]
            /\ m[s] = w[x] + m[s \ {x}]
        BY <1>2, <4>2
      <4>4. k[s \ {x}] = m[s \ {x}]
        BY <4>3
      <4>5. m[s] = f[x] + k[s \ {x}]
        BY <4>3, <4>4, Zenon
      <4> QED
        BY <3>2, <4>1, <4>5, Zenon
    <3> QED
      BY <3>1, <3>2
  <2> QED
    BY <2>1, Zenon
<1>4. Fold(e)
  <2> HIDE DEF Fold, k
  <2> QED
    BY <1>3, Zenon
<1> HIDE DEF e
<1>5. e[{}] = 0
  BY <1>4, Zenon
<1>6. ASSUME NEW s \in SUBSET T, s # {}
      PROVE  \E x \in s : e[s] = w[x] + e[s \ {x}]
  <2>1. PICK x : x = CHOOSE y \in s : TRUE
    OBVIOUS
  <2>2. x \in s
    BY <1>6, <2>1
  <2>3. w[x] = f[x]
    BY <1>2, <2>2
  <2>4. e[s] = f[x] + e[s \ {x}]
    BY <1>4, <1>6, <2>1, Zenon
  <2>5. e[s] = w[x] + e[s \ {x}]
    BY <2>3, <2>4, Zenon
  <2> QED
    BY <2>2, <2>5
<1>7. FoldsOver(e, T, w)
  BY <1>5, <1>6 DEF FoldsOver
<1>8. e[T] = m[T]
  BY <1>7, FoldMeasures
<1> QED
  BY <1>1, <1>8

(* Weights that are the costs of the requests in some states, and nothing     *)
(* for the others, add up to what these requests cost together.               *)
LEMMA ChargedIsSum ==
  ASSUME NEW a, NEW states, NEW w \in [RequestIds -> Nat], NEW h, SumsTo(w, h),
         \A i \in RequestIds :
           w[i] = IF requests[<<a, i>>].state \in states THEN requests[<<a, i>>].cost ELSE 0
  PROVE  Charged(a, states) = h
<1>1. PICK m : Additive(m, w) /\ m[RequestIds] = h
  BY DEF SumsTo
<1>2. PICK T : T = {i \in RequestIds : requests[<<a, i>>].state \in states}
  OBVIOUS
<1>3. PICK f : f = [i \in RequestIds |-> requests[<<a, i>>].cost]
  OBVIOUS
<1>4. T \in SUBSET RequestIds /\ \A i \in T : f[i] = w[i]
  BY <1>2, <1>3
<1>5. \A i \in RequestIds \ T : w[i] = 0
  BY <1>2
<1>6. m[RequestIds] = m[T]
  BY <1>1, <1>4, <1>5, WeightlessIds
<1>7. SumOver(f, T) = m[T]
  BY <1>1, <1>4, SumMeasured
<1>8. Charged(a, states) = SumOver(f, T)
  BY <1>2, <1>3 DEF Charged
<1> QED
  BY <1>1, <1>6, <1>7, <1>8, Zenon

LEMMA EarnedType ==
  ASSUME TypeOK, NEW a \in Activations
  PROVE  Earned(a) \in [RequestIds -> Nat]
BY DEF TypeOK, Earned, Request, RequestKeys

(* Every reachable ledger survives a restart: each grant's held and consumed  *)
(* units are the sums of its requests' costs, none of them was charged twice, *)
(* and no request is unfunded, over its ceiling or without the result its     *)
(* state promises.                                                            *)
THEOREM RehydratableHolds == Spec => []Rehydratable
<1>1. RestartInv => Rehydratable
  <2> SUFFICES ASSUME RestartInv PROVE Rehydratable
    OBVIOUS
  <2>1. ASSUME NEW a \in Activations, Activated(a)
        PROVE  /\ grants[a].held = Charged(a, HoldingStates)
               /\ grants[a].consumed = Charged(a, {"SUCCEEDED"})
               /\ grants[a].available = a.totalUnits - grants[a].held - grants[a].consumed
               /\ grants[a].available >= 0
    <3>1. Accounted(a) /\ grants[a].held \in Nat
      BY HeldBounds DEF RestartInv, AccountsInv
    <3>2. a.totalUnits \in Nat
      BY ActivationsAssumption
    <3>3. /\ Weight(a) \in [RequestIds -> Nat]
          /\ Earned(a) \in [RequestIds -> Nat]
      BY WeightType, EarnedType DEF RestartInv, AccountsInv
    <3>4. grants[a].held = Charged(a, HoldingStates)
      <4>1. PICK w : w = Weight(a)
        OBVIOUS
      <4>2. \A i \in RequestIds :
              w[i] = IF requests[<<a, i>>].state \in HoldingStates
                     THEN requests[<<a, i>>].cost ELSE 0
        BY <4>1 DEF Weight
      <4>3. SumsTo(w, grants[a].held)
        BY <3>1, <4>1 DEF Accounted
      <4> QED
        BY <3>3, <4>1, <4>2, <4>3, ChargedIsSum
    <3>5. grants[a].consumed = Charged(a, {"SUCCEEDED"})
      <4>1. PICK w : w = Earned(a)
        OBVIOUS
      <4>2. \A i \in RequestIds :
              w[i] = IF requests[<<a, i>>].state \in {"SUCCEEDED"}
                     THEN requests[<<a, i>>].cost ELSE 0
        BY <4>1 DEF Earned
      <4>3. SumsTo(w, grants[a].consumed)
        BY <2>1, <4>1 DEF RestartInv
      <4> QED
        BY <3>3, <4>1, <4>2, <4>3, ChargedIsSum
    <3> QED
      BY <2>1, <3>1, <3>2, <3>4, <3>5 DEF Accounted
  <2>2. \A r \in Recorded : Activated(r[1]) /\ RequestSound(r)
    BY DEF RestartInv, AccountsInv, Recorded
  <2>3. Cardinality(Recorded) <= MaxRequests
    BY DEF RestartInv
  <2> QED
    BY <2>1, <2>2, <2>3 DEF Rehydratable, RequestSound
<1> QED
  BY <1>1, InitRestartInv, StepRestartInv, PTL DEF Spec


-----------------------------------------------------------------------------
(* Identities.  The ledger keeps three indexes beside its grants, and       *)
(* activation consults only the indexes.  That no identity is ever bound    *)
(* twice follows from the indexes never losing or overwriting an entry.     *)

Indexed(a) ==
  Activated(a) =>
    /\ bySettlement[a.settlement] = a
    /\ byTransaction[a.transaction] = a
    /\ byCapability[a.capability] = a
    /\ offers[a.offer] = a.scope

IndexInv == TypeOK /\ \A a \in Activations : Indexed(a)

LEMMA InitIndexInv == Init => IndexInv
BY InitTypeOK DEF Init, IndexInv, Indexed, Activated, NoGrant

(* Refreshing, holding, returning and consuming neither create a grant nor   *)
(* remove one.                                                               *)
LEMMA GrantsStay ==
  ASSUME TypeOK, [Next]_vars,
         \A k \in OfferKeys, s \in Scopes : ~RegisterOffer(k, s),
         \A a \in Activations, t \in Times : ~ActivateGrantFromTrustedRecord(a, t)
  PROVE  /\ UNCHANGED <<offers, indexVars>>
         /\ \A a \in Activations : Activated(a)' <=> Activated(a)
<1> USE DEF TypeOK, Activated, indexVars
<1>a. /\ \A a \in Activations : grants[a] \in Grant
      /\ \A r \in RequestKeys : r[1] \in Activations /\ requests[r].cost \in Nat
  BY DEF RequestKeys, Request
<1>1. ASSUME NEW a \in Activations, NEW g,
             g.lifecycle # "NONE" <=> grants[a].lifecycle # "NONE",
             grants' = [grants EXCEPT ![a] = g]
      PROVE  \A b \in Activations : Activated(b)' <=> Activated(b)
  BY <1>1
<1>2. ASSUME NEW a \in Activations, NEW t, ReadExpired(a, t)
      PROVE  \A b \in Activations : Activated(b)' <=> Activated(b)
  <2>1. grants' = [grants EXCEPT ![a] = Refreshed(grants[a], a.expiresAt, t)]
    BY <1>2 DEF ReadExpired
  <2>2. Refreshed(grants[a], a.expiresAt, t).lifecycle # "NONE"
          <=> grants[a].lifecycle # "NONE"
    BY <1>2 DEF ReadExpired
  <2> QED
    BY <1>1, <2>1, <2>2
<1>3. ASSUME NEW a \in Activations, NEW t \in Times, GetGrant(a, t) \/ RevokeGrant(a, t)
      PROVE  /\ UNCHANGED <<offers, indexVars>>
             /\ \A b \in Activations : Activated(b)' <=> Activated(b)
  <2>1. CASE ReadExpired(a, t)
    BY <1>2, <1>3, <2>1 DEF GetGrant, RevokeGrant
  <2>2. CASE ~ReadExpired(a, t)
    <3>1. [grants[a] EXCEPT !.lifecycle = "REVOKED"].lifecycle = "REVOKED"
      BY <1>a DEF Grant
    <3> QED
      BY <1>3, <2>2, <3>1 DEF GetGrant, RevokeGrant, ReadActive
  <2> QED
    BY <2>1, <2>2
<1>4. ASSUME NEW r \in RequestKeys, NEW body \in Bodies, NEW maxCost \in Costs,
             NEW cost \in Costs, NEW t1 \in Times, NEW t2 \in Times,
             ReserveRequest(r, body, maxCost, cost, t1, t2)
      PROVE  /\ UNCHANGED <<offers, indexVars>>
             /\ \A b \in Activations : Activated(b)' <=> Activated(b)
  <2>1. Hold(grants[r[1]], cost).lifecycle = grants[r[1]].lifecycle
    BY <1>a, ValuesAssumption, GrantFields
  <2>2. CASE ReadExpired(r[1], t1) \/ ReadExpired(r[1], t2)
    BY <1>a, <1>2, <1>4, <2>2 DEF ReserveRequest
  <2>3. CASE UNCHANGED grants
    BY <1>4, <2>3 DEF ReserveRequest
  <2>4. CASE grants' = [grants EXCEPT ![r[1]] = Hold(grants[r[1]], cost)]
    BY <1>a, <1>1, <1>4, <2>1, <2>4 DEF ReserveRequest
  <2> QED
    BY <1>4, <2>2, <2>3, <2>4 DEF ReserveRequest
<1>5. ASSUME NEW r \in RequestKeys, NEW t \in Times, BeginExecution(r, t)
      PROVE  /\ UNCHANGED <<offers, indexVars>>
             /\ \A b \in Activations : Activated(b)' <=> Activated(b)
  <2>1. CASE ReadExpired(r[1], t)
    BY <1>a, <1>2, <1>5, <2>1 DEF BeginExecution
  <2>2. CASE UNCHANGED grants
    BY <1>5, <2>2 DEF BeginExecution
  <2> QED
    BY <1>5, <2>1, <2>2 DEF BeginExecution
<1>6. ASSUME NEW r \in RequestKeys,
             ReleaseBeforeExecution(r) \/ ReconcileFailedReleased(r)
      PROVE  /\ UNCHANGED <<offers, indexVars>>
             /\ \A b \in Activations : Activated(b)' <=> Activated(b)
  <2>1. ReturnHeld(grants[r[1]], requests[r].cost).lifecycle = grants[r[1]].lifecycle
    BY <1>a, GrantFields
  <2>2. grants' = [grants EXCEPT ![r[1]] = ReturnHeld(grants[r[1]], requests[r].cost)]
    BY <1>6 DEF ReleaseBeforeExecution, ReconcileFailedReleased
  <2> QED
    BY <1>a, <1>1, <1>6, <2>1, <2>2
    DEF ReleaseBeforeExecution, ReconcileFailedReleased
<1>7. ASSUME NEW r \in RequestKeys, NEW result \in Results,
             CompleteExecution(r, result) \/ ReconcileSucceeded(r, result)
      PROVE  /\ UNCHANGED <<offers, indexVars>>
             /\ \A b \in Activations : Activated(b)' <=> Activated(b)
  <2>1. ConsumeHeld(grants[r[1]], requests[r].cost).lifecycle = grants[r[1]].lifecycle
    BY <1>a, GrantFields
  <2>2. grants' = [grants EXCEPT ![r[1]] = ConsumeHeld(grants[r[1]], requests[r].cost)]
    BY <1>7 DEF CompleteExecution, ReconcileSucceeded
  <2> QED
    BY <1>a, <1>1, <1>7, <2>1, <2>2 DEF CompleteExecution, ReconcileSucceeded
<1>8. ASSUME NEW r \in RequestKeys, MarkOutcomeUnknown(r)
      PROVE  /\ UNCHANGED <<offers, indexVars>>
             /\ \A b \in Activations : Activated(b)' <=> Activated(b)
  BY <1>8 DEF MarkOutcomeUnknown
<1>9. CASE UNCHANGED vars
  BY <1>9 DEF vars
<1> HIDE DEF TypeOK, Activated
<1> QED
  BY <1>3, <1>4, <1>5, <1>6, <1>7, <1>8, <1>9 DEF Next

LEMMA StepIndexInv ==
  ASSUME IndexInv, [Next]_vars
  PROVE  IndexInv'
<1>0. TypeOK /\ TypeOK'
  BY StepTypeOK DEF IndexInv
<1>1. ASSUME NEW k \in OfferKeys, NEW s \in Scopes, RegisterOffer(k, s)
      PROVE  \A a \in Activations : Indexed(a)'
  <2>1. ASSUME NEW a \in Activations, Activated(a) PROVE a.offer # k
    BY <1>1, <2>1, ActivationsAssumption, ValuesAssumption
    DEF RegisterOffer, IndexInv, Indexed
  <2> QED
    BY <1>0, <1>1, <2>1, ActivationsAssumption
    DEF RegisterOffer, IndexInv, Indexed, Activated, indexVars, TypeOK
<1>2. ASSUME NEW a \in Activations, NEW t \in Times,
             ActivateGrantFromTrustedRecord(a, t)
      PROVE  \A b \in Activations : Indexed(b)'
  <2>1. Indexed(a)'
    BY <1>0, <1>2
    DEF ActivateGrantFromTrustedRecord, Indexed, TypeOK, Settlements,
        Transactions, Capabilities
  <2>2. ASSUME NEW b \in Activations \ {a} PROVE Indexed(b)'
    <3>1. Activated(b)' <=> Activated(b)
      BY <1>0, <1>2 DEF ActivateGrantFromTrustedRecord, Activated, TypeOK
    <3>2. ASSUME Activated(b)
          PROVE  /\ b.settlement # a.settlement
                 /\ b.transaction # a.transaction
                 /\ b.capability # a.capability
      BY <1>2, <3>2, ActivationsAssumption
      DEF ActivateGrantFromTrustedRecord, IdentitiesFree, IndexInv, Indexed
    <3> QED
      BY <1>0, <1>2, <3>1, <3>2
      DEF ActivateGrantFromTrustedRecord, IndexInv, Indexed, TypeOK,
          Settlements, Transactions, Capabilities
  <2> QED
    BY <2>1, <2>2
<1>3. CASE /\ \A k \in OfferKeys, s \in Scopes : ~RegisterOffer(k, s)
           /\ \A a \in Activations, t \in Times :
                ~ActivateGrantFromTrustedRecord(a, t)
  <2>1. /\ UNCHANGED <<offers, indexVars>>
        /\ \A a \in Activations : Activated(a)' <=> Activated(a)
    BY <1>0, <1>3, GrantsStay
  <2> QED
    BY <1>0, <2>1 DEF IndexInv, Indexed, indexVars
<1> QED
  BY <1>0, <1>1, <1>2, <1>3 DEF IndexInv

(* Whatever funding records are presented, in whatever order and however     *)
(* often, a settlement, a transaction and a capability each bind at most one *)
(* activation, and readOriginalFundingGrant finds that one.                  *)
THEOREM IdentitiesBindOnceHolds == Spec => []IdentitiesBindOnce
<1>1. IndexInv => IdentitiesBindOnce
  BY DEF IndexInv, Indexed, IdentitiesBindOnce, OriginalFundingGrant
<1> QED
  BY <1>1, InitIndexInv, StepIndexInv, PTL DEF Spec
=============================================================================
