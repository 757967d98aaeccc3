------------------------- MODULE ServiceCreditModel -------------------------
(***************************************************************************)
(* The service-credit ledger of src/service-credit-model.js: offers,       *)
(* grants activated from trusted funding records, and the metered requests *)
(* made against each grant.                                                *)
(*                                                                         *)
(* Identifiers.  An activation's id is the digest of its whole record and  *)
(* a grant's id the digest of a description that holds the activation id,  *)
(* so both are represented by the activation record itself.                *)
(*                                                                         *)
(* Clock.  The code reads Date.now() inside its handlers, possibly more    *)
(* than once, and never compares two readings: a reading is any member of  *)
(* Times, and may lie before an earlier one.  `clock' is the last reading. *)
(*                                                                         *)
(* A handler that throws before it changes anything is a stuttering step   *)
(* and has no action.  A handler that throws after a refresh has expired   *)
(* the grant leaves that change behind: those outcomes are disjuncts.      *)
(***************************************************************************)
EXTENDS CreditGrants, FiniteSets, FiniteSetsExt

CONSTANTS
  OfferKeys,      \* (offerId, offerVersion) pairs
  Scopes,         \* what an offer key stands for: provider, resource, policies
  Activations,    \* the trusted funding records that may ever be presented
  RequestIds,     \* request ids a holder may use, per grant
  Bodies,         \* the rest of a request's identity, its ceiling apart
  Results,        \* cached results
  Times,          \* clock readings
  Costs,          \* unit costs, for the price and for the holder's ceiling
  MaxRequests,    \* MAX_HYDRATED_REQUESTS
  None            \* no scope, no activation, no body, no result

ASSUME ActivationsAssumption ==
  /\ \A a \in Activations :
       /\ a.offer \in OfferKeys
       /\ a.scope \in Scopes
       /\ a.totalUnits \in Nat \ {0}
       /\ a.expiresAt \in Nat \ {0}
  /\ None \notin Activations

ASSUME ValuesAssumption ==
  /\ None \notin Scopes
  /\ None \notin Bodies
  /\ None \notin Results
  /\ Times \subseteq Nat
  /\ Costs \subseteq Nat \ {0}
  /\ MaxRequests \in Nat

\* A request id is a string of a bounded length: IDENTIFIER.
ASSUME RequestIdsAssumption == IsFiniteSet(RequestIds)

Settlements  == {a.settlement : a \in Activations}
Transactions == {a.transaction : a \in Activations}
Capabilities == {a.capability : a \in Activations}

VARIABLES
  offers,            \* #offers: the scope registered under each offer key
  grants,            \* #activations and #grants
  bySettlement,      \* #activationByAuthoritySettlement
  byTransaction,     \* #activationByTransaction
  byCapability,      \* #grantByCapability
  requests,          \* #requests: grant -> request id -> record
  clock,             \* the last value the clock callback returned
  authorizations     \* executionAuthorized: true answers given, per request

vars == <<offers, grants, bySettlement, byTransaction, byCapability,
          requests, clock, authorizations>>

indexVars == <<bySettlement, byTransaction, byCapability>>

RequestKeys == Activations \X RequestIds

Request ==
  [state : RequestState \cup {"NONE"},
   body : Bodies \cup {None}, maxCost : Nat, cost : Nat,
   result : Results \cup {None}]

NoRequest ==
  [state |-> "NONE", body |-> None, maxCost |-> 0, cost |-> 0, result |-> None]

TypeOK ==
  /\ offers \in [OfferKeys -> Scopes \cup {None}]
  /\ grants \in [Activations -> Grant]
  /\ bySettlement \in [Settlements -> Activations \cup {None}]
  /\ byTransaction \in [Transactions -> Activations \cup {None}]
  /\ byCapability \in [Capabilities -> Activations \cup {None}]
  /\ requests \in [RequestKeys -> Request]
  /\ clock \in Nat
  /\ authorizations \in [RequestKeys -> Nat]

Init ==
  /\ offers = [k \in OfferKeys |-> None]
  /\ grants = [a \in Activations |-> NoGrant]
  /\ bySettlement = [s \in Settlements |-> None]
  /\ byTransaction = [t \in Transactions |-> None]
  /\ byCapability = [c \in Capabilities |-> None]
  /\ requests = [r \in RequestKeys |-> NoRequest]
  /\ clock = 0
  /\ authorizations = [r \in RequestKeys |-> 0]

-----------------------------------------------------------------------------
(* Helpers of the handlers. *)

Activated(a) == grants[a].lifecycle # "NONE"

Recorded == {r \in RequestKeys : requests[r].state # "NONE"}

Unresolved == {r \in RequestKeys : requests[r].state \in UnresolvedStates}

\* The answer of readOriginalFundingGrant: the grant both identities lead to.
OriginalFundingGrant(transaction, capability) ==
  IF byTransaction[transaction] = byCapability[capability]
  THEN byTransaction[transaction]
  ELSE None

\* Slip: only expiry is looked for, so a revoked grant still counts as active.
ReadUnexpired(a, t) ==
  /\ Refreshed(grants[a], a.expiresAt, t).lifecycle # "EXPIRED"
  /\ clock' = t

\* #refreshGrant when it leaves the grant active, read at time t.
ReadActive(a, t) ==
  /\ grants[a].lifecycle = "ACTIVE"
  /\ Refreshed(grants[a], a.expiresAt, t).lifecycle = "ACTIVE"
  /\ clock' = t

\* #refreshGrant when it expires the grant, read at time t.
ReadExpired(a, t) ==
  /\ grants[a].lifecycle = "ACTIVE"
  /\ Refreshed(grants[a], a.expiresAt, t).lifecycle = "EXPIRED"
  /\ grants' = [grants EXCEPT ![a] = Refreshed(@, a.expiresAt, t)]
  /\ clock' = t

-----------------------------------------------------------------------------
(* Offers and grants. *)

RegisterOffer(k, s) ==
  /\ offers[k] = None
  /\ offers' = [offers EXCEPT ![k] = s]
  /\ UNCHANGED <<grants, indexVars, requests, clock, authorizations>>

\* Slip: the transaction index is written but never consulted.
IdentitiesFreeButTransaction(a) ==
  /\ ~Activated(a)
  /\ bySettlement[a.settlement] = None
  /\ byCapability[a.capability] = None

\* Any identity already bound means a replay, or GRANT_IDENTITY_CONFLICT:
\* either way nothing changes.
IdentitiesFree(a) ==
  /\ ~Activated(a)
  /\ bySettlement[a.settlement] = None
  /\ byTransaction[a.transaction] = None
  /\ byCapability[a.capability] = None

ActivateGrantFromTrustedRecord(a, t) ==
  /\ IdentitiesFree(a)
  /\ offers[a.offer] = a.scope
  /\ clock' = t
  /\ a.expiresAt > t
  /\ grants' = [grants EXCEPT ![a] = NewGrant(a.totalUnits)]
  /\ bySettlement' = [bySettlement EXCEPT ![a.settlement] = a]
  /\ byTransaction' = [byTransaction EXCEPT ![a.transaction] = a]
  /\ byCapability' = [byCapability EXCEPT ![a.capability] = a]
  /\ UNCHANGED <<offers, requests, authorizations>>

GetGrant(a, t) ==
  /\ \/ ReadActive(a, t) /\ UNCHANGED grants
     \/ ReadExpired(a, t)
  /\ UNCHANGED <<offers, indexVars, requests, authorizations>>

RevokeGrant(a, t) ==
  /\ \/ /\ ReadActive(a, t)
        /\ grants' = [grants EXCEPT ![a].lifecycle = "REVOKED"]
     \/ ReadExpired(a, t)
  /\ UNCHANGED <<offers, indexVars, requests, authorizations>>

-----------------------------------------------------------------------------
(* The life of a request. *)

\* t1 is read before the price is asked, t2 after it.  A recorded request id
\* is replayed (or REQUEST_ID_CONFLICT) and changes nothing.
ReserveRequest(r, body, maxCost, cost, t1, t2) ==
  LET a == r[1] IN
  /\ requests[r].state = "NONE"
  /\ Unresolved = {}
  /\ Cardinality(Recorded) < MaxRequests
  /\ \/ ReadExpired(a, t1) /\ UNCHANGED requests
     \/ /\ ReadActive(a, t1)
        /\ cost > maxCost \/ cost > grants[a].available
        /\ UNCHANGED <<grants, requests>>
     \/ /\ Refreshed(grants[a], a.expiresAt, t1).lifecycle = "ACTIVE"
        /\ cost <= maxCost
        /\ cost <= grants[a].available
        /\ \/ ReadExpired(a, t2) /\ UNCHANGED requests
           \/ /\ ReadActive(a, t2)
              /\ grants' = [grants EXCEPT ![a] = Hold(@, cost)]
              /\ requests' = [requests EXCEPT ![r] =
                   [state |-> "RESERVED", body |-> body, maxCost |-> maxCost,
                    cost |-> cost, result |-> None]]
  /\ UNCHANGED <<offers, indexVars, authorizations>>

\* Slip: the admission gate is taken when a request is reserved, not again here.
BeginUngated(r, t) ==
  /\ requests[r].state = "RESERVED"
  /\ ReadActive(r[1], t)
  /\ requests' = [requests EXCEPT ![r].state = "EXECUTING"]
  /\ authorizations' = [authorizations EXCEPT ![r] = @ + 1]
  /\ UNCHANGED <<offers, grants, indexVars>>

BeginExecution(r, t) ==
  LET a == r[1] IN
  /\ requests[r].state = "RESERVED"
  /\ Unresolved = {}
  /\ \/ ReadExpired(a, t) /\ UNCHANGED <<requests, authorizations>>
     \/ /\ ReadActive(a, t)
        /\ requests' = [requests EXCEPT ![r].state = "EXECUTING"]
        /\ authorizations' = [authorizations EXCEPT ![r] = @ + 1]
        /\ UNCHANGED grants
  /\ UNCHANGED <<offers, indexVars>>

ReleaseBeforeExecution(r) ==
  /\ requests[r].state = "RESERVED"
  /\ grants' = [grants EXCEPT ![r[1]] = ReturnHeld(@, requests[r].cost)]
  /\ requests' = [requests EXCEPT ![r].state = "FAILED_RELEASED"]
  /\ UNCHANGED <<offers, indexVars, clock, authorizations>>

CompleteExecution(r, result) ==
  /\ requests[r].state = "EXECUTING"
  /\ grants' = [grants EXCEPT ![r[1]] = ConsumeHeld(@, requests[r].cost)]
  /\ requests' = [requests EXCEPT ![r].state = "SUCCEEDED", ![r].result = result]
  /\ UNCHANGED <<offers, indexVars, clock, authorizations>>

MarkOutcomeUnknown(r) ==
  /\ requests[r].state = "EXECUTING"
  /\ requests' = [requests EXCEPT ![r].state = "OUTCOME_UNKNOWN"]
  /\ UNCHANGED <<offers, grants, indexVars, clock, authorizations>>

ReconcileSucceeded(r, result) ==
  /\ requests[r].state = "OUTCOME_UNKNOWN"
  /\ grants' = [grants EXCEPT ![r[1]] = ConsumeHeld(@, requests[r].cost)]
  /\ requests' = [requests EXCEPT ![r].state = "SUCCEEDED", ![r].result = result]
  /\ UNCHANGED <<offers, indexVars, clock, authorizations>>

\* Slip: the request is closed but its units stay held.
ReconcileKeepingUnits(r) ==
  /\ requests[r].state = "OUTCOME_UNKNOWN"
  /\ requests' = [requests EXCEPT ![r].state = "FAILED_RELEASED"]
  /\ UNCHANGED <<offers, grants, indexVars, clock, authorizations>>

\* Slip: a request found not to have run is given another try.
ReconcileForRetry(r) ==
  /\ requests[r].state = "OUTCOME_UNKNOWN"
  /\ requests' = [requests EXCEPT ![r].state = "RESERVED"]
  /\ UNCHANGED <<offers, grants, indexVars, clock, authorizations>>

ReconcileFailedReleased(r) ==
  /\ requests[r].state = "OUTCOME_UNKNOWN"
  /\ grants' = [grants EXCEPT ![r[1]] = ReturnHeld(@, requests[r].cost)]
  /\ requests' = [requests EXCEPT ![r].state = "FAILED_RELEASED"]
  /\ UNCHANGED <<offers, indexVars, clock, authorizations>>

-----------------------------------------------------------------------------
Next ==
  \/ \E k \in OfferKeys, s \in Scopes : RegisterOffer(k, s)
  \/ \E a \in Activations, t \in Times :
       \/ ActivateGrantFromTrustedRecord(a, t)
       \/ GetGrant(a, t)
       \/ RevokeGrant(a, t)
  \/ \E r \in RequestKeys, body \in Bodies, maxCost, cost \in Costs,
        t1, t2 \in Times : ReserveRequest(r, body, maxCost, cost, t1, t2)
  \/ \E r \in RequestKeys, t \in Times : BeginExecution(r, t)
  \/ \E r \in RequestKeys :
       \/ ReleaseBeforeExecution(r)
       \/ MarkOutcomeUnknown(r)
       \/ ReconcileFailedReleased(r)
  \/ \E r \in RequestKeys, result \in Results :
       \/ CompleteExecution(r, result)
       \/ ReconcileSucceeded(r, result)

Spec == Init /\ [][Next]_vars

-----------------------------------------------------------------------------
(* Properties. *)

\* What the requests of grant a whose state is in states cost together.
SumOver(f, xs) == MapThenSumSet(LAMBDA x : f[x], xs)
Charged(a, states) ==
  SumOver([i \in RequestIds |-> requests[<<a, i>>].cost],
          {i \in RequestIds : requests[<<a, i>>].state \in states})

\* Every reachable ledger survives a restart: exportState followed by the
\* strict fromState, which recomputes each grant's counters from its requests
\* and refuses the snapshot when they differ, are negative, or when a price
\* exceeds its ceiling or there are too many requests.  (The bounds on offers
\* and grants, which the in-memory ledger leaves to its store, are not here.)
Rehydratable ==
  /\ \A a \in Activations : Activated(a) =>
       /\ grants[a].held = Charged(a, HoldingStates)
       /\ grants[a].consumed = Charged(a, {"SUCCEEDED"})
       /\ grants[a].available =
            a.totalUnits - grants[a].held - grants[a].consumed
       /\ grants[a].available >= 0
  /\ \A r \in Recorded :
       /\ Activated(r[1])
       /\ requests[r].cost <= requests[r].maxCost
       /\ requests[r].cost <= r[1].totalUnits
       /\ requests[r].state = "SUCCEEDED" <=> requests[r].result # None
  /\ Cardinality(Recorded) <= MaxRequests

\* No sequence of reservations, releases, completions and reconciliations
\* leaves a grant in debt: the three counters stay non-negative and add up to
\* what was funded (#assertCounters would otherwise throw after the change).
NeverOverspent ==
  \A a \in Activations : Activated(a) =>
    /\ grants[a].available >= 0
    /\ grants[a].held >= 0
    /\ grants[a].consumed >= 0
    /\ grants[a].available + grants[a].held + grants[a].consumed = a.totalUnits

\* At most one request of the whole ledger, over every grant, may have started
\* without a known outcome: the admission gate of reserveRequest and
\* beginExecution is global although several reservations may wait behind it.
SerialExecution ==
  \A r1, r2 \in Unresolved : r1 = r2

\* beginExecution answers executionAuthorized: true at most once for a request
\* id, whatever replays, reconciliations and expiries come between; and a
\* request that ended or is under way was authorised, unless it was released.
AuthorizedAtMostOnce ==
  \A r \in RequestKeys :
    /\ authorizations[r] <= 1
    /\ requests[r].state \in {"EXECUTING", "OUTCOME_UNKNOWN", "SUCCEEDED"}
         => authorizations[r] = 1

\* One settlement, one transaction and one capability bind one activation, and
\* the three indexes agree with the grants: the history lookup finds a grant by
\* its own funding identity for ever, and never finds another's.
IdentitiesBindOnce ==
  /\ \A a, b \in Activations : Activated(a) /\ Activated(b) /\ a # b =>
       /\ a.settlement # b.settlement
       /\ a.transaction # b.transaction
       /\ a.capability # b.capability
  /\ \A a \in Activations : Activated(a) =>
       /\ OriginalFundingGrant(a.transaction, a.capability) = a
       /\ offers[a.offer] = a.scope

\* A grant that expired or was revoked stays so even if the clock goes back,
\* and only drains: nothing new is held and nothing is authorised on it.
RetiredGrantsOnlyDrain ==
  [][\A a \in Activations : grants[a].lifecycle \in {"EXPIRED", "REVOKED"} =>
       /\ grants'[a].lifecycle = grants[a].lifecycle
       /\ grants'[a].held <= grants[a].held
       /\ \A i \in RequestIds : authorizations'[<<a, i>>] = authorizations[<<a, i>>]]_vars

\* Units are held, and executions authorised, only by a step whose last reading
\* of the clock lies before the grant's expiry: the price callback runs between
\* two readings in reserveRequest, and the second one decides.
AdmittedBeforeExpiry ==
  [][\A r \in RequestKeys :
       \/ requests[r].state = "NONE" /\ requests'[r].state # "NONE"
       \/ authorizations'[r] # authorizations[r]
       => clock' < r[1].expiresAt /\ grants'[r[1]].lifecycle = "ACTIVE"]_vars
=============================================================================
