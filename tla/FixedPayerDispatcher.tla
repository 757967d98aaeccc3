------------------------ MODULE FixedPayerDispatcher ------------------------
(***************************************************************************)
(* One shard of the fixed-payer settlement dispatcher                      *)
(* (src/zenon/fixed-payer-settlement-dispatcher.js), the child process     *)
(* that serves it (src/zenon/fixed-payer-settlement-child.js) and the      *)
(* channel between them.  Shards share nothing but `retiring'.             *)
(*                                                                         *)
(* The parent admits one call at a time, numbers it, sends it, and answers *)
(* it only when the send was accepted, its callback came without an error  *)
(* and the child's result arrived, in whatever order.  Anything else, its  *)
(* timer included, quarantines the shard for good and answers the call     *)
(* with "the outcome is unknown".  The child runs one call at a time and   *)
(* keeps one frame that arrives while its own answer is being sent.  Both  *)
(* sides remember, each for itself, the one payment that is unresolved.    *)
(*                                                                         *)
(* External: the facilitator the child calls, and the pipe, which keeps    *)
(* the order of frames and may break at any time.                          *)
(***************************************************************************)
EXTENDS Naturals, Sequences, FiniteSets

CONSTANTS
  Payments,       \* payments of this shard's payer, told apart by commitment
  Tx,             \* the transaction (the identity) each of them settles
  MaxOperations   \* admissions of the shard, and sequence numbers of the child

ASSUME TxAssumption == DOMAIN Tx = Payments
ASSUME MaxOperationsAssumption == MaxOperations \in Nat \ {0}

None == "none"
ASSUME PaymentsAssumption == None \notin Payments

Kinds == {"SETTLE", "MARK_DELIVERY_PENDING", "MARK_DELIVERED"}

(* What the facilitator may answer a settlement: included, one of the      *)
(* RECOVERY_STATES, or VALIDATION_FAILED; "done" is a delivery transition. *)
SettleOutcomes == {"success", "recovery", "invalid"}
Outcomes == SettleOutcomes \cup {"done"}

VARIABLES
  calls,      \* calls[n]: the admitted call number n, and what became of it
  pending,    \* the number of the pending call, 0 when there is none
  shard,      \* [quarantined, ambiguous, unresolved]
  retiring,
  toChild, toParent,  \* frames in the two directions of the channel
  child,      \* the child's run-time state
  served,     \* served[n]: what the facilitator answered request n (history)
  published, included  \* payments sent to the chain; payments it reported included

vars == <<calls, pending, shard, retiring, toChild, toParent, child, served,
          published, included>>
parent == <<calls, pending, shard, retiring>>
chain == <<published, included>>

NoFrame == [sequence |-> 0, kind |-> None, payment |-> None]
NotServed == [kind |-> None, payment |-> None, outcome |-> None]
NewCall(kind, p) ==
  [kind |-> kind, payment |-> p, callback |-> "due", observed |-> FALSE,
   response |-> None, answer |-> "open"]
Request(n, kind, p) == [sequence |-> n, kind |-> kind, payment |-> p]
Frame(type, n, result) == [type |-> type, sequence |-> n, result |-> result]

Init ==
  /\ calls = <<>>
  /\ pending = 0
  /\ shard = [quarantined |-> FALSE, ambiguous |-> None, unresolved |-> None]
  /\ retiring = FALSE
  /\ toChild = <<>> /\ toParent = <<>>
  /\ child = [phase |-> "READY", expected |-> 1, queued |-> NoFrame,
              running |-> NoFrame, observation |-> None, bindings |-> {},
              unresolved |-> None, fault |-> None]
  /\ served = [n \in 1..MaxOperations |-> NotServed]
  /\ published = {} /\ included = {}

-----------------------------------------------------------------------------
(* The unresolved payment, kept by the same rule on both sides.            *)

MayDiffer(u, p) == u = None \/ u = p

UnresolvedUntilAnswered(u, p, outcome) ==
  IF outcome = "recovery" /\ u = None THEN p ELSE
  IF outcome # "recovery" /\ u = p THEN None ELSE u
UnresolvedAfter(u, p, outcome) ==
  IF outcome = "recovery" /\ u = None THEN p ELSE
  IF outcome = "success" /\ u = p THEN None ELSE u

-----------------------------------------------------------------------------
(* The dispatcher.                                                         *)

AmbiguousIfNamed(named, n) == named
AmbiguousIn(named, n) ==
  IF named # None THEN named ELSE
  IF n # 0 THEN Tx[calls[n].payment] ELSE None

(* quarantineShard: final; the pending call is answered as ambiguous.      *)
Quarantined(named) ==
  /\ shard' = [shard EXCEPT !.quarantined = TRUE,
                 !.ambiguous = IF @ = None THEN AmbiguousIn(named, pending) ELSE @]
  /\ pending' = 0
  /\ calls' = IF pending = 0 THEN calls
              ELSE [calls EXCEPT ![pending].answer = "ambiguous"]

(* completeIfReady, for the pending call with its new state.               *)
Ready(call) == call.callback = "ok" /\ call.response # None
TakenAtItsWord(call) == FALSE
Failed(call) == call.response = "failed"

CompleteIfReady(call) ==
  IF ~Ready(call)
  THEN /\ calls' = [calls EXCEPT ![pending] = call]
       /\ UNCHANGED <<pending, shard>>
  ELSE IF Failed(call)
  THEN /\ shard' = [shard EXCEPT !.quarantined = TRUE,
                      !.ambiguous = IF @ = None THEN Tx[call.payment] ELSE @]
       /\ pending' = 0
       /\ calls' = [calls EXCEPT ![pending] = [call EXCEPT !.answer = "ambiguous"]]
  ELSE /\ shard' = IF call.kind # "SETTLE" THEN shard
                   ELSE [shard EXCEPT !.unresolved =
                           UnresolvedAfter(@, call.payment, call.response)]
       /\ pending' = 0
       /\ calls' = [calls EXCEPT ![pending] = [call EXCEPT !.answer = call.response]]

(* A call that gets as far as admission.  The refusals before it, and the  *)
(* repeated "ambiguous" of a quarantined shard, change nothing.            *)
Admissible(kind, p) ==
  /\ ~retiring /\ ~shard.quarantined
  /\ pending = 0
  /\ Len(calls) < MaxOperations
  /\ kind = "SETTLE" => MayDiffer(shard.unresolved, p)

(* dispatchOperation.  A send that returns false may still deliver.        *)
Call(kind, p) ==
  /\ Admissible(kind, p)
  /\ LET n == Len(calls) + 1
         frame == Request(n, kind, p)
     IN \/ /\ calls' = Append(calls, NewCall(kind, p))
           /\ pending' = n
           /\ toChild' = Append(toChild, frame)
           /\ UNCHANGED shard
        \/ /\ calls' = Append(calls, [NewCall(kind, p) EXCEPT !.answer = "ambiguous"])
           /\ shard' = [shard EXCEPT !.quarantined = TRUE, !.ambiguous = Tx[p]]
           /\ toChild' \in {toChild, Append(toChild, frame)}
           /\ UNCHANGED pending
  /\ UNCHANGED <<retiring, toParent, child, served, chain>>

(* The body fits its bound and the frame around it does not: the call is   *)
(* refused after its admission and its sequence number is spent.           *)
FrameTooLarge(kind, p) ==
  /\ Admissible(kind, p)
  /\ calls' = Append(calls, [NewCall(kind, p) EXCEPT !.callback = "none",
                                                     !.answer = "refused"])
  /\ UNCHANGED <<pending, shard, retiring, toChild, toParent, child, served, chain>>

(* The callback of send; after the call has been answered it is ignored.   *)
SendCallback ==
  /\ pending # 0 /\ calls[pending].callback = "due"
  /\ \/ CompleteIfReady([calls[pending] EXCEPT !.callback = "ok"])
     \/ Quarantined(Tx[calls[pending].payment])
  /\ UNCHANGED <<retiring, toChild, toParent, child, served, chain>>

(* parseChildFrame: of this very request, and of its kind.                 *)
Matches(frame, n) ==
  /\ frame.sequence = n
  /\ frame.type = "OBSERVED" => calls[n].kind = "SETTLE"

(* onMessage.                                                              *)
Receive ==
  /\ toParent # <<>>
  /\ toParent' = Tail(toParent)
  /\ LET frame == Head(toParent)
     IN IF shard.quarantined THEN UNCHANGED <<calls, pending, shard>>
        ELSE IF pending = 0 THEN Quarantined(None)
        ELSE LET call == calls[pending]
             IN IF \/ call.response # None
                   \/ ~Matches(frame, pending)
                   \/ frame.type = "OBSERVED" /\ call.observed
                THEN Quarantined(None)
                ELSE IF frame.type = "OBSERVED"
                THEN /\ calls' = [calls EXCEPT ![pending].observed = TRUE]
                     /\ UNCHANGED <<pending, shard>>
                ELSE CompleteIfReady([call EXCEPT !.response = frame.result])
  /\ UNCHANGED <<retiring, toChild, child, served, chain>>

(* The request timer runs until the call is answered.                      *)
TimerUntilResponse == pending # 0 /\ calls[pending].response = None
TimerRuns == pending # 0

Timeout ==
  /\ TimerRuns
  /\ Quarantined(Tx[calls[pending].payment])
  /\ UNCHANGED <<retiring, toChild, toParent, child, served, chain>>

(* disconnect, exit, close and the errors of channel and process.          *)
ShardLost ==
  /\ ~shard.quarantined
  /\ Quarantined(None)
  /\ UNCHANGED <<retiring, toChild, toParent, child, served, chain>>

Retire ==
  /\ ~retiring
  /\ retiring' = TRUE
  /\ Quarantined(None)
  /\ UNCHANGED <<toChild, toParent, child, served, chain>>

-----------------------------------------------------------------------------
(* The child.                                                              *)

(* finish: nothing is read or sent any more.                               *)
Finished(c, fault) ==
  [c EXCEPT !.phase = "DONE", !.queued = NoFrame, !.running = NoFrame,
            !.observation = None, !.fault = IF @ = None THEN fault ELSE @]

BindingOf(c, p) == {b \in c.bindings : Tx[b.payment] = Tx[p]}
Deliverable(c, request) ==
  \E b \in BindingOf(c, request.payment) :
    /\ b.eligible
    /\ request.kind = "MARK_DELIVERY_PENDING" => b.payment = request.payment

(* The child's state while it sends an answer, and the frame it sends: a   *)
(* continuation answers and goes on, a terminal answer is its last.        *)
Continuation(c, n, result) ==
  [state |-> [c EXCEPT !.phase = "SENDING", !.running = NoFrame, !.observation = None],
   sent |-> <<Frame("RESULT", n, result)>>]
Terminal(c, n, fault) ==
  [state |-> [c EXCEPT !.phase = "TERMINAL", !.running = NoFrame, !.observation = None,
                       !.fault = fault],
   sent |-> <<Frame("RESULT", n, "failed")>>]
Running(c, request) ==
  [state |-> [c EXCEPT !.phase = "RUNNING", !.running = request], sent |-> <<>>]

(* processFrame, up to the call of the facilitator.  The frame that        *)
(* reports a protocol error belongs to no request.                         *)
Processed(c, request) ==
  LET p == request.payment
      n == request.sequence
  IN IF n # c.expected THEN Terminal(c, 0, "sequence")
     ELSE IF request.kind # "SETTLE"
     THEN IF Deliverable(c, request) THEN Running(c, request)
          ELSE Terminal(c, n, "identity")
     ELSE IF ~MayDiffer(c.unresolved, p)
     THEN Continuation([c EXCEPT !.fault = "unresolved"], n, "failed")
     ELSE IF \E b \in BindingOf(c, p) : b.payment # p
     THEN Terminal(c, n, "identity")
     ELSE Running(c, request)

Does(step) ==
  /\ child' = step.state
  /\ toParent' = toParent \o step.sent

(* onMessage of the child.                                                 *)
TakenWhenReady(c, request) ==
  IF c.phase = "READY" THEN Processed(c, request)
  ELSE [state |-> Finished(c, "duplicate"), sent |-> <<>>]
Taken(c, request) ==
  IF c.phase = "READY" THEN Processed(c, request)
  ELSE [state |-> IF c.phase = "SENDING" /\ c.queued = NoFrame
                  THEN [c EXCEPT !.queued = request]
                  ELSE Finished(c, "duplicate"),
        sent |-> <<>>]

ChildReceive ==
  /\ toChild # <<>> /\ child.phase # "DONE"
  /\ toChild' = Tail(toChild)
  /\ Does(Taken(child, Head(toChild)))
  /\ UNCHANGED <<parent, served, chain>>

(* The facilitator says, through its one-use capability, that it is about  *)
(* to publish, and goes on once that frame has left.                       *)
Observe ==
  /\ child.phase = "RUNNING" /\ child.running.kind = "SETTLE"
  /\ child.observation = None
  /\ child' = [child EXCEPT !.observation = "sending"]
  /\ toParent' = Append(toParent, Frame("OBSERVED", child.running.sequence, None))
  /\ UNCHANGED <<parent, toChild, served, chain>>

ObservationSent ==
  /\ child.observation = "sending"
  /\ child' \in {[child EXCEPT !.observation = "sent"], Finished(child, "send")}
  /\ UNCHANGED <<parent, toChild, toParent, served, chain>>

Publish ==
  /\ child.observation = "sent"
  /\ published' = published \cup {child.running.payment}
  /\ UNCHANGED <<parent, toChild, toParent, child, served, included>>

(* The facilitator answers, or throws; the child keeps what it binds.      *)
BindingAfter(c, p, outcome) ==
  [payment |-> p,
   eligible |-> outcome = "success" \/ (\E b \in BindingOf(c, p) : b.eligible)]

After(c, request, outcome) ==
  IF request.kind # "SETTLE" THEN c
  ELSE [c EXCEPT
          !.bindings = IF outcome = "invalid" THEN @
                       ELSE (@ \ BindingOf(c, request.payment))
                              \cup {BindingAfter(c, request.payment, outcome)},
          !.unresolved = UnresolvedAfter(@, request.payment, outcome)]

(* A facilitator that published this payment never calls it invalid.       *)
MayAnswer(request, outcome) ==
  IF request.kind # "SETTLE" THEN outcome = "done"
  ELSE outcome \in SettleOutcomes
       /\ (outcome = "invalid" => child.observation = None)

Answers(outcome) ==
  /\ child.phase = "RUNNING" /\ child.observation # "sending"
  /\ MayAnswer(child.running, outcome)
  /\ LET request == child.running
         n == request.sequence
     IN /\ served' = [served EXCEPT ![n] = [kind |-> request.kind,
                        payment |-> request.payment, outcome |-> outcome]]
        /\ included' = IF outcome = "success" THEN included \cup {request.payment}
                       ELSE included
        /\ Does(Continuation(After(child, request, outcome), n, outcome))
  /\ UNCHANGED <<parent, toChild, published>>

Throws ==
  /\ child.phase = "RUNNING" /\ child.observation # "sending"
  /\ Does(Terminal(child, child.running.sequence, "dependency"))
  /\ UNCHANGED <<parent, toChild, served, chain>>

(* The callback of the child's answer: it takes up the frame it kept.      *)
ReplySent ==
  /\ child.phase \in {"SENDING", "TERMINAL"}
  /\ IF child.phase = "TERMINAL" THEN Does([state |-> Finished(child, None), sent |-> <<>>])
     ELSE LET c == [child EXCEPT !.phase = "READY", !.expected = @ + 1, !.queued = NoFrame]
          IN IF child.queued = NoFrame THEN Does([state |-> c, sent |-> <<>>])
             ELSE Does(Processed(c, child.queued))
  /\ UNCHANGED <<parent, toChild, served, chain>>

(* A send that fails, a disconnect, an error of the channel, an exit.      *)
ChildLost ==
  /\ child.phase # "DONE"
  /\ child' = Finished(child, "lost")
  /\ UNCHANGED <<parent, toChild, toParent, served, chain>>

Next ==
  \/ \E kind \in Kinds, p \in Payments : Call(kind, p) \/ FrameTooLarge(kind, p)
  \/ SendCallback \/ Receive \/ Timeout \/ ShardLost \/ Retire
  \/ ChildReceive \/ Observe \/ ObservationSent \/ Publish
  \/ (\E outcome \in Outcomes : Answers(outcome)) \/ Throws
  \/ ReplySent \/ ChildLost

Spec == Init /\ [][Next]_vars

(* The timer set by setTimeout fires unless it is cleared.                 *)
FairSpec == Spec /\ WF_vars(Timeout)

-----------------------------------------------------------------------------
Numbers == 1..MaxOperations
Marks == Payments \cup {None}
Faults == {None, "sequence", "identity", "unresolved", "duplicate", "send",
           "dependency", "lost"}
Requests == [sequence : Numbers, kind : Kinds, payment : Payments]

(* The shapes of the dispatcher's shard record, of the channel's frames    *)
(* and of the child's run-time state.                                      *)
TypeOK ==
  /\ calls \in Seq([kind : Kinds, payment : Payments,
                    callback : {"none", "due", "ok"}, observed : BOOLEAN,
                    response : Outcomes \cup {None, "failed"},
                    answer : Outcomes \cup {"open", "refused", "ambiguous"}])
  /\ Len(calls) <= MaxOperations
  /\ pending \in 0..Len(calls)
  /\ shard \in [quarantined : BOOLEAN, ambiguous : {Tx[p] : p \in Payments} \cup {None},
                unresolved : Marks]
  /\ retiring \in BOOLEAN
  /\ toChild \in Seq(Requests)
  /\ toParent \in Seq([type : {"OBSERVED", "RESULT"}, sequence : 0..MaxOperations,
                       result : Outcomes \cup {None, "failed"}])
  /\ child \in [phase : {"READY", "RUNNING", "SENDING", "TERMINAL", "DONE"},
                expected : 1..(MaxOperations + 1), queued : Requests \cup {NoFrame},
                running : Requests \cup {NoFrame}, observation : {None, "sending", "sent"},
                bindings : SUBSET [payment : Payments, eligible : BOOLEAN],
                unresolved : Marks, fault : Faults]
  /\ served \in [Numbers -> [kind : Kinds, payment : Payments, outcome : Outcomes]
                              \cup {NotServed}]
  /\ published \subseteq Payments /\ included \subseteq Payments

(* A call that was given a definite answer was given what the facilitator  *)
(* answered to this very request, of this kind and payment: never another  *)
(* request's answer, a failure taken for one, or an answer made up         *)
(* (completeIfReady, parseChildFrame).                                     *)
AnswersAreServed ==
  /\ TypeOK
  /\ \A n \in DOMAIN calls : calls[n].answer \notin {"open", "refused", "ambiguous"} =>
       served[n] = [kind |-> calls[n].kind, payment |-> calls[n].payment,
                    outcome |-> calls[n].answer]

(* A payer never has two payments sent to the chain that are not known to  *)
(* be included: both sides' unresolvedPayment, with quarantine for what    *)
(* neither of them heard of, keeps a replacement from being sent.          *)
OneDoubtAtATime == Cardinality(published \ included) <= 1

(* The child never has to refuse a frame of its own dispatcher: it is not  *)
(* sent two calls at once, a wrong number, or a payment other than the one *)
(* it holds unresolved.  The exception is the call refused after admission *)
(* because its frame is too large: it leaves a gap the child cannot close. *)
ChildKeepsUp ==
  child.fault \in {"sequence", "duplicate", "unresolved"} =>
    \E n \in DOMAIN calls : calls[n].answer = "refused"

(* A call answered as ambiguous is the last the shard admits, and the      *)
(* shard remembers its transaction (dispatchOperation, quarantineShard):   *)
(* until retirement starts, asking again to settle the same payment is     *)
(* answered as ambiguous again.  Every other call is refused, a payment of *)
(* other terms for that transaction among them (assertUnresolvedPayment).  *)
DoubtIsLastAndKept ==
  \A n \in DOMAIN calls : calls[n].answer = "ambiguous" =>
    /\ n = Len(calls)
    /\ shard.quarantined
    /\ shard.ambiguous = Tx[calls[n].payment]

(* Every call is answered, whatever happens to the child, to the channel   *)
(* or to the callback of the send: the timer outlives all of them.         *)
EveryCallSettles ==
  (\E n \in DOMAIN calls : calls[n].answer = "open") ~>
    (\A n \in DOMAIN calls : calls[n].answer # "open")
=============================================================================
