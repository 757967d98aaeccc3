---------------------- MODULE FixedPayerDispatcherProofs ----------------------
(***************************************************************************)
(* Proofs about FixedPayerDispatcher, for any payments and any number of   *)
(* operations.                                                             *)
(*                                                                         *)
(* The dispatcher gives a definite answer only when it holds the frame of  *)
(* that very request, and a request is served once, so what was served     *)
(* says which requests the child still has to answer.  Unless a call was   *)
(* refused after its admission, the dispatcher sends nothing before the    *)
(* last request was served: the child is never more than one frame behind  *)
(* and both sides have made the same of every answer but the last.         *)
(***************************************************************************)
EXTENDS FixedPayerDispatcher, SequenceTheorems, FiniteSetTheorems, TLAPS

-----------------------------------------------------------------------------
(* The inductive invariant. *)

Served(n, outcome) ==
  served[n] = [kind |-> calls[n].kind, payment |-> calls[n].payment,
               outcome |-> outcome]

\* What the dispatcher holds of its calls.
CallsInv ==
  /\ pending # 0 => /\ pending = Len(calls) /\ ~ shard.quarantined
                    /\ calls[pending].answer = "open"
  /\ ~ shard.quarantined => shard.ambiguous = None
  /\ \A n \in DOMAIN calls :
       /\ calls[n].answer = "open" => n = pending
       /\ calls[n].answer \in Outcomes => calls[n].response = calls[n].answer
       /\ calls[n].response \in Outcomes => Served(n, calls[n].response)
       /\ calls[n].answer = "ambiguous" =>
            /\ n = Len(calls) /\ shard.quarantined
            /\ shard.ambiguous = Tx[calls[n].payment]

\* A request in the hands of the child is the call it is numbered for.
OfCall(request) ==
  /\ request.sequence \in DOMAIN calls
  /\ request.kind = calls[request.sequence].kind
  /\ request.payment = calls[request.sequence].payment

FramesInv ==
  /\ \A i \in DOMAIN toChild : OfCall(toChild[i])
  /\ child.queued # NoFrame => OfCall(child.queued)
  /\ child.running # NoFrame => OfCall(child.running)
  /\ \A i \in DOMAIN toParent :
       toParent[i].result \in Outcomes =>
         /\ toParent[i].sequence \in DOMAIN calls
         /\ Served(toParent[i].sequence, toParent[i].result)

\* The child answers the requests in their order, each of them once.
ChildInv ==
  /\ child.expected <= Len(calls) + 1
  /\ child.phase \in {"RUNNING", "SENDING"} => child.expected <= Len(calls)
  /\ child.phase = "RUNNING" <=> child.running # NoFrame
  /\ child.phase = "RUNNING" => child.running.sequence = child.expected
  /\ child.queued # NoFrame => child.phase = "SENDING"
  /\ child.observation # None =>
       child.phase = "RUNNING" /\ child.running.kind = "SETTLE"
  /\ child.phase \notin {"TERMINAL", "DONE"} =>
       child.fault \in {None, "unresolved"}
  /\ child.phase = "TERMINAL" => child.fault # None
  /\ \A n \in Numbers : n > Len(calls) => served[n] = NotServed
  /\ \A n \in Numbers :
       n > child.expected
         \/ (n = child.expected /\ child.phase \in {"READY", "RUNNING"}) =>
         served[n] = NotServed

\* What was sent to the chain and is not known to be included is what the
\* child is about to settle, or what it holds unresolved.
DoubtInv ==
  /\ child.phase = "RUNNING" /\ child.running.kind = "SETTLE" =>
       MayDiffer(child.unresolved, child.running.payment)
  /\ child.phase \in {"READY", "RUNNING", "SENDING"} =>
       published \ included \subseteq
         IF child.observation # None THEN {child.running.payment}
         ELSE {child.unresolved} \ {None}
  /\ \E p \in Payments \cup {None} : published \ included \subseteq {p}

NoGap == \A n \in DOMAIN calls : calls[n].answer # "refused"

\* The child is at most one frame behind.
OneBehind ==
  /\ child.fault \notin {"sequence", "duplicate", "unresolved"}
  /\ child.phase = "RUNNING" => child.expected = Len(calls)
  /\ child.queued # NoFrame => /\ child.queued.sequence = Len(calls)
                               /\ child.expected + 1 = Len(calls)
  /\ toChild # <<>> /\ child.phase \notin {"TERMINAL", "DONE"} =>
       /\ Len(toChild) = 1 /\ toChild[1].sequence = Len(calls)
       /\ child.phase = "READY" => child.expected = Len(calls)
       /\ child.phase = "SENDING" =>
            child.expected + 1 = Len(calls) /\ child.queued = NoFrame
       /\ child.phase # "RUNNING"

\* Both sides hold the same payment unresolved, but for an answer on its way.
Agreed ==
  child.unresolved =
    IF pending = 0 \/ served[pending] = NotServed
         \/ calls[pending].kind # "SETTLE"
    THEN shard.unresolved
    ELSE UnresolvedAfter(shard.unresolved, calls[pending].payment,
                         served[pending].outcome)

\* The child has no reason to refuse the last request.
LastMayRun ==
  /\ Len(calls) > 0 /\ served[Len(calls)] = NotServed
  /\ calls[Len(calls)].kind = "SETTLE"
  => MayDiffer(child.unresolved, calls[Len(calls)].payment)

InStep == OneBehind /\ (~ shard.quarantined => Agreed) /\ LastMayRun

DispatcherInv ==
  /\ TypeOK /\ CallsInv /\ FramesInv /\ ChildInv /\ DoubtInv
  /\ NoGap => InStep

-----------------------------------------------------------------------------
(* Types. *)

CallSet ==
  [kind : Kinds, payment : Payments, callback : {"none", "due", "ok"},
   observed : BOOLEAN, response : Outcomes \cup {None, "failed"},
   answer : Outcomes \cup {"open", "refused", "ambiguous"}]
FrameSet ==
  [type : {"OBSERVED", "RESULT"}, sequence : 0 .. MaxOperations,
   result : Outcomes \cup {None, "failed"}]
ShardSet ==
  [quarantined : BOOLEAN, ambiguous : {Tx[p] : p \in Payments} \cup {None},
   unresolved : Marks]
ChildSet ==
  [phase : {"READY", "RUNNING", "SENDING", "TERMINAL", "DONE"},
   expected : 1 .. (MaxOperations + 1), queued : Requests \cup {NoFrame},
   running : Requests \cup {NoFrame}, observation : {None, "sending", "sent"},
   bindings : SUBSET [payment : Payments, eligible : BOOLEAN],
   unresolved : Marks, fault : Faults]
ServedSet ==
  [Numbers -> [kind : Kinds, payment : Payments, outcome : Outcomes]
                \cup {NotServed}]

Typed(cs, n, sh, tc, tp, ch, sv) ==
  /\ cs \in Seq(CallSet) /\ Len(cs) <= MaxOperations /\ n \in 0 .. Len(cs)
  /\ sh \in ShardSet /\ tc \in Seq(Requests) /\ tp \in Seq(FrameSet)
  /\ ch \in ChildSet /\ sv \in ServedSet

LEMMA TypedIs ==
  TypeOK <=> /\ Typed(calls, pending, shard, toChild, toParent, child, served)
             /\ retiring \in BOOLEAN
             /\ published \subseteq Payments /\ included \subseteq Payments
BY DEF TypeOK, Typed, CallSet, FrameSet, ShardSet, ChildSet, ServedSet

LEMMA TypedNext ==
  ASSUME Typed(calls', pending', shard', toChild', toParent', child', served'),
         retiring' \in BOOLEAN, published' \subseteq Payments,
         included' \subseteq Payments
  PROVE  TypeOK'
BY DEF TypeOK, Typed, CallSet, FrameSet, ShardSet, ChildSet, ServedSet

LEMMA Names ==
  /\ MaxOperations \in Nat /\ MaxOperations >= 1 /\ None \notin Payments
  /\ Outcomes = {"success", "recovery", "invalid", "done"}
  /\ None \notin Outcomes /\ "failed" \notin Outcomes /\ None \notin Kinds
  /\ NoFrame.sequence = 0 /\ NoFrame.kind = None /\ NoFrame \notin Requests
  /\ NotServed.kind = None
BY MaxOperationsAssumption, PaymentsAssumption
   DEF None, Outcomes, SettleOutcomes, Kinds, NoFrame, NotServed, Requests, Numbers

LEMMA CallsNow ==
  ASSUME DispatcherInv
  PROVE  /\ calls \in Seq(CallSet) /\ Len(calls) \in Nat
         /\ Len(calls) <= MaxOperations
         /\ DOMAIN calls = 1 .. Len(calls) /\ pending \in 0 .. Len(calls)
         /\ \A n \in DOMAIN calls : calls[n] \in CallSet /\ n \in Numbers
         /\ shard \in ShardSet /\ child \in ChildSet /\ served \in ServedSet
         /\ toChild \in Seq(Requests) /\ toParent \in Seq(FrameSet)
         /\ retiring \in BOOLEAN
         /\ published \subseteq Payments /\ included \subseteq Payments
<1>1. TypeOK
  BY DEF DispatcherInv
<1>2. /\ calls \in Seq(CallSet) /\ Len(calls) <= MaxOperations
      /\ pending \in 0 .. Len(calls)
      /\ shard \in ShardSet /\ child \in ChildSet /\ served \in ServedSet
      /\ toChild \in Seq(Requests) /\ toParent \in Seq(FrameSet)
      /\ retiring \in BOOLEAN
      /\ published \subseteq Payments /\ included \subseteq Payments
  BY <1>1, TypedIs DEF Typed
<1>3. /\ Len(calls) \in Nat /\ DOMAIN calls = 1 .. Len(calls)
      /\ \A n \in 1 .. Len(calls) : calls[n] \in CallSet
  BY <1>2, LenProperties, ElementOfSeq
<1>4. \A n \in 1 .. Len(calls) : n \in Numbers
  BY <1>2, <1>3, Names DEF Numbers
<1> QED
  BY <1>2, <1>3, <1>4

\* The pending call.
LEMMA PendingNow ==
  ASSUME DispatcherInv, pending # 0
  PROVE  /\ pending = Len(calls) /\ pending \in DOMAIN calls /\ pending \in Numbers
         /\ calls[pending] \in CallSet /\ calls[pending].answer = "open"
         /\ shard.quarantined = FALSE /\ shard.ambiguous = None
<1>1. pending \in DOMAIN calls
  BY CallsNow
<1> QED
  BY <1>1, CallsNow DEF DispatcherInv, CallsInv, ShardSet

-----------------------------------------------------------------------------
(* The dispatcher's steps. *)

\* The calls are the same ones, whatever became of the pending one.
CallsMove ==
  /\ calls' \in Seq(CallSet) /\ Len(calls') = Len(calls)
  /\ \A n \in DOMAIN calls :
       /\ calls'[n].kind = calls[n].kind /\ calls'[n].payment = calls[n].payment
       /\ calls'[n].answer = "refused" <=> calls[n].answer = "refused"

\* Nothing is received that was not sent.
FramesShrink ==
  /\ toParent' \in Seq(FrameSet)
  /\ \A i \in DOMAIN toParent' :
       \E j \in DOMAIN toParent : toParent'[i] = toParent[j]

LEMMA TailShrinks ==
  ASSUME DispatcherInv, toParent # <<>>, toParent' = Tail(toParent)
  PROVE  FramesShrink
<1>1. /\ toParent \in Seq(FrameSet) /\ Len(toParent) \in Nat
      /\ DOMAIN toParent = 1 .. Len(toParent)
  BY CallsNow, LenProperties
<1>2. /\ toParent' \in Seq(FrameSet) /\ Len(toParent') = Len(toParent) - 1
      /\ \A i \in 1 .. Len(toParent') : toParent'[i] = toParent[i + 1]
  BY <1>1, HeadTailProperties
<1>3. DOMAIN toParent' = 1 .. Len(toParent')
  BY <1>2, LenProperties
<1> QED
  BY <1>1, <1>2, <1>3 DEF FramesShrink

LEMMA SameShrinks ==
  ASSUME DispatcherInv, toParent' = toParent
  PROVE  FramesShrink
BY CallsNow DEF FramesShrink

\* What the dispatcher does with its calls is nothing to the child.
LEMMA ChildKept ==
  ASSUME DispatcherInv, CallsMove, FramesShrink,
         UNCHANGED <<toChild, child, served, chain>>
  PROVE  /\ FramesInv' /\ ChildInv' /\ DoubtInv'
         /\ NoGap' => NoGap /\ OneBehind' /\ LastMayRun'
<1>1. /\ DOMAIN calls' = DOMAIN calls /\ Len(calls') = Len(calls)
      /\ DOMAIN calls = 1 .. Len(calls) /\ Len(calls) \in Nat
  BY CallsNow, LenProperties DEF CallsMove
<1>2. /\ toChild' = toChild /\ child' = child /\ served' = served
      /\ published' = published /\ included' = included
  BY DEF chain
<1>3. FramesInv'
  <2>1. FramesInv
    BY DEF DispatcherInv
  <2>2. \A i \in DOMAIN toChild : OfCall(toChild[i])'
    BY <1>1, <1>2, <2>1 DEF FramesInv, OfCall, CallsMove
  <2>3. /\ child.queued # NoFrame => OfCall(child.queued)'
        /\ child.running # NoFrame => OfCall(child.running)'
    BY <1>1, <1>2, <2>1 DEF FramesInv, OfCall, CallsMove
  <2>4. \A i \in DOMAIN toParent :
          toParent[i].result \in Outcomes =>
            /\ toParent[i].sequence \in DOMAIN calls'
            /\ served'[toParent[i].sequence] =
                 [kind |-> calls'[toParent[i].sequence].kind,
                  payment |-> calls'[toParent[i].sequence].payment,
                  outcome |-> toParent[i].result]
    BY <1>1, <1>2, <2>1 DEF FramesInv, Served, CallsMove
  <2>5. \A i \in DOMAIN toParent' :
          toParent'[i].result \in Outcomes =>
            /\ toParent'[i].sequence \in DOMAIN calls'
            /\ served'[toParent'[i].sequence] =
                 [kind |-> calls'[toParent'[i].sequence].kind,
                  payment |-> calls'[toParent'[i].sequence].payment,
                  outcome |-> toParent'[i].result]
    BY <2>4 DEF FramesShrink
  <2> QED
    BY <1>2, <2>2, <2>3, <2>5 DEF FramesInv, Served
<1>4. ChildInv'
  BY <1>1, <1>2 DEF DispatcherInv, ChildInv
<1>5. DoubtInv'
  BY <1>2 DEF DispatcherInv, DoubtInv
<1>6. NoGap' => NoGap
  BY <1>1 DEF NoGap, CallsMove
<1>7. NoGap => OneBehind'
  BY <1>1, <1>2 DEF DispatcherInv, InStep, OneBehind
<1>8. NoGap => LastMayRun'
  BY <1>1, <1>2 DEF DispatcherInv, InStep, LastMayRun, CallsMove
<1> QED
  BY <1>3, <1>4, <1>5, <1>6, <1>7, <1>8

\* One call is changed, and stays the call it was.
LEMMA CallChanges ==
  ASSUME DispatcherInv, pending # 0, NEW call \in CallSet,
         call.kind = calls[pending].kind, call.payment = calls[pending].payment,
         call.answer # "refused", calls' = [calls EXCEPT ![pending] = call]
  PROVE  /\ CallsMove /\ calls'[pending] = call
         /\ DOMAIN calls' = DOMAIN calls
         /\ \A n \in DOMAIN calls : n # pending => calls'[n] = calls[n]
<1>1. /\ calls' \in Seq(CallSet) /\ Len(calls') = Len(calls)
      /\ \A n \in 1 .. Len(calls) :
           calls'[n] = IF n = pending THEN call ELSE calls[n]
  BY CallsNow, PendingNow, ExceptSeq
<1>2. DOMAIN calls' = 1 .. Len(calls)
  BY <1>1, LenProperties
<1>3. DOMAIN calls = 1 .. Len(calls)
  BY CallsNow
<1> QED
  BY <1>1, <1>2, <1>3, PendingNow DEF CallsMove

LEMMA QuarantineMove ==
  ASSUME DispatcherInv, NEW named, Quarantined(named),
         named = None \/ (pending # 0 /\ named = Tx[calls[pending].payment]),
         UNCHANGED served
  PROVE  /\ CallsMove /\ CallsInv' /\ shard' \in ShardSet
         /\ pending' \in 0 .. Len(calls') /\ shard'.quarantined
<1>1. /\ pending' = 0
      /\ shard' = [shard EXCEPT !.quarantined = TRUE,
                     !.ambiguous = IF @ = None THEN AmbiguousIn(named, pending) ELSE @]
      /\ calls' = IF pending = 0 THEN calls
                  ELSE [calls EXCEPT ![pending].answer = "ambiguous"]
  BY DEF Quarantined
<1>2. CASE pending = 0
  <2>1. calls' = calls /\ AmbiguousIn(named, pending) = None
    BY <1>1, <1>2 DEF AmbiguousIn
  <2>2. shard' = [shard EXCEPT !.quarantined = TRUE]
    BY <1>1, <2>1, CallsNow DEF ShardSet
  <2>3. CallsMove
    BY <2>1, CallsNow DEF CallsMove
  <2>4. /\ shard' \in ShardSet /\ shard'.quarantined = TRUE
        /\ shard'.ambiguous = shard.ambiguous
    BY <2>2, CallsNow DEF ShardSet
  <2>5. CallsInv'
    BY <1>1, <1>2, <2>1, <2>4 DEF DispatcherInv, CallsInv, Served
  <2> QED
    BY <1>1, <2>1, <2>3, <2>4, <2>5, CallsNow
<1>3. CASE pending # 0
  <2> DEFINE call == [calls[pending] EXCEPT !.answer = "ambiguous"]
  <2>1. /\ call \in CallSet /\ call.answer = "ambiguous"
        /\ call.kind = calls[pending].kind /\ call.payment = calls[pending].payment
        /\ call.response = calls[pending].response
    BY <1>3, PendingNow DEF CallSet
  <2>2. calls' = [calls EXCEPT ![pending] = call]
    BY <1>1, <1>3
  <2> HIDE DEF call
  <2>3. /\ CallsMove /\ calls'[pending] = call
        /\ DOMAIN calls' = DOMAIN calls
        /\ \A n \in DOMAIN calls : n # pending => calls'[n] = calls[n]
    BY <1>3, <2>1, <2>2, CallChanges
  <2>4. AmbiguousIn(named, pending) = Tx[calls[pending].payment]
    BY <1>3 DEF AmbiguousIn
  <2>5. Tx[calls[pending].payment] \in {Tx[p] : p \in Payments}
    BY <1>3, PendingNow DEF CallSet
  <2>6. /\ shard' \in ShardSet /\ shard'.quarantined = TRUE
        /\ shard'.ambiguous = Tx[calls[pending].payment]
    BY <1>1, <1>3, <2>4, <2>5, PendingNow, CallsNow DEF ShardSet
  <2>7. /\ pending = Len(calls') /\ 0 \in 0 .. Len(calls')
    BY <1>3, <2>3, PendingNow, CallsNow DEF CallsMove
  <2>8. CallsInv'
    <3>1. \A n \in DOMAIN calls' :
            /\ calls'[n].answer # "open"
            /\ calls'[n].answer \in Outcomes => calls'[n].response = calls'[n].answer
            /\ calls'[n].response \in Outcomes =>
                 served'[n] = [kind |-> calls'[n].kind, payment |-> calls'[n].payment,
                               outcome |-> calls'[n].response]
            /\ calls'[n].answer = "ambiguous" =>
                 /\ n = Len(calls')
                 /\ shard'.ambiguous = Tx[calls'[n].payment]
      <4> SUFFICES ASSUME NEW n \in DOMAIN calls
          PROVE /\ calls'[n].answer # "open"
                /\ calls'[n].answer \in Outcomes => calls'[n].response = calls'[n].answer
                /\ calls'[n].response \in Outcomes =>
                     served'[n] = [kind |-> calls'[n].kind,
                                   payment |-> calls'[n].payment,
                                   outcome |-> calls'[n].response]
                /\ calls'[n].answer = "ambiguous" =>
                     /\ n = Len(calls')
                     /\ shard'.ambiguous = Tx[calls'[n].payment]
        BY <2>3
      <4>1. CASE n = pending
        BY <2>1, <2>3, <2>6, <2>7, <4>1, Names DEF DispatcherInv, CallsInv, Served
      <4>2. CASE n # pending
        BY <1>3, <2>3, <4>2, PendingNow DEF DispatcherInv, CallsInv, Served
      <4> QED
        BY <4>1, <4>2
    <3> QED
      BY <1>1, <2>6, <3>1 DEF CallsInv, Served
  <2> QED
    BY <1>1, <2>3, <2>6, <2>7, <2>8
<1> QED
  BY <1>2, <1>3

\* A response is taken down, or completes the call.
LEMMA CompleteMove ==
  ASSUME DispatcherInv, pending # 0, NEW call \in CallSet,
         call.kind = calls[pending].kind, call.payment = calls[pending].payment,
         call.answer = "open",
         call.response \in Outcomes => Served(pending, call.response),
         CompleteIfReady(call), UNCHANGED <<served, child>>
  PROVE  /\ CallsMove /\ CallsInv' /\ shard' \in ShardSet
         /\ pending' \in 0 .. Len(calls')
         /\ NoGap => (~ shard'.quarantined => Agreed')
<1>0. /\ Len(calls) \in Nat /\ DOMAIN calls = 1 .. Len(calls)
      /\ pending = Len(calls) /\ pending \in DOMAIN calls /\ shard \in ShardSet
      /\ shard.quarantined = FALSE /\ shard.ambiguous = None
      /\ served' = served /\ child' = child
      /\ call.response \in Outcomes \cup {None, "failed"}
  BY CallsNow, PendingNow DEF CallSet
<1>1. ASSUME NEW done \in CallSet, done.kind = call.kind, done.payment = call.payment,
             done.response = call.response,
             done.answer \in Outcomes \cup {"open", "ambiguous"},
             done.answer = "open" => pending' = pending /\ shard' = shard,
             done.answer # "open" => pending' = 0,
             done.answer \in Outcomes => done.response = done.answer,
             done.answer = "ambiguous" =>
               shard'.quarantined /\ shard'.ambiguous = Tx[done.payment],
             done.answer # "ambiguous" =>
               shard'.quarantined = FALSE /\ shard'.ambiguous = None,
             calls' = [calls EXCEPT ![pending] = done]
      PROVE  CallsMove /\ CallsInv' /\ pending' \in 0 .. Len(calls')
             /\ calls'[pending] = done
  <2>1. /\ CallsMove /\ calls'[pending] = done
        /\ DOMAIN calls' = DOMAIN calls
        /\ \A n \in DOMAIN calls : n # pending => calls'[n] = calls[n]
    BY <1>1, CallChanges, Names
  <2>2. pending = Len(calls') /\ Len(calls') \in Nat /\ pending' \in {0, pending}
    BY <1>0, <1>1, <2>1 DEF CallsMove
  <2>3. ASSUME NEW n \in DOMAIN calls
        PROVE /\ calls'[n].answer = "open" => n = pending'
              /\ calls'[n].answer \in Outcomes => calls'[n].response = calls'[n].answer
              /\ calls'[n].response \in Outcomes =>
                   served'[n] = [kind |-> calls'[n].kind,
                                 payment |-> calls'[n].payment,
                                 outcome |-> calls'[n].response]
              /\ calls'[n].answer = "ambiguous" =>
                   /\ n = Len(calls') /\ shard'.quarantined
                   /\ shard'.ambiguous = Tx[calls'[n].payment]
    <3>1. CASE n = pending
      BY <1>0, <1>1, <2>1, <2>2, <3>1, Names DEF Served
    <3>2. CASE n # pending
      BY <1>0, <2>1, <3>2 DEF DispatcherInv, CallsInv, Served
    <3> QED
      BY <3>1, <3>2
  <2>4. pending' # 0 => /\ pending' = Len(calls') /\ shard'.quarantined = FALSE
                        /\ calls'[pending'].answer = "open"
    BY <1>0, <1>1, <2>1, <2>2
  <2>5. shard'.quarantined \/ shard'.ambiguous = None
    BY <1>1
  <2>6. CallsInv'
    BY <2>1, <2>3, <2>4, <2>5 DEF CallsInv, Served
  <2> QED
    BY <1>0, <2>1, <2>2, <2>6
<1>2. CASE ~ Ready(call) /\ calls' = [calls EXCEPT ![pending] = call]
           /\ UNCHANGED <<pending, shard>>
  <2>1. CallsMove /\ CallsInv' /\ pending' \in 0 .. Len(calls') /\ calls'[pending] = call
    BY <1>0, <1>1, <1>2, Names
  <2>2. NoGap => Agreed'
    BY <1>0, <1>2, <2>1 DEF Agreed, DispatcherInv, InStep
  <2> QED
    BY <1>0, <1>2, <2>1, <2>2
<1>3. CASE /\ Ready(call) /\ Failed(call)
           /\ shard' = [shard EXCEPT !.quarantined = TRUE,
                          !.ambiguous = IF @ = None THEN Tx[call.payment] ELSE @]
           /\ pending' = 0
           /\ calls' = [calls EXCEPT ![pending] = [call EXCEPT !.answer = "ambiguous"]]
  <2> DEFINE done == [call EXCEPT !.answer = "ambiguous"]
  <2>1. /\ done \in CallSet /\ done.kind = call.kind /\ done.payment = call.payment
        /\ done.response = call.response /\ done.answer = "ambiguous"
    BY DEF CallSet
  <2>2. Tx[call.payment] \in {Tx[p] : p \in Payments}
    BY DEF CallSet
  <2>3. /\ shard' \in ShardSet /\ shard'.quarantined = TRUE
        /\ shard'.ambiguous = Tx[call.payment]
    BY <1>0, <1>3, <2>2 DEF ShardSet
  <2>4. calls' = [calls EXCEPT ![pending] = done]
    BY <1>3
  <2> HIDE DEF done
  <2>5. CallsMove /\ CallsInv' /\ pending' \in 0 .. Len(calls')
    BY <1>1, <1>3, <2>1, <2>3, <2>4, Names
  <2> QED
    BY <2>3, <2>5
<1>4. CASE /\ Ready(call) /\ ~ Failed(call)
           /\ shard' = IF call.kind # "SETTLE" THEN shard
                       ELSE [shard EXCEPT !.unresolved =
                               UnresolvedAfter(@, call.payment, call.response)]
           /\ pending' = 0
           /\ calls' = [calls EXCEPT ![pending] = [call EXCEPT !.answer = call.response]]
  <2> DEFINE done == [call EXCEPT !.answer = call.response]
  <2>0. call.response \in Outcomes
    BY <1>0, <1>4 DEF Ready, Failed
  <2>1. /\ done \in CallSet /\ done.kind = call.kind /\ done.payment = call.payment
        /\ done.response = call.response /\ done.answer = call.response
    BY <2>0 DEF CallSet
  <2>2. UnresolvedAfter(shard.unresolved, call.payment, call.response) \in Marks
    BY <1>0 DEF UnresolvedAfter, ShardSet, Marks, CallSet
  <2>3. /\ shard' \in ShardSet /\ shard'.quarantined = FALSE /\ shard'.ambiguous = None
        /\ shard'.unresolved =
             IF call.kind # "SETTLE" THEN shard.unresolved
             ELSE UnresolvedAfter(shard.unresolved, call.payment, call.response)
    BY <1>0, <1>4, <2>2 DEF ShardSet
  <2>4. calls' = [calls EXCEPT ![pending] = done]
    BY <1>4
  <2>7. done.answer # "open" /\ done.answer # "ambiguous"
    BY <2>0, <2>1, Names
  <2> HIDE DEF done
  <2>5. CallsMove /\ CallsInv' /\ pending' \in 0 .. Len(calls')
    BY <1>1, <1>4, <2>0, <2>1, <2>3, <2>4, <2>7
  <2>6. NoGap => Agreed'
    <3> SUFFICES ASSUME NoGap PROVE Agreed'
      OBVIOUS
    <3>1. Agreed
      BY <1>0 DEF DispatcherInv, InStep
    <3>2. served[pending] # NotServed /\ served[pending].outcome = call.response
      BY <2>0, CallsNow, Names DEF Served, CallSet
    <3>3. child.unresolved = shard'.unresolved
      BY <1>0, <2>3, <3>1, <3>2 DEF Agreed
    <3> QED
      BY <1>0, <1>4, <3>3 DEF Agreed
  <2> QED
    BY <2>3, <2>5, <2>6
<1> QED
  BY <1>2, <1>3, <1>4 DEF CompleteIfReady

\* A step of the dispatcher that admits no call.
LEMMA ParentStep ==
  ASSUME DispatcherInv, CallsMove, CallsInv', FramesShrink, shard' \in ShardSet,
         pending' \in 0 .. Len(calls'), retiring' \in BOOLEAN,
         NoGap => (~ shard'.quarantined => Agreed'),
         UNCHANGED <<toChild, child, served, chain>>
  PROVE  DispatcherInv'
<1>1. /\ FramesInv' /\ ChildInv' /\ DoubtInv'
      /\ NoGap' => NoGap /\ OneBehind' /\ LastMayRun'
  BY ChildKept
<1>2. TypeOK'
  <2>1. Typed(calls', pending', shard', toChild', toParent', child', served')
    BY CallsNow DEF Typed, CallsMove, FramesShrink
  <2> QED
    BY <2>1, TypedNext, CallsNow DEF chain
<1>3. NoGap' => InStep'
  BY <1>1 DEF InStep
<1> QED
  BY <1>1, <1>2, <1>3 DEF DispatcherInv

LEMMA QuarantineStep ==
  ASSUME DispatcherInv, NEW named, Quarantined(named), FramesShrink,
         named = None \/ (pending # 0 /\ named = Tx[calls[pending].payment]),
         retiring' \in BOOLEAN, UNCHANGED <<toChild, child, served, chain>>
  PROVE  DispatcherInv'
<1>1. /\ CallsMove /\ CallsInv' /\ shard' \in ShardSet
      /\ pending' \in 0 .. Len(calls') /\ shard'.quarantined
  BY QuarantineMove
<1> QED
  BY <1>1, ParentStep

LEMMA CompleteStep ==
  ASSUME DispatcherInv, pending # 0, NEW call \in CallSet,
         call.kind = calls[pending].kind, call.payment = calls[pending].payment,
         call.answer = "open",
         call.response \in Outcomes => Served(pending, call.response),
         CompleteIfReady(call), FramesShrink, UNCHANGED <<retiring, toChild, child, served, chain>>
  PROVE  DispatcherInv'
<1>1. /\ CallsMove /\ CallsInv' /\ shard' \in ShardSet
      /\ pending' \in 0 .. Len(calls')
      /\ NoGap => (~ shard'.quarantined => Agreed')
  BY CompleteMove
<1> QED
  BY <1>1, ParentStep, CallsNow

LEMMA SendCallbackStep ==
  ASSUME DispatcherInv, SendCallback
  PROVE  DispatcherInv'
<1>1. pending # 0 /\ UNCHANGED <<retiring, toChild, toParent, child, served, chain>>
  BY DEF SendCallback
<1>2. FramesShrink
  BY <1>1, SameShrinks
<1> DEFINE call == [calls[pending] EXCEPT !.callback = "ok"]
<1>3. /\ call \in CallSet /\ call.kind = calls[pending].kind
      /\ call.payment = calls[pending].payment /\ call.answer = "open"
      /\ call.response = calls[pending].response
  BY <1>1, PendingNow DEF CallSet
<1>4. call.response \in Outcomes => Served(pending, call.response)
  BY <1>1, <1>3, PendingNow DEF DispatcherInv, CallsInv
<1>5. CompleteIfReady(call) \/ Quarantined(Tx[calls[pending].payment])
  BY DEF SendCallback
<1> HIDE DEF call
<1>6. CASE CompleteIfReady(call)
  BY <1>1, <1>2, <1>3, <1>4, <1>6, CompleteStep
<1>7. CASE Quarantined(Tx[calls[pending].payment])
  BY <1>1, <1>2, <1>7, QuarantineStep, CallsNow
<1> QED
  BY <1>5, <1>6, <1>7

LEMMA TimeoutStep ==
  ASSUME DispatcherInv, Timeout
  PROVE  DispatcherInv'
BY SameShrinks, QuarantineStep, CallsNow DEF Timeout, TimerRuns

LEMMA ShardLostStep ==
  ASSUME DispatcherInv, ShardLost
  PROVE  DispatcherInv'
BY SameShrinks, QuarantineStep, CallsNow DEF ShardLost

LEMMA RetireStep ==
  ASSUME DispatcherInv, Retire
  PROVE  DispatcherInv'
BY SameShrinks, QuarantineStep, CallsNow DEF Retire

\* A frame of the pending request answers it with what it was served.
LEMMA ReceiveStep ==
  ASSUME DispatcherInv, Receive
  PROVE  DispatcherInv'
<1>1. /\ toParent # <<>> /\ toParent' = Tail(toParent)
      /\ UNCHANGED <<retiring, toChild, child, served, chain>>
  BY DEF Receive
<1>2. FramesShrink
  BY <1>1, TailShrinks
<1> DEFINE frame == Head(toParent)
           call == [calls[pending] EXCEPT !.response = frame.result]
           heard == [calls[pending] EXCEPT !.observed = TRUE]
<1>3. /\ frame \in FrameSet
      /\ frame.result \in Outcomes =>
           /\ frame.sequence \in DOMAIN calls /\ Served(frame.sequence, frame.result)
  <2>1. /\ toParent \in Seq(FrameSet) /\ 1 \in DOMAIN toParent
        /\ frame = toParent[1]
    BY <1>1, CallsNow, LenProperties, EmptySeq
  <2>2. frame \in FrameSet
    BY <2>1, ElementOfSeq, LenProperties
  <2> QED
    BY <2>1, <2>2 DEF DispatcherInv, FramesInv
<1>4. CASE UNCHANGED <<calls, pending, shard>>
  <2>1. CallsMove /\ CallsInv'
    BY <1>1, <1>4, CallsNow DEF CallsMove, CallsInv, DispatcherInv, Served
  <2>2. NoGap => (~ shard'.quarantined => Agreed')
    BY <1>1, <1>4 DEF DispatcherInv, InStep, Agreed
  <2> QED
    BY <1>1, <1>2, <1>4, <2>1, <2>2, ParentStep, CallsNow
<1>5. CASE Quarantined(None)
  BY <1>1, <1>2, <1>5, QuarantineStep, CallsNow
<1>6. CASE /\ pending # 0 /\ calls' = [calls EXCEPT ![pending].observed = TRUE]
           /\ UNCHANGED <<pending, shard>>
  <2>1. /\ heard \in CallSet /\ heard.kind = calls[pending].kind
        /\ heard.payment = calls[pending].payment
        /\ heard.answer = calls[pending].answer
        /\ heard.response = calls[pending].response
    BY <1>6, PendingNow DEF CallSet
  <2>2. calls' = [calls EXCEPT ![pending] = heard]
    BY <1>6
  <2> HIDE DEF heard
  <2>3. /\ CallsMove /\ calls'[pending] = heard
        /\ DOMAIN calls' = DOMAIN calls
        /\ \A n \in DOMAIN calls : n # pending => calls'[n] = calls[n]
    BY <1>6, <2>1, <2>2, CallChanges, PendingNow
  <2>4. \A n \in DOMAIN calls :
          /\ calls'[n].kind = calls[n].kind /\ calls'[n].payment = calls[n].payment
          /\ calls'[n].answer = calls[n].answer
          /\ calls'[n].response = calls[n].response
    BY <2>1, <2>3
  <2>5. Len(calls') = Len(calls) /\ pending' = pending /\ shard' = shard /\ served' = served
    BY <1>1, <1>6, <2>3 DEF CallsMove
  <2>6. CallsInv'
    <3>1. CallsInv
      BY DEF DispatcherInv
    <3>2. pending' # 0 => /\ pending' = Len(calls') /\ ~ shard'.quarantined
                          /\ calls'[pending'].answer = "open"
      BY <1>6, <2>4, <2>5, <3>1, PendingNow DEF CallsInv
    <3> QED
      BY <2>3, <2>4, <2>5, <3>1, <3>2 DEF CallsInv, Served
  <2>7. NoGap => (~ shard'.quarantined => Agreed')
    BY <1>1, <1>6, <2>4, <2>5, PendingNow DEF DispatcherInv, InStep, Agreed
  <2> QED
    BY <1>1, <1>2, <1>6, <2>3, <2>5, <2>6, <2>7, ParentStep, CallsNow
<1>7. CASE /\ pending # 0 /\ Matches(frame, pending) /\ CompleteIfReady(call)
  <2>1. /\ call \in CallSet /\ call.kind = calls[pending].kind
        /\ call.payment = calls[pending].payment /\ call.answer = "open"
        /\ call.response = frame.result
    <3>1. frame.result \in Outcomes \cup {None, "failed"}
      BY <1>3 DEF FrameSet
    <3> QED
      BY <1>7, <3>1, PendingNow DEF CallSet
  <2>2. call.response \in Outcomes => Served(pending, call.response)
    BY <1>3, <1>7, <2>1 DEF Matches
  <2>3. CompleteIfReady(call)
    BY <1>7
  <2> HIDE DEF call
  <2> QED
    BY <1>1, <1>2, <1>7, <2>1, <2>2, <2>3, CompleteStep
<1> HIDE DEF call, heard
<1>8. \/ UNCHANGED <<calls, pending, shard>>
      \/ Quarantined(None)
      \/ /\ pending # 0 /\ calls' = [calls EXCEPT ![pending].observed = TRUE]
         /\ UNCHANGED <<pending, shard>>
      \/ /\ pending # 0 /\ Matches(frame, pending) /\ CompleteIfReady(call)
  BY DEF Receive, call
<1> QED
  BY <1>4, <1>5, <1>6, <1>7, <1>8

-----------------------------------------------------------------------------
(* Admission. *)

\* The last request was answered definitely, so it was served, and the child
\* has nothing left to do but to send that answer.
LEMMA ChildIsIdle ==
  ASSUME DispatcherInv, NoGap, pending = 0, ~ shard.quarantined
  PROVE  /\ child.phase # "RUNNING"
         /\ child.phase = "READY" => child.expected = Len(calls) + 1
         /\ child.phase = "SENDING" => child.expected = Len(calls)
         /\ child.queued = NoFrame
         /\ child.phase \notin {"TERMINAL", "DONE"} => toChild = <<>>
<1> DEFINE N == Len(calls)
<1>1. /\ N \in Nat /\ DOMAIN calls = 1 .. N /\ child.expected \in Nat
      /\ child.expected >= 1 /\ child.expected <= N + 1
      /\ child.phase \in {"RUNNING", "SENDING"} => child.expected <= N
  <2>1. child.expected \in 1 .. (MaxOperations + 1) /\ MaxOperations \in Nat
    BY CallsNow, Names DEF ChildSet
  <2> QED
    BY <2>1, CallsNow DEF DispatcherInv, ChildInv
<1>2. /\ child.phase = "RUNNING" => child.expected = N
      /\ child.queued # NoFrame => child.expected + 1 = N
      /\ toChild # <<>> /\ child.phase \notin {"TERMINAL", "DONE"} =>
           /\ child.phase = "READY" => child.expected = N
           /\ child.phase = "SENDING" => child.expected + 1 = N
           /\ child.phase # "RUNNING"
  BY DEF DispatcherInv, InStep, OneBehind
<1>3. CASE N = 0
  <2>1. child.queued = NoFrame
    BY <1>1, <1>3 DEF DispatcherInv, FramesInv, OfCall
  <2>2. toChild = <<>>
    <3>1. ASSUME toChild # <<>> PROVE FALSE
      <4>1. 1 \in DOMAIN toChild
        BY <3>1, CallsNow, LenProperties, EmptySeq
      <4> QED
        BY <1>1, <1>3, <4>1 DEF DispatcherInv, FramesInv, OfCall
    <3> QED
      BY <3>1
  <2> QED
    BY <1>1, <1>2, <1>3, <2>1, <2>2
<1>4. CASE N # 0
  <2>1. N \in DOMAIN calls /\ N \in Numbers
    BY <1>1, <1>4, CallsNow
  <2>2. calls[N].answer \in Outcomes
    <3>1. calls[N].answer \in Outcomes \cup {"open", "refused", "ambiguous"}
      BY <2>1, CallsNow DEF CallSet
    <3>2. calls[N].answer \notin {"open", "ambiguous", "refused"}
      BY <1>4, <2>1 DEF DispatcherInv, CallsInv, NoGap
    <3> QED
      BY <3>1, <3>2
  <2>3. served[N] # NotServed
    <3>1. Served(N, calls[N].response)
      BY <2>1, <2>2 DEF DispatcherInv, CallsInv
    <3>2. calls[N].kind \in Kinds
      BY <2>1, CallsNow DEF CallSet
    <3> QED
      BY <3>1, <3>2, Names DEF Served
  <2>4. /\ ~ (N > child.expected)
        /\ ~ (N = child.expected /\ child.phase \in {"READY", "RUNNING"})
    BY <2>1, <2>3 DEF DispatcherInv, ChildInv
  <2>5. child.phase \in {"READY", "RUNNING", "SENDING", "TERMINAL", "DONE"}
    BY CallsNow DEF ChildSet
  <2> HIDE DEF N
  <2> QED
    BY <1>1, <1>2, <2>4, <2>5
<1> QED
  BY <1>3, <1>4

\* One call is admitted, and its frame is sent or not.
LEMMA AdmitStep ==
  ASSUME DispatcherInv, NEW kind \in Kinds, NEW p \in Payments, Admissible(kind, p),
         NEW call \in CallSet, call.kind = kind, call.payment = p,
         call.response = None, call.answer \in {"open", "ambiguous", "refused"},
         calls' = Append(calls, call),
         toChild' = toChild \/ toChild' = Append(toChild, Request(Len(calls) + 1, kind, p)),
         pending' = IF call.answer = "open" THEN Len(calls) + 1 ELSE 0,
         shard' \in ShardSet, shard'.unresolved = shard.unresolved,
         call.answer = "ambiguous" => shard'.quarantined /\ shard'.ambiguous = Tx[p],
         call.answer # "ambiguous" => shard' = shard,
         UNCHANGED <<retiring, toParent, child, served, chain>>
  PROVE  DispatcherInv'
<1> DEFINE N == Len(calls)
<1>1. /\ N \in Nat /\ DOMAIN calls = 1 .. N /\ N + 1 <= MaxOperations
      /\ pending = 0 /\ shard.quarantined = FALSE /\ shard.ambiguous = None
  BY CallsNow, Names DEF Admissible, ShardSet, DispatcherInv, CallsInv
<1>2. /\ calls' \in Seq(CallSet) /\ Len(calls') = N + 1
      /\ DOMAIN calls' = 1 .. (N + 1) /\ calls'[N + 1] = call
      /\ \A n \in 1 .. N : calls'[n] = calls[n]
  BY CallsNow, AppendProperties, LenProperties
<1>3. N + 1 \in Numbers /\ served[N + 1] = NotServed
  BY <1>1, Names DEF Numbers, DispatcherInv, ChildInv
<1>4. /\ toParent' = toParent /\ child' = child /\ served' = served
      /\ published' = published /\ included' = included /\ retiring' = retiring
  BY DEF chain
<1> DEFINE frame == Request(N + 1, kind, p)
<1>5. /\ frame \in Requests /\ frame.sequence = N + 1 /\ frame.kind = kind
      /\ frame.payment = p
  BY <1>3 DEF Request, Requests
<1>6. toChild' = toChild \/ toChild' = Append(toChild, frame)
  OBVIOUS
<1> HIDE DEF N, frame
<1>7. /\ toChild \in Seq(Requests) /\ Len(toChild) \in Nat
      /\ DOMAIN toChild = 1 .. Len(toChild)
      /\ toChild' \in Seq(Requests)
      /\ \A i \in DOMAIN toChild' :
           (i \in DOMAIN toChild /\ toChild'[i] = toChild[i]) \/ toChild'[i] = frame
  <2>1. /\ toChild \in Seq(Requests) /\ Len(toChild) \in Nat
        /\ DOMAIN toChild = 1 .. Len(toChild)
    BY CallsNow, LenProperties
  <2>2. CASE toChild' = toChild
    BY <2>1, <2>2
  <2>3. CASE toChild' = Append(toChild, frame)
    <3>1. /\ toChild' \in Seq(Requests) /\ Len(toChild') = Len(toChild) + 1
          /\ toChild'[Len(toChild) + 1] = frame
          /\ \A i \in 1 .. Len(toChild) : toChild'[i] = toChild[i]
      <4>1. PICK r \in Requests : r = frame
        BY <1>5
      <4>2. /\ Append(toChild, r) \in Seq(Requests)
            /\ Len(Append(toChild, r)) = Len(toChild) + 1
            /\ Append(toChild, r)[Len(toChild) + 1] = r
            /\ \A i \in 1 .. Len(toChild) : Append(toChild, r)[i] = toChild[i]
        BY <2>1, AppendProperties
      <4> QED
        BY <2>3, <4>1, <4>2
    <3>2. DOMAIN toChild' = 1 .. (Len(toChild) + 1)
      BY <2>1, <3>1, LenProperties
    <3> QED
      BY <2>1, <3>1, <3>2
  <2> QED
    BY <1>6, <2>1, <2>2, <2>3
<1>8. TypeOK'
  <2>1. pending' \in 0 .. Len(calls')
    BY <1>1, <1>2 DEF N
  <2>2. Typed(calls', pending', shard', toChild', toParent', child', served')
    BY <1>1, <1>2, <1>4, <1>7, <2>1, CallsNow DEF Typed
  <2> QED
    BY <1>4, <2>2, TypedNext, CallsNow
<1>9. CallsInv'
  <2>1. ASSUME NEW n \in DOMAIN calls'
        PROVE /\ calls'[n].answer = "open" => n = pending'
              /\ calls'[n].answer \in Outcomes => calls'[n].response = calls'[n].answer
              /\ calls'[n].response \in Outcomes =>
                   served'[n] = [kind |-> calls'[n].kind,
                                 payment |-> calls'[n].payment,
                                 outcome |-> calls'[n].response]
              /\ calls'[n].answer = "ambiguous" =>
                   /\ n = Len(calls') /\ shard'.quarantined
                   /\ shard'.ambiguous = Tx[calls'[n].payment]
    <3>1. CASE n = N + 1
      BY <1>2, <3>1, Names DEF N
    <3>2. CASE n \in 1 .. N
      <4>1. n # 0 /\ calls'[n] = calls[n] /\ n \in DOMAIN calls
        BY <1>1, <1>2, <3>2
      <4> QED
        BY <1>1, <1>4, <4>1 DEF DispatcherInv, CallsInv, Served
    <3> QED
      BY <1>1, <1>2, <2>1, <3>1, <3>2
  <2>2. pending' # 0 => /\ pending' = Len(calls') /\ ~ shard'.quarantined
                        /\ calls'[pending'].answer = "open"
    BY <1>1, <1>2 DEF N
  <2>3. ~ shard'.quarantined => shard'.ambiguous = None
    BY <1>1
  <2> QED
    BY <2>1, <2>2, <2>3 DEF CallsInv, Served
<1>10. FramesInv'
  <2>1. \A n \in DOMAIN calls : n \in DOMAIN calls' /\ calls'[n] = calls[n]
    BY <1>1, <1>2
  <2>2. FramesInv
    BY DEF DispatcherInv
  <2>3. /\ frame.sequence \in DOMAIN calls'
        /\ frame.kind = calls'[frame.sequence].kind
        /\ frame.payment = calls'[frame.sequence].payment
    BY <1>1, <1>2, <1>5
  <2>4. \A i \in DOMAIN toChild' : OfCall(toChild[i])'
    <3>1. ASSUME NEW i \in DOMAIN toChild' PROVE OfCall(toChild[i])'
      <4>1. CASE toChild'[i] = frame
        BY <2>3, <4>1 DEF OfCall
      <4>2. CASE i \in DOMAIN toChild /\ toChild'[i] = toChild[i]
        BY <2>1, <2>2, <4>2 DEF FramesInv, OfCall
      <4> QED
        BY <1>7, <3>1, <4>1, <4>2
    <3> QED
      BY <3>1
  <2>5. /\ child'.queued # NoFrame => OfCall(child.queued)'
        /\ child'.running # NoFrame => OfCall(child.running)'
    BY <1>4, <2>1, <2>2 DEF FramesInv, OfCall
  <2>6. \A i \in DOMAIN toParent :
          toParent[i].result \in Outcomes =>
            /\ toParent[i].sequence \in DOMAIN calls'
            /\ served[toParent[i].sequence] =
                 [kind |-> calls'[toParent[i].sequence].kind,
                  payment |-> calls'[toParent[i].sequence].payment,
                  outcome |-> toParent[i].result]
    BY <2>1, <2>2 DEF FramesInv, Served
  <2> QED
    BY <1>4, <2>4, <2>5, <2>6 DEF FramesInv, Served
<1>11. ChildInv'
  <2>1. child.expected \in Nat /\ Numbers \subseteq Nat
    BY CallsNow, Names DEF ChildSet, Numbers
  <2>2. /\ child.expected <= N + 1 + 1
        /\ child.phase \in {"RUNNING", "SENDING"} => child.expected <= N + 1
        /\ \A n \in Numbers : n > N + 1 => served[n] = NotServed
    BY <1>1, <2>1 DEF DispatcherInv, ChildInv, N
  <2> QED
    BY <1>2, <1>4, <2>2 DEF DispatcherInv, ChildInv
<1>12. DoubtInv'
  BY <1>4 DEF DispatcherInv, DoubtInv
<1>13. ASSUME NoGap' PROVE InStep'
  <2>1. NoGap /\ call.answer # "refused"
    BY <1>1, <1>2, <1>13 DEF NoGap
  <2>2. /\ child.phase # "RUNNING"
        /\ child.phase = "READY" => child.expected = N + 1
        /\ child.phase = "SENDING" => child.expected = N
        /\ child.queued = NoFrame
        /\ child.phase \notin {"TERMINAL", "DONE"} => toChild = <<>>
    BY <1>1, <2>1, ChildIsIdle DEF N
  <2>3. InStep
    BY <2>1 DEF DispatcherInv
  <2>4. child.unresolved = shard.unresolved
    BY <1>1, <2>3 DEF InStep, Agreed
  <2>5. OneBehind'
    <3>1. child.fault \notin {"sequence", "duplicate", "unresolved"}
      BY <2>3 DEF InStep, OneBehind
    <3>2. ASSUME toChild' # <<>>, child.phase \notin {"TERMINAL", "DONE"}
          PROVE  Len(toChild') = 1 /\ toChild'[1].sequence = N + 1
      <4>1. toChild = <<>> /\ Len(toChild) = 0
        BY <2>2, <3>2, EmptySeq
      <4>2. toChild' = Append(toChild, frame)
        BY <1>6, <3>2, <4>1
      <4>3. Len(toChild') = 1 /\ toChild'[1] = frame
        BY <1>5, <4>1, <4>2, CallsNow, AppendProperties
      <4> QED
        BY <1>5, <4>3
    <3>3. child.phase = "SENDING" => child.expected + 1 = N + 1
      BY <1>1, <2>2
    <3> QED
      BY <1>2, <1>4, <2>2, <3>1, <3>2, <3>3 DEF OneBehind
  <2>6. LastMayRun'
    BY <1>2, <1>4, <2>4 DEF LastMayRun, Admissible
  <2>7. ~ shard'.quarantined => Agreed'
    BY <1>1, <1>2, <1>3, <1>4, <2>1, <2>4 DEF Agreed, N
  <2> QED
    BY <2>5, <2>6, <2>7 DEF InStep
<1> QED
  BY <1>8, <1>9, <1>10, <1>11, <1>12, <1>13 DEF DispatcherInv

LEMMA CallStep ==
  ASSUME DispatcherInv, NEW kind \in Kinds, NEW p \in Payments, Call(kind, p)
  PROVE  DispatcherInv'
<1>1. /\ Admissible(kind, p) /\ UNCHANGED <<retiring, toParent, child, served, chain>>
      /\ pending = 0
  BY DEF Call, Admissible
<1>2. CASE /\ calls' = Append(calls, NewCall(kind, p))
           /\ pending' = Len(calls) + 1
           /\ toChild' = Append(toChild, Request(Len(calls) + 1, kind, p))
           /\ UNCHANGED shard
  <2> DEFINE call == NewCall(kind, p)
  <2>1. /\ call \in CallSet /\ call.kind = kind /\ call.payment = p
        /\ call.response = None /\ call.answer = "open"
    BY DEF NewCall, CallSet
  <2>2. shard' \in ShardSet /\ calls' = Append(calls, call)
    BY <1>2, CallsNow
  <2> HIDE DEF call
  <2> QED
    BY <1>1, <1>2, <2>1, <2>2, AdmitStep
<1>3. CASE /\ calls' = Append(calls, [NewCall(kind, p) EXCEPT !.answer = "ambiguous"])
           /\ shard' = [shard EXCEPT !.quarantined = TRUE, !.ambiguous = Tx[p]]
           /\ toChild' \in {toChild, Append(toChild, Request(Len(calls) + 1, kind, p))}
           /\ UNCHANGED pending
  <2> DEFINE call == [NewCall(kind, p) EXCEPT !.answer = "ambiguous"]
  <2>1. /\ call \in CallSet /\ call.kind = kind /\ call.payment = p
        /\ call.response = None /\ call.answer = "ambiguous"
    BY DEF NewCall, CallSet
  <2>2. /\ shard' \in ShardSet /\ shard'.unresolved = shard.unresolved
        /\ shard'.quarantined = TRUE /\ shard'.ambiguous = Tx[p]
    BY <1>3, CallsNow DEF ShardSet
  <2>3. calls' = Append(calls, call)
    BY <1>3
  <2> HIDE DEF call
  <2> QED
    BY <1>1, <1>3, <2>1, <2>2, <2>3, AdmitStep
<1> QED
  BY <1>2, <1>3 DEF Call

LEMMA FrameTooLargeStep ==
  ASSUME DispatcherInv, NEW kind \in Kinds, NEW p \in Payments, FrameTooLarge(kind, p)
  PROVE  DispatcherInv'
<1> DEFINE call == [NewCall(kind, p) EXCEPT !.callback = "none", !.answer = "refused"]
<1>1. /\ Admissible(kind, p) /\ pending = 0 /\ calls' = Append(calls, call)
      /\ UNCHANGED <<pending, shard, retiring, toChild, toParent, child, served, chain>>
  BY DEF FrameTooLarge, Admissible
<1>2. /\ call \in CallSet /\ call.kind = kind /\ call.payment = p
      /\ call.response = None /\ call.answer = "refused"
  BY DEF NewCall, CallSet
<1> HIDE DEF call
<1>3. shard' \in ShardSet
  BY <1>1, CallsNow
<1> QED
  BY <1>1, <1>2, <1>3, AdmitStep

-----------------------------------------------------------------------------
(* The child's steps. *)

\* What was served is never served again.
ServedGrows == \A n \in Numbers : served[n] # NotServed => served'[n] = served[n]

\* The frames that are left for the child were sent to it.
RequestsShrink ==
  /\ toChild' \in Seq(Requests)
  /\ \A i \in DOMAIN toChild' : \E j \in DOMAIN toChild : toChild'[i] = toChild[j]

\* The frames the child sends: a result is of a request it served.
Sends(sent) ==
  /\ sent \in Seq(FrameSet) /\ toParent' = toParent \o sent
  /\ \A i \in DOMAIN sent : sent[i].result \in Outcomes =>
       /\ sent[i].sequence \in DOMAIN calls
       /\ served'[sent[i].sequence] =
            [kind |-> calls[sent[i].sequence].kind,
             payment |-> calls[sent[i].sequence].payment, outcome |-> sent[i].result]

LEMMA SameRequests ==
  ASSUME DispatcherInv, toChild' = toChild
  PROVE  RequestsShrink
BY CallsNow DEF RequestsShrink

LEMMA TailRequests ==
  ASSUME DispatcherInv, toChild # <<>>, toChild' = Tail(toChild)
  PROVE  /\ RequestsShrink /\ Head(toChild) \in Requests /\ OfCall(Head(toChild))
         /\ Head(toChild) = toChild[1]
         /\ Len(toChild) = 1 => toChild' = <<>>
<1>1. /\ toChild \in Seq(Requests) /\ Len(toChild) \in Nat /\ Len(toChild) >= 1
      /\ DOMAIN toChild = 1 .. Len(toChild) /\ Head(toChild) = toChild[1]
  BY CallsNow, LenProperties, EmptySeq
<1>2. /\ toChild' \in Seq(Requests) /\ Len(toChild') = Len(toChild) - 1
      /\ \A i \in 1 .. Len(toChild') : toChild'[i] = toChild[i + 1]
      /\ DOMAIN toChild' = 1 .. Len(toChild')
  BY <1>1, HeadTailProperties, LenProperties
<1>3. Len(toChild) = 1 => toChild' = <<>>
  BY <1>1, <1>2, EmptySeq
<1>4. RequestsShrink
  BY <1>1, <1>2 DEF RequestsShrink
<1>5. 1 \in DOMAIN toChild /\ toChild[1] \in Requests
  BY <1>1, ElementOfSeq
<1> QED
  BY <1>1, <1>3, <1>4, <1>5 DEF DispatcherInv, FramesInv

LEMMA SendsNothing ==
  ASSUME DispatcherInv, toParent' = toParent \o << >>
  PROVE  Sends(<< >>) /\ toParent' = toParent
<1>1. << >> \in Seq(FrameSet) /\ DOMAIN << >> = {}
  BY EmptySeq
<1>2. toParent \o << >> = toParent
  BY CallsNow, ConcatEmptySeq
<1> QED
  BY <1>1, <1>2 DEF Sends

LEMMA SendsOne ==
  ASSUME DispatcherInv, NEW frame \in FrameSet, toParent' = toParent \o <<frame>>,
         frame.result \in Outcomes =>
           /\ frame.sequence \in DOMAIN calls
           /\ served'[frame.sequence] =
                [kind |-> calls[frame.sequence].kind,
                 payment |-> calls[frame.sequence].payment, outcome |-> frame.result]
  PROVE  Sends(<<frame>>)
<1>1. <<frame>> \in Seq(FrameSet) /\ DOMAIN <<frame>> = {1} /\ <<frame>>[1] = frame
  OBVIOUS
<1> QED
  BY <1>1 DEF Sends

\* The parent's part of the invariant is kept by all of them.
LEMMA ChildStep ==
  ASSUME DispatcherInv, UNCHANGED parent, child' \in ChildSet, served' \in ServedSet,
         ServedGrows, RequestsShrink, NEW sent, Sends(sent),
         child'.queued # NoFrame => OfCall(child'.queued),
         child'.running # NoFrame => OfCall(child'.running),
         published' \subseteq Payments, included' \subseteq Payments,
         ChildInv', DoubtInv',
         NoGap => OneBehind' /\ (~ shard.quarantined => Agreed') /\ LastMayRun'
  PROVE  DispatcherInv'
<1>1. /\ calls' = calls /\ pending' = pending /\ shard' = shard /\ retiring' = retiring
  BY DEF parent
<1>2. ASSUME NEW n \in DOMAIN calls, NEW outcome, Served(n, outcome)
      PROVE  served'[n] = served[n]
  <2>1. n \in Numbers /\ calls[n].kind \in Kinds
    BY CallsNow DEF CallSet
  <2> QED
    BY <1>2, <2>1, Names DEF Served, ServedGrows
<1>3. CallsInv'
  BY <1>1, <1>2 DEF DispatcherInv, CallsInv, Served
<1>4. /\ toParent \in Seq(FrameSet) /\ sent \in Seq(FrameSet)
      /\ Len(toParent) \in Nat /\ Len(sent) \in Nat
      /\ DOMAIN toParent = 1 .. Len(toParent) /\ DOMAIN sent = 1 .. Len(sent)
  BY CallsNow, LenProperties DEF Sends
<1>5. /\ toParent' \in Seq(FrameSet) /\ Len(toParent') = Len(toParent) + Len(sent)
      /\ \A i \in 1 .. Len(toParent') :
           toParent'[i] = IF i <= Len(toParent) THEN toParent[i]
                          ELSE sent[i - Len(toParent)]
      /\ DOMAIN toParent' = 1 .. Len(toParent')
  <2>1. toParent' = toParent \o sent
    BY DEF Sends
  <2>2. /\ toParent \o sent \in Seq(FrameSet)
        /\ Len(toParent \o sent) = Len(toParent) + Len(sent)
        /\ \A i \in 1 .. (Len(toParent) + Len(sent)) :
             (toParent \o sent)[i] = IF i <= Len(toParent) THEN toParent[i]
                                     ELSE sent[i - Len(toParent)]
    BY <1>4, ConcatProperties
  <2> QED
    BY <2>1, <2>2, LenProperties
<1>6. FramesInv'
  <2>1. FramesInv
    BY DEF DispatcherInv
  <2>2. \A i \in DOMAIN toChild' : OfCall(toChild'[i])
    BY <2>1 DEF FramesInv, RequestsShrink
  <2>3. ASSUME NEW i \in DOMAIN toParent', toParent'[i].result \in Outcomes
        PROVE  /\ toParent'[i].sequence \in DOMAIN calls
               /\ served'[toParent'[i].sequence] =
                    [kind |-> calls[toParent'[i].sequence].kind,
                     payment |-> calls[toParent'[i].sequence].payment,
                     outcome |-> toParent'[i].result]
    <3>1. CASE i <= Len(toParent)
      <4>1. i \in DOMAIN toParent /\ toParent'[i] = toParent[i]
        BY <1>4, <1>5, <2>3, <3>1
      <4>2. /\ toParent[i].sequence \in DOMAIN calls
            /\ Served(toParent[i].sequence, toParent[i].result)
        BY <2>1, <2>3, <4>1 DEF FramesInv
      <4>3. served'[toParent[i].sequence] = served[toParent[i].sequence]
        BY <1>2, <4>2
      <4> QED
        BY <4>1, <4>2, <4>3 DEF Served
    <3>2. CASE ~ (i <= Len(toParent))
      <4>1. /\ i - Len(toParent) \in DOMAIN sent
            /\ toParent'[i] = sent[i - Len(toParent)]
        BY <1>4, <1>5, <2>3, <3>2
      <4> QED
        BY <2>3, <4>1 DEF Sends
    <3> QED
      BY <3>1, <3>2
  <2> QED
    BY <1>1, <2>2, <2>3 DEF FramesInv, OfCall, Served
<1>7. TypeOK'
  <2>1. Typed(calls', pending', shard', toChild', toParent', child', served')
    BY <1>1, <1>5, CallsNow DEF Typed, RequestsShrink
  <2> QED
    BY <1>1, <2>1, TypedNext, CallsNow
<1>8. NoGap' => InStep'
  BY <1>1 DEF NoGap, InStep
<1> QED
  BY <1>3, <1>6, <1>7, <1>8 DEF DispatcherInv

\* Before the facilitator is called.
LEMMA ChildNow ==
  ASSUME DispatcherInv
  PROVE  /\ child.expected \in Nat /\ child.expected >= 1
         /\ child.expected <= Len(calls) + 1 /\ Len(calls) \in Nat
         /\ Numbers \subseteq Nat
         /\ child.phase \in {"READY", "RUNNING", "SENDING", "TERMINAL", "DONE"}
         /\ child.phase # "RUNNING" => child.running = NoFrame
         /\ child.phase # "RUNNING" => child.observation = None
         /\ child.phase # "SENDING" => child.queued = NoFrame
         /\ child.fault \in Faults
BY CallsNow, Names DEF ChildSet, DispatcherInv, ChildInv, Numbers

\* The child's last step, or the one before it.
LEMMA EndStep ==
  ASSUME DispatcherInv, UNCHANGED <<parent, served, chain>>, child' \in ChildSet,
         child'.phase \in {"TERMINAL", "DONE"},
         child'.queued = NoFrame, child'.running = NoFrame, child'.observation = None,
         child'.unresolved = child.unresolved,
         child'.expected = child.expected
           \/ (child.phase = "SENDING" /\ child'.expected = child.expected + 1),
         child'.phase = "TERMINAL" => child'.fault # None,
         NoGap => child'.fault \notin {"sequence", "duplicate", "unresolved"},
         RequestsShrink, NEW sent, Sends(sent)
  PROVE  DispatcherInv'
<1>1. /\ calls' = calls /\ pending' = pending /\ shard' = shard /\ served' = served
      /\ published' = published /\ included' = included
  BY DEF parent, chain
<1>2. ServedGrows
  BY <1>1 DEF ServedGrows
<1>3. child'.expected \in Nat
  BY CallsNow, Names DEF ChildSet
<1>4. /\ child'.expected <= Len(calls) + 1 /\ child'.expected >= child.expected
      /\ child.expected \in Nat
  BY ChildNow DEF DispatcherInv, ChildInv
<1>5. ChildInv'
  <2>1. \A n \in Numbers : n > child'.expected => served[n] = NotServed
    BY <1>3, <1>4, ChildNow DEF DispatcherInv, ChildInv
  <2> QED
    BY <1>1, <1>4, <2>1 DEF DispatcherInv, ChildInv
<1>6. DoubtInv'
  BY <1>1 DEF DispatcherInv, DoubtInv
<1>7. ASSUME NoGap PROVE OneBehind' /\ (~ shard.quarantined => Agreed') /\ LastMayRun'
  <2>1. OneBehind'
    BY <1>7 DEF OneBehind
  <2>2. InStep
    BY <1>7 DEF DispatcherInv
  <2>3. ~ shard.quarantined => Agreed'
    BY <1>1, <2>2 DEF InStep, Agreed
  <2>4. LastMayRun'
    BY <1>1, <2>2 DEF InStep, LastMayRun
  <2> QED
    BY <2>1, <2>3, <2>4
<1> QED
  BY <1>1, <1>2, <1>5, <1>6, <1>7, ChildStep, CallsNow

LEMMA FinishedStep ==
  ASSUME DispatcherInv, UNCHANGED <<parent, served, chain>>, NEW fault \in Faults,
         child' = Finished(child, fault), RequestsShrink, toParent' = toParent,
         NoGap => \/ child.fault # None
                  \/ fault \notin {"sequence", "duplicate", "unresolved"}
  PROVE  DispatcherInv'
<1>1. /\ child' \in ChildSet /\ child'.phase = "DONE"
      /\ child'.queued = NoFrame /\ child'.running = NoFrame
      /\ child'.observation = None /\ child'.unresolved = child.unresolved
      /\ child'.expected = child.expected
      /\ child'.fault = IF child.fault = None THEN fault ELSE child.fault
  BY CallsNow DEF Finished, ChildSet
<1>2. NoGap => child.fault \notin {"sequence", "duplicate", "unresolved"}
  BY DEF DispatcherInv, InStep, OneBehind
<1>3. NoGap => child'.fault \notin {"sequence", "duplicate", "unresolved"}
  BY <1>1, <1>2
<1>4. toParent' = toParent \o << >>
  BY CallsNow, ConcatEmptySeq
<1>5. Sends(<< >>)
  BY <1>4, SendsNothing
<1> QED
  BY <1>1, <1>3, <1>5, EndStep

LEMMA TerminalStep ==
  ASSUME DispatcherInv, UNCHANGED <<parent, served, chain>>, RequestsShrink,
         NEW c, c \in ChildSet, NEW n \in 0 .. MaxOperations, NEW fault \in Faults \ {None},
         Does(Terminal(c, n, fault)), c.queued = NoFrame,
         c.unresolved = child.unresolved,
         c.expected = child.expected
           \/ (child.phase = "SENDING" /\ c.expected = child.expected + 1),
         NoGap => fault \notin {"sequence", "duplicate", "unresolved"}
  PROVE  DispatcherInv'
<1>1. /\ child' = [c EXCEPT !.phase = "TERMINAL", !.running = NoFrame,
                            !.observation = None, !.fault = fault]
      /\ toParent' = toParent \o <<Frame("RESULT", n, "failed")>>
  BY DEF Does, Terminal
<1>2. /\ child' \in ChildSet /\ child'.phase = "TERMINAL"
      /\ child'.queued = NoFrame /\ child'.running = NoFrame
      /\ child'.observation = None /\ child'.unresolved = c.unresolved
      /\ child'.expected = c.expected /\ child'.fault = fault
  BY <1>1 DEF ChildSet
<1>3. /\ Frame("RESULT", n, "failed") \in FrameSet
      /\ Frame("RESULT", n, "failed").result = "failed"
  BY DEF Frame, FrameSet
<1>4. Sends(<<Frame("RESULT", n, "failed")>>)
  BY <1>1, <1>3, Names, SendsOne
<1> QED
  BY <1>2, <1>4, EndStep

\* A frame is taken up: it is refused, or handed to the facilitator.
LEMMA ProcessedStep ==
  ASSUME DispatcherInv, UNCHANGED <<parent, served, chain>>, RequestsShrink,
         NEW c, c \in ChildSet, c.phase = "READY", c.queued = NoFrame,
         c.running = NoFrame, c.observation = None, c.unresolved = child.unresolved,
         c.fault \in {None, "unresolved"}, c.fault = child.fault,
         (child.phase = "READY" /\ c.expected = child.expected)
           \/ (child.phase = "SENDING" /\ c.expected = child.expected + 1),
         NEW request, request \in Requests, OfCall(request), Does(Processed(c, request)),
         NoGap => /\ toChild' = << >> /\ c.expected = Len(calls)
                  /\ request.sequence = Len(calls)
  PROVE  DispatcherInv'
<1> DEFINE p == request.payment
           n == request.sequence
<1>1. /\ calls' = calls /\ pending' = pending /\ shard' = shard /\ served' = served
      /\ published' = published /\ included' = included
  BY DEF parent, chain
<1>2. /\ n \in Numbers /\ n \in 0 .. MaxOperations /\ n \in DOMAIN calls
      /\ n \in 1 .. Len(calls) /\ p \in Payments
      /\ request.kind = calls[n].kind /\ p = calls[n].payment
  BY CallsNow, Names DEF Requests, Numbers, OfCall
<1>3. /\ c.expected \in Nat /\ child.expected \in Nat
      /\ \A m \in Numbers : m >= c.expected => served[m] = NotServed
      /\ c.expected <= Len(calls) + 1 /\ Len(calls) \in Nat
  BY ChildNow DEF DispatcherInv, ChildInv
<1>4. published \ included \subseteq {c.unresolved} \ {None}
  BY Names, ChildNow DEF DispatcherInv, DoubtInv
<1>5. ServedGrows
  BY <1>1 DEF ServedGrows
<1>6. ASSUME NEW m \in 0 .. MaxOperations, NEW fault \in {"sequence", "identity"},
             Does(Terminal(c, m, fault)), fault = "sequence" => n # c.expected
      PROVE  DispatcherInv'
  <2>1. fault \in Faults \ {None}
    BY <1>6, Names DEF Faults, None
  <2>2. NoGap => fault \notin {"sequence", "duplicate", "unresolved"}
    BY <1>6
  <2> QED
    BY <1>6, <2>1, <2>2, TerminalStep
<1>7. ASSUME NoGap PROVE InStep /\ (n = Len(calls) => served[n] = NotServed)
  BY <1>2, <1>3, <1>7 DEF DispatcherInv
<1>8. CASE /\ n = c.expected /\ request.kind = "SETTLE" /\ ~ MayDiffer(c.unresolved, p)
           /\ Does(Continuation([c EXCEPT !.fault = "unresolved"], n, "failed"))
  <2>1. /\ child' = [[c EXCEPT !.fault = "unresolved"] EXCEPT
                       !.phase = "SENDING", !.running = NoFrame, !.observation = None]
        /\ toParent' = toParent \o <<Frame("RESULT", n, "failed")>>
    BY <1>8 DEF Does, Continuation
  <2>2. /\ child' \in ChildSet /\ child'.phase = "SENDING"
        /\ child'.queued = NoFrame /\ child'.running = NoFrame
        /\ child'.observation = None /\ child'.unresolved = c.unresolved
        /\ child'.expected = c.expected /\ child'.fault = "unresolved"
    BY <2>1 DEF ChildSet, Faults
  <2>3. /\ Frame("RESULT", n, "failed") \in FrameSet
        /\ Frame("RESULT", n, "failed").result = "failed"
    BY <1>2 DEF Frame, FrameSet
  <2>4. Sends(<<Frame("RESULT", n, "failed")>>)
    BY <2>1, <2>3, Names, SendsOne
  <2>5. ChildInv'
    <3>1. \A m \in Numbers : m > c.expected => served[m] = NotServed
      BY <1>3, ChildNow
    <3> QED
      BY <1>1, <1>2, <1>8, <2>2, <3>1 DEF DispatcherInv, ChildInv
  <2>6. DoubtInv'
    BY <1>1, <1>4, <2>2 DEF DispatcherInv, DoubtInv
  <2>7. ASSUME NoGap PROVE FALSE
    BY <1>2, <1>7, <1>8, <2>7 DEF InStep, LastMayRun
  <2> QED
    BY <1>1, <1>5, <2>2, <2>4, <2>5, <2>6, <2>7, ChildStep, CallsNow
<1>9. CASE /\ n = c.expected
           /\ request.kind = "SETTLE" => MayDiffer(c.unresolved, p)
           /\ Does(Running(c, request))
  <2>1. /\ child' = [c EXCEPT !.phase = "RUNNING", !.running = request]
        /\ toParent' = toParent \o << >>
    BY <1>9 DEF Does, Running
  <2>2. /\ child' \in ChildSet /\ child'.phase = "RUNNING"
        /\ child'.queued = NoFrame /\ child'.running = request
        /\ child'.observation = None /\ child'.unresolved = c.unresolved
        /\ child'.expected = c.expected /\ child'.fault = c.fault
    BY <2>1 DEF ChildSet
  <2>3. Sends(<< >>)
    BY <2>1, SendsNothing
  <2>4. ChildInv'
    <3>1. \A m \in Numbers : m > c.expected \/ m = c.expected => served[m] = NotServed
      BY <1>3, ChildNow
    <3>2. request # NoFrame
      BY Names
    <3>3. c.expected <= Len(calls) /\ child'.running.sequence = c.expected
      BY <1>2, <1>9, <2>2
    <3>4. child'.running # NoFrame
      BY <2>2, <3>2
    <3>5. \A m \in Numbers : m > Len(calls) => served[m] = NotServed
      BY DEF DispatcherInv, ChildInv
    <3> QED
      BY <1>1, <1>3, <2>2, <3>1, <3>3, <3>4, <3>5 DEF ChildInv
  <2>5. DoubtInv'
    <3>1. child'.running.payment = p /\ child'.running.kind = request.kind
      BY <2>2
    <3> QED
      BY <1>1, <1>4, <1>9, <2>2, <3>1 DEF DispatcherInv, DoubtInv
  <2>6. ASSUME NoGap PROVE OneBehind' /\ (~ shard.quarantined => Agreed') /\ LastMayRun'
    <3>1. InStep
      BY <1>7, <2>6
    <3>2. OneBehind'
      BY <1>1, <2>2, <2>6, <3>1 DEF InStep, OneBehind
    <3>3. ~ shard.quarantined => Agreed'
      BY <1>1, <2>2, <3>1 DEF InStep, Agreed
    <3>4. LastMayRun'
      BY <1>1, <2>2, <3>1 DEF InStep, LastMayRun
    <3> QED
      BY <3>2, <3>3, <3>4
  <2>7. OfCall(child'.running)
    BY <2>2
  <2> QED
    BY <1>1, <1>5, <2>2, <2>3, <2>4, <2>5, <2>6, <2>7, ChildStep, CallsNow
<1>10. \/ n # c.expected /\ Does(Terminal(c, 0, "sequence"))
       \/ Does(Terminal(c, n, "identity"))
       \/ /\ n = c.expected /\ request.kind = "SETTLE" /\ ~ MayDiffer(c.unresolved, p)
          /\ Does(Continuation([c EXCEPT !.fault = "unresolved"], n, "failed"))
       \/ /\ n = c.expected
          /\ request.kind = "SETTLE" => MayDiffer(c.unresolved, p)
          /\ Does(Running(c, request))
  BY DEF Processed
<1>11. 0 \in 0 .. MaxOperations
  BY Names
<1> QED
  BY <1>2, <1>6, <1>8, <1>9, <1>10, <1>11

LEMMA ChildReceiveStep ==
  ASSUME DispatcherInv, ChildReceive
  PROVE  DispatcherInv'
<1> DEFINE request == Head(toChild)
<1>1. /\ toChild # <<>> /\ toChild' = Tail(toChild) /\ child.phase # "DONE"
      /\ Does(Taken(child, request)) /\ UNCHANGED <<parent, served, chain>>
  BY DEF ChildReceive
<1>2. /\ RequestsShrink /\ request \in Requests /\ OfCall(request)
      /\ request = toChild[1]
      /\ Len(toChild) = 1 => toChild' = <<>>
  BY <1>1, TailRequests
<1>3. /\ calls' = calls /\ pending' = pending /\ shard' = shard /\ served' = served
      /\ published' = published /\ included' = included
  BY <1>1 DEF parent, chain
<1> HIDE DEF request
<1>4. ASSUME NoGap, child.phase \notin {"TERMINAL", "DONE"}
      PROVE  /\ toChild' = <<>> /\ request.sequence = Len(calls)
             /\ child.phase = "READY" => child.expected = Len(calls)
             /\ child.phase = "SENDING" =>
                  child.expected + 1 = Len(calls) /\ child.queued = NoFrame
             /\ child.phase # "RUNNING"
             /\ child.fault \notin {"sequence", "duplicate", "unresolved"}
  BY <1>1, <1>2, <1>4 DEF DispatcherInv, InStep, OneBehind
<1>5. CASE child.phase = "READY"
  <2>1. /\ child.running = NoFrame /\ child.queued = NoFrame
        /\ child.observation = None /\ child.fault \in {None, "unresolved"}
    BY <1>5, ChildNow DEF DispatcherInv, ChildInv
  <2>2. Does(Processed(child, request))
    BY <1>1, <1>5 DEF Taken
  <2> QED
    BY <1>1, <1>2, <1>4, <1>5, <2>1, <2>2, ProcessedStep, CallsNow
<1>6. CASE child.phase = "SENDING" /\ child.queued = NoFrame
  <2>1. /\ child' = [child EXCEPT !.queued = request]
        /\ toParent' = toParent \o << >>
    BY <1>1, <1>6 DEF Taken, Does
  <2>2. Sends(<< >>)
    BY <2>1, SendsNothing
  <2>3. /\ child' \in ChildSet /\ child'.phase = "SENDING" /\ child'.queued = request
        /\ child'.running = child.running /\ child'.observation = child.observation
        /\ child'.unresolved = child.unresolved /\ child'.expected = child.expected
        /\ child'.fault = child.fault
    BY <1>2, <1>6, <2>1, CallsNow DEF ChildSet
  <2>4. ServedGrows
    BY <1>3 DEF ServedGrows
  <2>5. ChildInv'
    BY <1>3, <1>6, <2>3 DEF DispatcherInv, ChildInv
  <2>6. DoubtInv'
    BY <1>3, <1>6, <2>3 DEF DispatcherInv, DoubtInv
  <2>7. ASSUME NoGap PROVE OneBehind' /\ (~ shard.quarantined => Agreed') /\ LastMayRun'
    <3>1. InStep
      BY <2>7 DEF DispatcherInv
    <3>2. OneBehind'
      BY <1>3, <1>4, <1>6, <2>3, <2>7 DEF OneBehind
    <3>3. ~ shard.quarantined => Agreed'
      BY <1>3, <2>3, <3>1 DEF InStep, Agreed
    <3>4. LastMayRun'
      BY <1>3, <2>3, <3>1 DEF InStep, LastMayRun
    <3> QED
      BY <3>2, <3>3, <3>4
  <2>8. OfCall(child'.queued) /\ child'.running = NoFrame
    BY <1>2, <1>6, <2>3, ChildNow
  <2> QED
    BY <1>1, <1>2, <1>3, <2>2, <2>3, <2>4, <2>5, <2>6, <2>7, <2>8, ChildStep, CallsNow
<1>7. CASE child.phase # "READY" /\ ~ (child.phase = "SENDING" /\ child.queued = NoFrame)
  <2>1. child' = Finished(child, "duplicate") /\ toParent' = toParent \o << >>
    BY <1>1, <1>7 DEF Taken, Does
  <2>2. toParent' = toParent
    BY <2>1, SendsNothing
  <2>3. NoGap => child.fault # None
    BY <1>1, <1>4, <1>7, ChildNow DEF DispatcherInv, ChildInv
  <2>4. "duplicate" \in Faults
    BY DEF Faults
  <2> QED
    BY <1>1, <1>2, <2>1, <2>2, <2>3, <2>4, FinishedStep
<1> QED
  BY <1>5, <1>6, <1>7

\* The child runs a settlement, and says so before it publishes.
LEMMA ObservingStep ==
  ASSUME DispatcherInv, UNCHANGED <<parent, toChild, served, included>>,
         child.phase = "RUNNING", child.running.kind = "SETTLE",
         child' = child \/ (\E o \in {"sending", "sent"} :
                              child' = [child EXCEPT !.observation = o]),
         NEW sent, Sends(sent),
         published' = published
           \/ (child' = child /\ child.observation # None
                /\ published' = published \cup {child.running.payment})
  PROVE  DispatcherInv'
<1>1. /\ calls' = calls /\ pending' = pending /\ shard' = shard /\ served' = served
      /\ toChild' = toChild /\ included' = included
  BY DEF parent
<1>2. /\ child' \in ChildSet /\ child'.phase = "RUNNING"
      /\ child'.queued = child.queued /\ child'.running = child.running
      /\ child'.unresolved = child.unresolved /\ child'.expected = child.expected
      /\ child'.fault = child.fault
      /\ child' = child \/ child'.observation \in {"sending", "sent"}
  BY CallsNow DEF ChildSet
<1>3. child.running \in Requests /\ child.running.payment \in Payments
  <2>1. child.running \in Requests \cup {NoFrame} /\ child.running # NoFrame
    BY CallsNow DEF ChildSet, DispatcherInv, ChildInv
  <2> QED
    BY <2>1 DEF Requests
<1>4. ServedGrows /\ RequestsShrink
  BY <1>1, SameRequests DEF ServedGrows
<1>5. child.queued = NoFrame
  BY ChildNow
<1>6. ChildInv'
  BY <1>1, <1>2, <1>5 DEF DispatcherInv, ChildInv
<1>7. DoubtInv'
  <2>1. /\ MayDiffer(child.unresolved, child.running.payment)
        /\ published \ included \subseteq
             IF child.observation # None THEN {child.running.payment}
             ELSE {child.unresolved} \ {None}
    BY DEF DispatcherInv, DoubtInv
  <2>2. published \ included \subseteq {child.running.payment}
    BY <1>3, <2>1, Names DEF MayDiffer
  <2>3. published' \ included' \subseteq {child.running.payment}
    BY <1>1, <2>2
  <2>4. CASE child'.observation # None
    BY <1>2, <1>3, <2>1, <2>3, <2>4 DEF DoubtInv
  <2>5. CASE child'.observation = None
    <3>1. child' = child /\ published' = published
      BY <1>2, <2>5, Names DEF None
    <3> QED
      BY <1>1, <3>1 DEF DispatcherInv, DoubtInv
  <2> QED
    BY <2>4, <2>5
<1>8. ASSUME NoGap PROVE OneBehind' /\ (~ shard.quarantined => Agreed') /\ LastMayRun'
  <2>1. InStep
    BY <1>8 DEF DispatcherInv
  <2>2. OneBehind'
    BY <1>1, <1>2, <2>1 DEF InStep, OneBehind
  <2>3. ~ shard.quarantined => Agreed'
    BY <1>1, <1>2, <2>1 DEF InStep, Agreed
  <2>4. LastMayRun'
    BY <1>1, <1>2, <2>1 DEF InStep, LastMayRun
  <2> QED
    BY <2>2, <2>3, <2>4
<1>9. OfCall(child'.running)
  BY <1>2, <1>3, Names DEF DispatcherInv, FramesInv
<1>10. published' \subseteq Payments /\ included' \subseteq Payments
  BY <1>1, <1>3, CallsNow
<1> QED
  BY <1>1, <1>2, <1>4, <1>5, <1>6, <1>7, <1>8, <1>9, <1>10, ChildStep, CallsNow

LEMMA ObserveStep ==
  ASSUME DispatcherInv, Observe
  PROVE  DispatcherInv'
<1> DEFINE frame == Frame("OBSERVED", child.running.sequence, None)
<1>1. /\ child.phase = "RUNNING" /\ child.running.kind = "SETTLE"
      /\ child' = [child EXCEPT !.observation = "sending"]
      /\ toParent' = Append(toParent, frame)
      /\ UNCHANGED <<parent, toChild, served, published, included>>
  BY DEF Observe, chain
<1>2. child.running \in Requests
  BY <1>1, CallsNow DEF ChildSet, DispatcherInv, ChildInv
<1>3. frame \in FrameSet /\ frame.result = None
  <2>1. child.running.sequence \in 0 .. MaxOperations
    BY <1>2, Names DEF Requests, Numbers
  <2> QED
    BY <2>1 DEF Frame, FrameSet
<1> HIDE DEF frame
<1>4. PICK f \in FrameSet : f = frame
  BY <1>3
<1>5. Append(toParent, f) = toParent \o <<f>>
  BY CallsNow, AppendIsConcat
<1>6. Sends(<<frame>>)
  BY <1>1, <1>3, <1>4, <1>5, Names, SendsOne
<1> QED
  BY <1>1, <1>6, ObservingStep

LEMMA ObservationSentStep ==
  ASSUME DispatcherInv, ObservationSent
  PROVE  DispatcherInv'
<1>1. /\ child.observation = "sending"
      /\ child' \in {[child EXCEPT !.observation = "sent"], Finished(child, "send")}
      /\ UNCHANGED <<parent, toChild, toParent, served, published, included>>
  BY DEF ObservationSent, chain
<1>2. child.phase = "RUNNING" /\ child.running.kind = "SETTLE"
  BY <1>1 DEF DispatcherInv, ChildInv, None
<1>3. toParent' = toParent \o << >>
  BY <1>1, CallsNow, ConcatEmptySeq
<1>4. CASE child' = [child EXCEPT !.observation = "sent"]
  BY <1>1, <1>2, <1>3, <1>4, SendsNothing, ObservingStep
<1>5. CASE child' = Finished(child, "send")
  <2>1. "send" \in Faults \ {"sequence", "duplicate", "unresolved"}
    BY DEF Faults
  <2> QED
    BY <1>1, <1>5, <2>1, SameRequests, FinishedStep DEF chain
<1> QED
  BY <1>1, <1>4, <1>5

LEMMA PublishStep ==
  ASSUME DispatcherInv, Publish
  PROVE  DispatcherInv'
<1>1. /\ child.observation = "sent" /\ published' = published \cup {child.running.payment}
      /\ UNCHANGED <<parent, toChild, toParent, child, served, included>>
  BY DEF Publish
<1>2. /\ child.phase = "RUNNING" /\ child.running.kind = "SETTLE"
      /\ child.observation # None
  BY <1>1 DEF DispatcherInv, ChildInv, None
<1>3. toParent' = toParent \o << >>
  BY <1>1, CallsNow, ConcatEmptySeq
<1> QED
  BY <1>1, <1>2, <1>3, SendsNothing, ObservingStep

LEMMA ThrowsStep ==
  ASSUME DispatcherInv, Throws
  PROVE  DispatcherInv'
<1>1. /\ child.phase = "RUNNING" /\ Does(Terminal(child, child.running.sequence, "dependency"))
      /\ UNCHANGED <<parent, toChild, served, chain>>
  BY DEF Throws
<1>2. child.running \in Requests /\ child.queued = NoFrame
  BY <1>1, CallsNow, ChildNow DEF ChildSet, DispatcherInv, ChildInv
<1>3. child.running.sequence \in 0 .. MaxOperations
  BY <1>2, Names DEF Requests, Numbers
<1>4. "dependency" \in Faults \ {None}
  BY Names DEF Faults, None
<1> QED
  BY <1>1, <1>2, <1>3, <1>4, SameRequests, TerminalStep, CallsNow

LEMMA ChildLostStep ==
  ASSUME DispatcherInv, ChildLost
  PROVE  DispatcherInv'
<1>1. "lost" \in Faults \ {"sequence", "duplicate", "unresolved"}
  BY DEF Faults
<1> QED
  BY <1>1, SameRequests, FinishedStep DEF ChildLost

LEMMA ReplySentStep ==
  ASSUME DispatcherInv, ReplySent
  PROVE  DispatcherInv'
<1>1. /\ child.phase \in {"SENDING", "TERMINAL"} /\ toChild' = toChild
      /\ UNCHANGED <<parent, served, chain>>
  BY DEF ReplySent
<1>2. RequestsShrink
  BY <1>1, SameRequests
<1>3. /\ calls' = calls /\ pending' = pending /\ shard' = shard /\ served' = served
      /\ published' = published /\ included' = included
  BY <1>1 DEF parent, chain
<1>4. CASE child.phase = "TERMINAL"
  <2>1. child' = Finished(child, None) /\ toParent' = toParent \o << >>
    BY <1>4 DEF ReplySent, Does
  <2>2. None \in Faults /\ child.fault # None
    BY <1>4 DEF Faults, DispatcherInv, ChildInv
  <2> QED
    BY <1>1, <1>2, <2>1, <2>2, SendsNothing, FinishedStep
<1>5. CASE child.phase = "SENDING"
  <2> DEFINE c == [child EXCEPT !.phase = "READY", !.expected = @ + 1, !.queued = NoFrame]
  <2>1. /\ child.running = NoFrame /\ child.observation = None
        /\ child.expected <= Len(calls) /\ child.fault \in {None, "unresolved"}
    BY <1>5, ChildNow DEF DispatcherInv, ChildInv
  <2>2. child.expected + 1 \in 1 .. (MaxOperations + 1)
    BY <2>1, CallsNow, Names, ChildNow
  <2>3. /\ c \in ChildSet /\ c.phase = "READY" /\ c.queued = NoFrame
        /\ c.running = NoFrame /\ c.observation = None
        /\ c.unresolved = child.unresolved /\ c.fault = child.fault
        /\ c.expected = child.expected + 1
    BY <2>1, <2>2, CallsNow DEF ChildSet
  <2>4. IF child.queued = NoFrame THEN Does([state |-> c, sent |-> <<>>])
        ELSE Does(Processed(c, child.queued))
    BY <1>5 DEF ReplySent
  <2> HIDE DEF c
  <2>5. CASE child.queued = NoFrame
    <3>1. child' = c /\ toParent' = toParent \o << >>
      BY <2>4, <2>5 DEF Does
    <3>2. Sends(<< >>)
      BY <3>1, SendsNothing
    <3>3. ServedGrows
      BY <1>3 DEF ServedGrows
    <3>4. ChildInv'
      <4>1. \A n \in Numbers :
              n > c.expected \/ n = c.expected => served[n] = NotServed
        BY <2>3, ChildNow DEF DispatcherInv, ChildInv
      <4>2. c.expected <= Len(calls) + 1
        BY <2>1, <2>3, ChildNow
      <4> QED
        BY <1>3, <2>1, <2>3, <3>1, <4>1, <4>2 DEF DispatcherInv, ChildInv
    <3>5. DoubtInv'
      BY <1>3, <1>5, <2>1, <2>3, <3>1 DEF DispatcherInv, DoubtInv
    <3>6. ASSUME NoGap
          PROVE OneBehind' /\ (~ shard.quarantined => Agreed') /\ LastMayRun'
      <4>1. InStep
        BY <3>6 DEF DispatcherInv
      <4>2. OneBehind'
        BY <1>1, <1>3, <1>5, <2>3, <3>1, <4>1 DEF InStep, OneBehind
      <4>3. ~ shard.quarantined => Agreed'
        BY <1>3, <2>3, <3>1, <4>1 DEF InStep, Agreed
      <4>4. LastMayRun'
        BY <1>3, <2>3, <3>1, <4>1 DEF InStep, LastMayRun
      <4> QED
        BY <4>2, <4>3, <4>4
    <3> QED
      BY <1>1, <1>2, <1>3, <2>3, <3>1, <3>2, <3>3, <3>4, <3>5, <3>6, ChildStep, CallsNow
  <2>6. CASE child.queued # NoFrame
    <3>1. child.queued \in Requests /\ OfCall(child.queued)
      BY <2>6, CallsNow DEF ChildSet, DispatcherInv, FramesInv
    <3>2. NoGap => /\ toChild' = << >> /\ c.expected = Len(calls)
                   /\ child.queued.sequence = Len(calls)
      BY <1>1, <1>5, <2>3, <2>6 DEF DispatcherInv, InStep, OneBehind
    <3> QED
      BY <1>1, <1>2, <1>5, <2>1, <2>3, <2>4, <2>6, <3>1, <3>2, ProcessedStep
  <2> QED
    BY <2>5, <2>6
<1> QED
  BY <1>1, <1>4, <1>5

\* The facilitator answers the last request that is not served.
LEMMA AnswersStep ==
  ASSUME DispatcherInv, NEW outcome \in Outcomes, Answers(outcome)
  PROVE  DispatcherInv'
<1> DEFINE request == child.running
           n == request.sequence
           p == request.payment
           c == After(child, request, outcome)
           row == [kind |-> request.kind, payment |-> p, outcome |-> outcome]
           frame == Frame("RESULT", n, outcome)
<1>1. /\ child.phase = "RUNNING" /\ child.observation # "sending"
      /\ MayAnswer(request, outcome)
      /\ served' = [served EXCEPT ![n] = row]
      /\ included' = IF outcome = "success" THEN included \cup {p} ELSE included
      /\ child' = [c EXCEPT !.phase = "SENDING", !.running = NoFrame, !.observation = None]
      /\ toParent' = toParent \o <<frame>>
      /\ UNCHANGED <<parent, toChild, published>>
  BY DEF Answers, Does, Continuation
<1>2. /\ request \in Requests /\ OfCall(request) /\ n = child.expected
      /\ n \in Numbers /\ n \in DOMAIN calls /\ n \in 0 .. MaxOperations
      /\ p \in Payments /\ request.kind \in Kinds
      /\ request.kind = calls[n].kind /\ p = calls[n].payment
      /\ child.queued = NoFrame /\ child.fault \in {None, "unresolved"}
  <2>1. request \in Requests /\ request # NoFrame
    BY <1>1, CallsNow, Names DEF ChildSet, DispatcherInv, ChildInv
  <2>2. OfCall(request) /\ n = child.expected /\ child.fault \in {None, "unresolved"}
    BY <1>1, <2>1 DEF DispatcherInv, FramesInv, ChildInv
  <2> QED
    BY <1>1, <2>1, <2>2, ChildNow, Names DEF Requests, OfCall, Numbers
<1>3. /\ calls' = calls /\ pending' = pending /\ shard' = shard
      /\ toChild' = toChild /\ published' = published
  BY <1>1 DEF parent
<1>4. /\ served[n] = NotServed
      /\ \A m \in Numbers : m > n => served[m] = NotServed
      /\ \A m \in Numbers : m > Len(calls) => served[m] = NotServed
  BY <1>1, <1>2 DEF DispatcherInv, ChildInv
<1>5. /\ request.kind # "SETTLE" => outcome = "done" /\ child.observation = None
      /\ request.kind = "SETTLE" =>
           /\ outcome \in {"success", "recovery", "invalid"}
           /\ outcome = "invalid" => child.observation = None
           /\ MayDiffer(child.unresolved, p)
  BY <1>1 DEF MayAnswer, SettleOutcomes, DispatcherInv, ChildInv, DoubtInv
<1>6. /\ c \in ChildSet /\ c.expected = child.expected /\ c.queued = child.queued
      /\ c.fault = child.fault
      /\ c.unresolved = IF request.kind # "SETTLE" THEN child.unresolved
                        ELSE UnresolvedAfter(child.unresolved, p, outcome)
  <2>1. CASE request.kind # "SETTLE"
    BY <2>1, CallsNow DEF After
  <2>2. CASE request.kind = "SETTLE"
    <3> DEFINE bs == IF outcome = "invalid" THEN child.bindings
                     ELSE (child.bindings \ BindingOf(child, p))
                            \cup {BindingAfter(child, p, outcome)}
               u == UnresolvedAfter(child.unresolved, p, outcome)
    <3>1. child.bindings \in SUBSET [payment : Payments, eligible : BOOLEAN]
      BY CallsNow DEF ChildSet
    <3>2. BindingAfter(child, p, outcome) \in [payment : Payments, eligible : BOOLEAN]
      <4>1. (outcome = "success" \/ (\E b \in BindingOf(child, p) : b.eligible)) \in BOOLEAN
        OBVIOUS
      <4> QED
        BY <1>2, <4>1 DEF BindingAfter
    <3>3. bs \in SUBSET [payment : Payments, eligible : BOOLEAN]
      BY <3>1, <3>2
    <3>4. u \in Marks
      BY <1>2, CallsNow DEF UnresolvedAfter, ChildSet, Marks
    <3>5. c = [child EXCEPT !.bindings = bs, !.unresolved = u]
      BY <2>2 DEF After
    <3> HIDE DEF bs, c
    <3> QED
      BY <2>2, <3>3, <3>4, <3>5, CallsNow DEF ChildSet
  <2> QED
    BY <2>1, <2>2
<1> HIDE DEF c
<1>7. /\ child' \in ChildSet /\ child'.phase = "SENDING" /\ child'.running = NoFrame
      /\ child'.observation = None /\ child'.expected = n /\ child'.queued = NoFrame
      /\ child'.fault = child.fault /\ child'.unresolved = c.unresolved
  BY <1>1, <1>2, <1>6 DEF ChildSet
<1>8. row \in [kind : Kinds, payment : Payments, outcome : Outcomes] /\ row # NotServed
  <2>1. row \in [kind : Kinds, payment : Payments, outcome : Outcomes]
    BY <1>2
  <2>2. row.kind # None
    BY <1>2, Names
  <2> QED
    BY <2>1, <2>2, Names
<1>9. frame \in FrameSet /\ frame.sequence = n /\ frame.result = outcome
  BY <1>2 DEF Frame, FrameSet
<1>10. /\ served' \in ServedSet /\ served'[n] = row
       /\ \A m \in Numbers : m # n => served'[m] = served[m]
  BY <1>1, <1>2, <1>8, CallsNow DEF ServedSet
<1>11. ServedGrows
  BY <1>4, <1>10 DEF ServedGrows
<1>12. Sends(<<frame>>)
  BY <1>1, <1>2, <1>9, <1>10, SendsOne
<1>13. ChildInv'
  <2>1. n <= Len(calls) /\ n \in Nat /\ Len(calls) \in Nat
    BY <1>2, CallsNow
  <2>2. \A m \in Numbers : m > Len(calls) \/ m > n => served'[m] = NotServed
    BY <1>4, <1>10, <2>1, ChildNow
  <2> QED
    BY <1>2, <1>3, <1>7, <2>1, <2>2 DEF ChildInv
<1>14. DoubtInv'
  <2>1. published \ included \subseteq
          IF child.observation # None THEN {p} ELSE {child.unresolved} \ {None}
    BY <1>1 DEF DispatcherInv, DoubtInv
  <2>2. published' \ included' \subseteq {c.unresolved} \ {None}
    <3>1. CASE request.kind # "SETTLE"
      BY <1>1, <1>3, <1>5, <1>6, <2>1, <3>1
    <3>2. CASE request.kind = "SETTLE" /\ outcome = "success"
      BY <1>1, <1>3, <1>5, <1>6, <2>1, <3>2 DEF MayDiffer
    <3>3. CASE request.kind = "SETTLE" /\ outcome = "recovery"
      <4>1. c.unresolved = p /\ p # None
        BY <1>2, <1>5, <1>6, <3>3, Names DEF UnresolvedAfter, MayDiffer
      <4> QED
        BY <1>1, <1>3, <1>5, <2>1, <3>3, <4>1 DEF MayDiffer
    <3>4. CASE request.kind = "SETTLE" /\ outcome = "invalid"
      BY <1>1, <1>3, <1>5, <1>6, <2>1, <3>4 DEF UnresolvedAfter
    <3> QED
      BY <1>5, <3>1, <3>2, <3>3, <3>4
  <2>3. \E q \in Payments \cup {None} : published' \ included' \subseteq {q}
    BY <1>1, <1>3 DEF DispatcherInv, DoubtInv
  <2> QED
    BY <1>7, <2>2, <2>3 DEF DoubtInv
<1>15. ASSUME NoGap PROVE OneBehind' /\ (~ shard.quarantined => Agreed') /\ LastMayRun'
  <2>1. InStep /\ n = Len(calls)
    BY <1>1, <1>2, <1>15 DEF DispatcherInv, InStep, OneBehind
  <2>2. OneBehind'
    <3>1. toChild = <<>> /\ child.fault \notin {"sequence", "duplicate", "unresolved"}
      BY <1>1, <2>1 DEF InStep, OneBehind
    <3> QED
      BY <1>3, <1>7, <3>1 DEF OneBehind
  <2>3. LastMayRun'
    BY <1>3, <1>8, <1>10, <2>1 DEF LastMayRun
  <2>4. ASSUME ~ shard.quarantined PROVE Agreed'
    <3>1. calls[n].answer = "open"
      <4>1. calls[n].answer \in Outcomes \cup {"open", "refused", "ambiguous"}
        BY <1>2, CallsNow DEF CallSet
      <4>2. calls[n].answer \notin {"refused", "ambiguous"}
        BY <1>2, <1>15, <2>4 DEF NoGap, DispatcherInv, CallsInv
      <4>3. calls[n].answer \notin Outcomes
        <5>1. ASSUME calls[n].answer \in Outcomes PROVE FALSE
          <6>1. Served(n, calls[n].response)
            BY <1>2, <5>1 DEF DispatcherInv, CallsInv
          <6> QED
            BY <1>2, <1>4, <6>1, Names DEF Served
        <5> QED
          BY <5>1
      <4> QED
        BY <4>1, <4>2, <4>3
    <3>2. pending = n /\ n # 0
      BY <1>2, <3>1, Names DEF DispatcherInv, CallsInv, Numbers
    <3>3. child.unresolved = shard.unresolved
      BY <1>4, <2>1, <2>4, <3>2 DEF InStep, Agreed
    <3>4. /\ served'[pending'] = row /\ calls'[pending'].kind = request.kind
          /\ calls'[pending'].payment = p /\ pending' # 0
      BY <1>2, <1>3, <1>10, <3>2
    <3>5. child'.unresolved = IF request.kind # "SETTLE" THEN shard.unresolved
                              ELSE UnresolvedAfter(shard.unresolved, p, outcome)
      BY <1>6, <1>7, <3>3
    <3> QED
      BY <1>3, <1>8, <3>4, <3>5 DEF Agreed
  <2> QED
    BY <2>2, <2>3, <2>4
<1>16. published' \subseteq Payments /\ included' \subseteq Payments
  BY <1>1, <1>2, <1>3, CallsNow
<1>17. RequestsShrink
  BY <1>1, SameRequests
<1> QED
  BY <1>1, <1>7, <1>10, <1>11, <1>12, <1>13, <1>14, <1>15, <1>16, <1>17, ChildStep

-----------------------------------------------------------------------------
(* The invariant. *)

LEMMA InitInv ==
  ASSUME Init
  PROVE  DispatcherInv
<1>1. /\ calls = << >> /\ Len(calls) = 0 /\ DOMAIN calls = {} /\ pending = 0
      /\ shard = [quarantined |-> FALSE, ambiguous |-> None, unresolved |-> None]
      /\ toChild = << >> /\ toParent = << >> /\ DOMAIN toChild = {}
      /\ DOMAIN toParent = {} /\ retiring = FALSE
      /\ published = {} /\ included = {}
  BY EmptySeq DEF Init
<1>2. child = [phase |-> "READY", expected |-> 1, queued |-> NoFrame,
               running |-> NoFrame, observation |-> None, bindings |-> {},
               unresolved |-> None, fault |-> None]
  BY DEF Init
<1>3. served = [n \in 1 .. MaxOperations |-> NotServed]
  BY DEF Init
<1>4. child \in ChildSet
  <2>1. /\ 1 \in 1 .. (MaxOperations + 1) /\ None \in Marks /\ None \in Faults
        /\ {} \in SUBSET [payment : Payments, eligible : BOOLEAN]
    BY Names DEF Marks, Faults
  <2> QED
    BY <1>2, <2>1 DEF ChildSet
<1>5. /\ shard \in ShardSet /\ served \in ServedSet
      /\ \A n \in Numbers : served[n] = NotServed
  BY <1>1, <1>3, Names DEF ShardSet, ServedSet, Marks, Numbers
<1>6. TypeOK
  <2>1. /\ calls \in Seq(CallSet) /\ toChild \in Seq(Requests)
        /\ toParent \in Seq(FrameSet)
    BY <1>1, EmptySeq
  <2>2. Typed(calls, pending, shard, toChild, toParent, child, served)
    BY <1>1, <1>4, <1>5, <2>1, Names DEF Typed
  <2> QED
    BY <1>1, <2>2, TypedIs
<1>7. CallsInv /\ FramesInv
  BY <1>1, <1>2 DEF CallsInv, FramesInv
<1>8. ChildInv
  BY <1>1, <1>2, <1>5, Names DEF ChildInv, None
<1>9. DoubtInv
  BY <1>1, <1>2 DEF DoubtInv
<1>10. InStep
  BY <1>1, <1>2, Names DEF InStep, OneBehind, Agreed, LastMayRun, None
<1> QED
  BY <1>6, <1>7, <1>8, <1>9, <1>10 DEF DispatcherInv

LEMMA NextInv ==
  ASSUME DispatcherInv, [Next]_vars
  PROVE  DispatcherInv'
<1>1. CASE UNCHANGED vars
  <2>1. /\ calls' = calls /\ pending' = pending /\ shard' = shard
        /\ retiring' = retiring /\ toChild' = toChild /\ toParent' = toParent
        /\ child' = child /\ served' = served /\ published' = published
        /\ included' = included
    BY <1>1 DEF vars
  <2>2. CallsMove /\ CallsInv'
    BY <2>1, CallsNow DEF CallsMove, CallsInv, DispatcherInv, Served
  <2>3. NoGap => (~ shard'.quarantined => Agreed')
    BY <2>1 DEF DispatcherInv, InStep, Agreed
  <2> QED
    BY <2>1, <2>2, <2>3, SameShrinks, ParentStep, CallsNow DEF chain
<1>2. CASE Next
  BY <1>2, CallStep, FrameTooLargeStep, SendCallbackStep, ReceiveStep, TimeoutStep,
     ShardLostStep, RetireStep, ChildReceiveStep, ObserveStep, ObservationSentStep,
     PublishStep, AnswersStep, ThrowsStep, ReplySentStep, ChildLostStep
     DEF Next
<1> QED
  BY <1>1, <1>2

\* What the dispatcher, the channel and the child hold of a request is of one
\* request, is served at most once, and unless a request was refused after
\* its admission the child is never more than one frame behind.
THEOREM DispatcherInvHolds == Spec => []DispatcherInv
BY InitInv, NextInv, PTL DEF Spec

-----------------------------------------------------------------------------
(* What follows from it. *)

\* The shapes of the dispatcher's records, of the frames and of the child's
\* state are what the code makes of them.
THEOREM TypeCorrect == Spec => []TypeOK
<1>1. DispatcherInv => TypeOK
  BY DEF DispatcherInv
<1> QED
  BY <1>1, DispatcherInvHolds, PTL

\* A definite answer of the dispatcher is what the facilitator answered to
\* that very request (completeIfReady, parseChildFrame).
THEOREM AnswersAreServedHolds == Spec => []AnswersAreServed
<1>1. ASSUME DispatcherInv PROVE AnswersAreServed
  <2>1. ASSUME NEW n \in DOMAIN calls,
               calls[n].answer \notin {"open", "refused", "ambiguous"}
        PROVE  served[n] = [kind |-> calls[n].kind, payment |-> calls[n].payment,
                            outcome |-> calls[n].answer]
    <3>1. calls[n].answer \in Outcomes
      BY <1>1, <2>1, CallsNow DEF CallSet
    <3>2. Served(n, calls[n].answer)
      BY <1>1, <2>1, <3>1 DEF DispatcherInv, CallsInv
    <3> QED
      BY <3>2 DEF Served
  <2> QED
    BY <1>1, <2>1 DEF AnswersAreServed, DispatcherInv
<1> QED
  BY <1>1, DispatcherInvHolds, PTL

\* One payer never has two payments on the chain that are not known to be
\* included: both sides hold the unresolved one, and the child publishes no
\* other before it is (unresolvedPayment on both sides).
THEOREM OneDoubtAtATimeHolds == Spec => []OneDoubtAtATime
<1>1. ASSUME DispatcherInv PROVE OneDoubtAtATime
  <2>1. PICK p \in Payments \cup {None} : published \ included \subseteq {p}
    BY <1>1 DEF DispatcherInv, DoubtInv
  <2>2. IsFiniteSet({p}) /\ Cardinality({p}) = 1
    BY FS_Singleton
  <2>3. /\ IsFiniteSet(published \ included)
        /\ Cardinality(published \ included) <= Cardinality({p})
    BY <2>1, <2>2, FS_Subset
  <2> QED
    BY <2>2, <2>3 DEF OneDoubtAtATime
<1> QED
  BY <1>1, DispatcherInvHolds, PTL

\* Unless a call was refused after its admission, the child has no reason to
\* refuse a frame of its dispatcher (processFrame, onMessage of the child).
THEOREM ChildKeepsUpHolds == Spec => []ChildKeepsUp
<1>1. DispatcherInv => ChildKeepsUp
  BY DEF DispatcherInv, InStep, OneBehind, ChildKeepsUp, NoGap
<1> QED
  BY <1>1, DispatcherInvHolds, PTL

\* An ambiguous call is the last of the shard, and the shard keeps its
\* transaction (quarantineShard, dispatchOperation).
THEOREM DoubtIsLastAndKeptHolds == Spec => []DoubtIsLastAndKept
<1>1. DispatcherInv => DoubtIsLastAndKept
  BY DEF DispatcherInv, CallsInv, DoubtIsLastAndKept
<1> QED
  BY <1>1, DispatcherInvHolds, PTL
=============================================================================
