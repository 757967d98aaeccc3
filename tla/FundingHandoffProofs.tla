------------------------ MODULE FundingHandoffProofs ------------------------
(***************************************************************************)
(* Proofs about FundingHandoff, for any provider processes, any payments   *)
(* of the payer and of the holder's other device, and any number of posts. *)
(*                                                                         *)
(* What a status of the payer's store says of the provider is carried by   *)
(* everything in between: the posts under way, the bindings and those who  *)
(* wait for them, and the answer on the connection.  A refusal counts only *)
(* on an attempt without a doubt, and there the payment is in one place at *)
(* most: posted and not received, or in one binding, or answered for.      *)
(***************************************************************************)
EXTENDS FundingHandoff, TLAPS

-----------------------------------------------------------------------------
(* The inductive invariant. *)

\* The payer's process knows its row, and where an attempt stands.
PayerInv ==
  /\ payer.step # "idle" => payer.phase = "RECOVERED" /\ ~payer.quarantined
  /\ payer.phase = "RECOVERED" /\ ~payer.quarantined => payer.record = custody
  /\ payer.step = "checking" => custody.status \in {"PREPARED", "OUTCOME_UNKNOWN"}
  /\ payer.step \in {"posting", "awaiting"} => custody.status = "ATTEMPT_FENCED"
  /\ payer.step \in {"checking", "posting"} => attempts < MaxAttempts
  /\ payer.step = "awaiting" => attempts >= 1
  /\ answer # None => payer.step = "awaiting"
  /\ custody.status # None => custody.payment \in Own
  /\ PayerRowConsistent

\* Whatever reached the provider of the payer's was posted by it, and an answer
\* of the provider is about what it posted.
SentInv ==
  /\ sent # {} => sent = {custody.payment} /\ custody.status \notin {None, "PREPARED"}
  /\ \A post \in posts : /\ post.payment \in sent \cup Foreign
                         /\ post.attempt # 0 => post.payment \in sent
  /\ \A v \in Providers :
       /\ provider[v].binding.payment \in sent \cup Foreign \cup {None}
       /\ provider[v].binding.waiting # {} => provider[v].binding.payment \in sent
  /\ intake.payment \in sent \cup Foreign \cup {None}
  /\ answer = "bound" \/ custody.status = "BOUND" => intake = Bound(custody.payment)

\* An attempt without a doubt is the first one: its payment is at one place.
FirstInv ==
  /\ payer.step = "posting" /\ ~custody.ambiguous => sent = {}
  /\ payer.step = "awaiting" /\ ~custody.ambiguous =>
       /\ \A post \in posts : post.payment = custody.payment =>
            /\ post.attempt = attempts /\ answer = None
            /\ intake.payment # custody.payment
            /\ \A v \in Providers : provider[v].binding.payment # custody.payment
       /\ \A v \in Providers : provider[v].binding.payment = custody.payment =>
            /\ provider[v].binding.waiting = {attempts} /\ answer = None
            /\ intake.payment # custody.payment
            /\ \A w \in Providers \ {v} :
                 provider[w].binding.payment # custody.payment
       /\ answer \in {"badRequest", "conflict"} => intake.payment # custody.payment

RefusedInv ==
  custody.status \in {"PAYMENT_REJECTED", "PAYMENT_CONFLICT"} =>
    intake.payment # custody.payment /\ ~UnderWay(custody.payment)

HandInv ==
  /\ intake.status # "BOUND" => intake.payment = None
  /\ intake.status = "BOUND" => intake.payment \in Payments
  /\ handed # {} => handed = {intake.payment}
  /\ \A v \in Publishers : bridge[v].holding \in {None, intake.payment}

HandoffInv ==
  TypeOK /\ PayerInv /\ SentInv /\ FirstInv /\ RefusedInv /\ HandInv

-----------------------------------------------------------------------------
(* The payer. *)

PayerType ==
  [phase : {"DOWN", "NEW", "RECOVERED"}, quarantined : BOOLEAN,
   step : {"idle", "checking", "posting", "awaiting"}, record : PayerRows]

LEMMA RowType ==
  ASSUME NEW status \in Statuses, NEW p \in Own \cup {None}, NEW b \in BOOLEAN
  PROVE  Row(status, p, b) \in PayerRows
BY DEF Row, PayerRows

\* What a step of the payer other than a post may write, and on which grounds.
CustodyMoves ==
  \/ custody' = custody
  \/ custody.status = "ATTEMPT_FENCED" /\ custody' = Recovered(custody)
  \/ custody.status = None /\ \E p \in Own : custody' = Row("PREPARED", p, FALSE)
  \/ /\ custody.status \in {"PREPARED", "OUTCOME_UNKNOWN"} /\ payer.step = "checking"
     /\ custody' = Fenced(custody)
  \/ /\ custody.status = "ATTEMPT_FENCED"
     /\ \E code \in {answer, "none"} :
          LET status == StatusOf(code, custody.ambiguous) IN
          /\ code = "none" \/ payer.step = "awaiting"
          /\ custody' = Row(status, custody.payment,
                            custody.ambiguous \/ status = "OUTCOME_UNKNOWN")

(* A row that moves keeps its payment and says no more than it may of doubt.  *)
LEMMA MovedRow ==
  ASSUME TypeOK, PayerInv, CustodyMoves
  PROVE  /\ custody' \in PayerRows /\ PayerRowConsistent'
         /\ custody'.status # None => custody'.payment \in Own
         /\ custody.status # None => custody'.payment = custody.payment
         /\ custody.status # None => custody'.status # None
         /\ custody'.status = "PREPARED" => custody.status \in {None, "PREPARED"}
<1>0. custody \in PayerRows /\ custody.ambiguous \in BOOLEAN /\ PayerRowConsistent
  BY DEF TypeOK, PayerRows, PayerInv
<1>1. CASE custody' = custody
  BY <1>0, <1>1 DEF PayerInv, PayerRowConsistent
<1>2. CASE custody.status = "ATTEMPT_FENCED" /\ custody' = Recovered(custody)
  BY <1>0, <1>2 DEF PayerInv, PayerRowConsistent, Recovered, Row, PayerRows, Statuses, None
<1>3. CASE custody.status = None /\ \E p \in Own : custody' = Row("PREPARED", p, FALSE)
  BY <1>0, <1>3 DEF PayerInv, PayerRowConsistent, Row, PayerRows, Statuses, None
<1>4. CASE /\ custody.status \in {"PREPARED", "OUTCOME_UNKNOWN"}
           /\ custody' = Fenced(custody)
  BY <1>0, <1>4 DEF PayerInv, PayerRowConsistent, Fenced, Row, PayerRows, Statuses, None
<1>5. ASSUME NEW code, custody.status = "ATTEMPT_FENCED",
             custody' = Row(StatusOf(code, custody.ambiguous), custody.payment,
                            custody.ambiguous \/ StatusOf(code, custody.ambiguous)
                                                   = "OUTCOME_UNKNOWN")
      PROVE  /\ custody' \in PayerRows /\ PayerRowConsistent'
             /\ custody'.payment = custody.payment
             /\ custody'.status \notin {None, "PREPARED"}
  <2> DEFINE status == StatusOf(code, custody.ambiguous)
  <2>1. /\ status \in {"BOUND", "PAYMENT_REJECTED", "PAYMENT_CONFLICT", "OUTCOME_UNKNOWN"}
        /\ status \in {"PAYMENT_REJECTED", "PAYMENT_CONFLICT"} => ~custody.ambiguous
    BY DEF StatusOf
  <2> HIDE DEF status
  <2>2. custody' = Row(status, custody.payment, custody.ambiguous \/ status = "OUTCOME_UNKNOWN")
    BY <1>5 DEF status
  <2> QED
    BY <1>0, <2>1, <2>2 DEF PayerRowConsistent, Row, PayerRows, Statuses, None
<1>6. CASE custody.status = "ATTEMPT_FENCED" /\ custody' # Recovered(custody)
             /\ custody' # custody
  <2>1. custody.payment \in Own /\ custody.status \notin {None, "PREPARED", "OUTCOME_UNKNOWN"}
    BY <1>6 DEF PayerInv, None
  <2>2. PICK code :
          custody' = Row(StatusOf(code, custody.ambiguous), custody.payment,
                         custody.ambiguous \/ StatusOf(code, custody.ambiguous)
                                                = "OUTCOME_UNKNOWN")
    BY <1>6, <2>1 DEF CustodyMoves
  <2> QED
    BY <1>5, <1>6, <2>1, <2>2
<1>7. CASE custody.status # "ATTEMPT_FENCED" /\ custody' # custody
  BY <1>3, <1>4, <1>7 DEF CustodyMoves
<1> QED
  BY <1>1, <1>2, <1>6, <1>7

\* A transaction that was not acknowledged: the owner is of no more use.
Quarantined ==
  payer' \in PayerType /\ payer'.quarantined = TRUE /\ payer'.step = "idle"

LEMMA CommitEffect ==
  ASSUME TypeOK, NEW row, NEW done, Commit(row, done)
  PROVE  \/ custody' = row /\ payer' = done
         \/ custody' \in {custody, row} /\ Quarantined
<1> DEFINE q == [payer EXCEPT !.quarantined = TRUE, !.step = "idle"]
<1>1. q \in PayerType /\ q.quarantined = TRUE /\ q.step = "idle"
  <2>1. payer \in PayerType
    BY DEF TypeOK, PayerType
  <2>2. [payer EXCEPT !.quarantined = TRUE] \in PayerType
    BY <2>1 DEF PayerType
  <2> QED
    BY <2>2 DEF PayerType
<1>2. \/ custody' = row /\ payer' = done
      \/ custody' \in {custody, row} /\ payer' = q
  BY DEF Commit
<1> HIDE DEF q
<1> QED
  BY <1>1, <1>2 DEF Quarantined

(* A step of the payer other than a post.                                     *)
LEMMA PayerMoves ==
  ASSUME TypeOK, PayerInv,
         \/ OpenOwner \/ Recover \/ BeginAttempt \/ CheckFails \/ FenceAttempt
         \/ Answered \/ GiveUp \/ PayerStops
         \/ \E p \in Own : Prepare(p)
  PROVE  /\ CustodyMoves /\ UNCHANGED <<attempts, sent>> /\ payer' \in PayerType
         /\ payer'.step # "idle" => payer'.phase = "RECOVERED" /\ ~payer'.quarantined
         /\ payer'.phase = "RECOVERED" /\ ~payer'.quarantined => payer'.record = custody'
         /\ payer'.step = "checking" =>
              custody'.status \in {"PREPARED", "OUTCOME_UNKNOWN"} /\ attempts < MaxAttempts
         /\ payer'.step = "posting" =>
              /\ attempts < MaxAttempts /\ custody' = Fenced(custody)
              /\ custody.status \in {"PREPARED", "OUTCOME_UNKNOWN"}
         /\ payer'.step # "awaiting"
<1>0. payer \in PayerType /\ custody \in PayerRows
  BY DEF TypeOK, PayerType
<1>1. CASE OpenOwner
  <2> DEFINE n == [PayerDown EXCEPT !.phase = "NEW"]
  <2>1. n \in PayerType /\ n.step = "idle" /\ n.phase = "NEW"
    BY DEF PayerDown, PayerType, NoRow, PayerRows, Statuses
  <2>2. payer' = n /\ UNCHANGED <<custody, attempts, sent>>
    BY <1>1 DEF OpenOwner
  <2> HIDE DEF n
  <2> QED
    BY <2>1, <2>2 DEF CustodyMoves
<1>2. CASE PayerStops
  BY <1>2 DEF PayerStops, PayerDown, PayerType, NoRow, PayerRows, Statuses, CustodyMoves
<1>3. CASE BeginAttempt
  <2> DEFINE n == [payer EXCEPT !.step = "checking"]
  <2>1. /\ n \in PayerType /\ n.step = "checking" /\ n.record = payer.record
        /\ n.phase = payer.phase /\ n.quarantined = payer.quarantined
    BY <1>0 DEF PayerType
  <2>2. payer' = n /\ UNCHANGED <<custody, attempts, sent>>
    BY <1>3 DEF BeginAttempt
  <2> HIDE DEF n
  <2> QED
    BY <1>3, <2>1, <2>2 DEF CustodyMoves, BeginAttempt, Idle, PayerInv
<1>4. CASE CheckFails
  <2> DEFINE n == [payer EXCEPT !.step = "idle", !.quarantined = TRUE]
  <2>1. n \in PayerType /\ n.step = "idle" /\ n.quarantined = TRUE
    <3>1. [payer EXCEPT !.step = "idle"] \in PayerType
      BY <1>0 DEF PayerType
    <3> QED
      BY <3>1 DEF PayerType
  <2>2. payer' = n /\ UNCHANGED <<custody, attempts, sent>>
    BY <1>4 DEF CheckFails
  <2> HIDE DEF n
  <2> QED
    BY <2>1, <2>2 DEF CustodyMoves
<1>5. ASSUME NEW row \in PayerRows, NEW done \in PayerType, Commit(row, done),
             UNCHANGED <<attempts, sent>>,
             custody' \in {custody, row} => CustodyMoves,
             /\ done.step = "idle" /\ done.record = row
             \/ /\ done.step = "posting" /\ done.phase = "RECOVERED"
                /\ ~done.quarantined /\ done.record = row
                /\ attempts < MaxAttempts /\ row = Fenced(custody)
                /\ custody.status \in {"PREPARED", "OUTCOME_UNKNOWN"}
      PROVE  /\ CustodyMoves /\ UNCHANGED <<attempts, sent>> /\ payer' \in PayerType
             /\ payer'.step # "idle" => payer'.phase = "RECOVERED" /\ ~payer'.quarantined
             /\ payer'.phase = "RECOVERED" /\ ~payer'.quarantined =>
                  payer'.record = custody'
             /\ payer'.step # "checking" /\ payer'.step # "awaiting"
             /\ payer'.step = "posting" =>
                  /\ attempts < MaxAttempts /\ custody' = Fenced(custody)
                  /\ custody.status \in {"PREPARED", "OUTCOME_UNKNOWN"}
  <2>1. \/ custody' = row /\ payer' = done
        \/ custody' \in {custody, row} /\ Quarantined
    BY <1>5, CommitEffect
  <2> QED
    BY <1>5, <2>1 DEF Quarantined
<1>6. CASE Recover
  <2> DEFINE row == Recovered(custody)
             done == [payer EXCEPT !.phase = "RECOVERED", !.record = row]
  <2>1. row \in PayerRows
    BY <1>0 DEF Recovered, Row, PayerRows, Statuses
  <2>2. done \in PayerType /\ done.step = payer.step /\ done.record = row
    <3>1. [payer EXCEPT !.phase = "RECOVERED"] \in PayerType
      BY <1>0 DEF PayerType
    <3> QED
      BY <1>0, <2>1, <3>1 DEF PayerType
  <2>3. payer.step = "idle"
    BY <1>0, <1>6 DEF Recover, PayerInv
  <2>4. Commit(row, done) /\ UNCHANGED <<attempts, sent>>
    BY <1>6 DEF Recover
  <2>5. row = custody \/ custody.status = "ATTEMPT_FENCED"
    BY DEF Recovered
  <2>6. custody' \in {custody, row} => CustodyMoves
    BY <2>5 DEF CustodyMoves
  <2> HIDE DEF row, done
  <2> QED
    BY <1>5, <2>1, <2>2, <2>3, <2>4, <2>6
<1>7. ASSUME NEW p \in Own, Prepare(p)
      PROVE  /\ CustodyMoves /\ UNCHANGED <<attempts, sent>> /\ payer' \in PayerType
             /\ payer'.step = "idle"
             /\ payer'.phase = "RECOVERED" /\ ~payer'.quarantined =>
                  payer'.record = custody'
  <2> DEFINE row == IF custody.status = None THEN Row("PREPARED", p, FALSE) ELSE custody
             done == [payer EXCEPT !.record = row]
  <2>1. row \in PayerRows
    BY <1>0 DEF Row, PayerRows, Statuses
  <2>2. done \in PayerType /\ done.step = payer.step /\ done.record = row
    BY <1>0, <2>1 DEF PayerType
  <2>3. payer.step = "idle"
    BY <1>7 DEF Prepare, Idle
  <2>4. Commit(row, done) /\ UNCHANGED <<attempts, sent>>
    BY <1>7 DEF Prepare
  <2>5. custody' \in {custody, row} => CustodyMoves
    BY DEF CustodyMoves
  <2> HIDE DEF row, done
  <2>6. \/ custody' = row /\ payer' = done
        \/ custody' \in {custody, row} /\ Quarantined
    BY <2>4, CommitEffect
  <2> QED
    BY <2>2, <2>3, <2>4, <2>5, <2>6 DEF Quarantined
<1>8. CASE FenceAttempt
  <2> DEFINE row == Fenced(custody)
             done == [payer EXCEPT !.step = "posting", !.record = row]
  <2>1. row \in PayerRows
    BY <1>0 DEF Fenced, Row, PayerRows, Statuses, PayerInv, None
  <2>2. /\ done \in PayerType /\ done.step = "posting" /\ done.record = row
        /\ done.phase = payer.phase /\ done.quarantined = payer.quarantined
    <3>1. [payer EXCEPT !.step = "posting"] \in PayerType
      BY <1>0 DEF PayerType
    <3> QED
      BY <1>0, <2>1, <3>1 DEF PayerType
  <2>3. /\ payer.step = "checking" /\ attempts < MaxAttempts
        /\ payer.phase = "RECOVERED" /\ ~payer.quarantined
        /\ custody.status \in {"PREPARED", "OUTCOME_UNKNOWN"}
    BY <1>8 DEF FenceAttempt, PayerInv
  <2>4. Commit(row, done) /\ UNCHANGED <<attempts, sent>>
    BY <1>8 DEF FenceAttempt
  <2>5. custody' \in {custody, row} => CustodyMoves
    BY <2>3 DEF CustodyMoves
  <2> HIDE DEF row, done
  <2>6. row = Fenced(custody)
    BY DEF row
  <2> QED
    BY <1>5, <2>1, <2>2, <2>3, <2>4, <2>5, <2>6
<1>9. ASSUME NEW code \in {answer, "none"}, code = "none" \/ payer.step = "awaiting",
             payer.step \in {"posting", "awaiting"}, FinishAttempt(code)
      PROVE  /\ CustodyMoves /\ UNCHANGED <<attempts, sent>> /\ payer' \in PayerType
             /\ payer'.step = "idle"
             /\ payer'.phase = "RECOVERED" /\ ~payer'.quarantined =>
                  payer'.record = custody'
  <2> DEFINE status == StatusOf(code, custody.ambiguous)
             row == Row(status, custody.payment,
                        custody.ambiguous \/ status = "OUTCOME_UNKNOWN")
             done(drained) == [payer EXCEPT !.step = "idle", !.record = row,
                                            !.quarantined = ~drained]
  <2>1. payer.record = custody /\ custody.status = "ATTEMPT_FENCED"
    BY <1>9 DEF PayerInv, FinishAttempt
  <2>2. PICK drained \in BOOLEAN : Commit(row, done(drained))
    BY <1>9, <2>1 DEF FinishAttempt
  <2>3. status \in {"BOUND", "PAYMENT_REJECTED", "PAYMENT_CONFLICT", "OUTCOME_UNKNOWN"}
    BY DEF StatusOf
  <2>4. row \in PayerRows
    <3> HIDE DEF status
    <3> QED
      BY <1>0, <2>3 DEF Row, PayerRows, Statuses
  <2>5. done(drained) \in PayerType /\ done(drained).step = "idle"
        /\ done(drained).record = row
    <3> HIDE DEF row
    <3>1. [payer EXCEPT !.step = "idle"] \in PayerType
      BY <1>0 DEF PayerType
    <3>2. [[payer EXCEPT !.step = "idle"] EXCEPT !.record = row] \in PayerType
      BY <2>4, <3>1 DEF PayerType
    <3> QED
      BY <2>4, <3>2 DEF PayerType
  <2>6. custody' \in {custody, row} => CustodyMoves
    BY <1>9, <2>1 DEF CustodyMoves
  <2>7. UNCHANGED <<attempts, sent>>
    BY <1>9 DEF FinishAttempt
  <2> HIDE DEF row, done
  <2>8. \/ custody' = row /\ payer' = done(drained)
        \/ custody' \in {custody, row} /\ Quarantined
    BY <2>2, CommitEffect
  <2> QED
    BY <2>5, <2>6, <2>7, <2>8 DEF Quarantined
<1>10. CASE Answered \/ GiveUp
  BY <1>9, <1>10 DEF Answered, GiveUp, None
<1> QED
  BY <1>1, <1>2, <1>3, <1>4, <1>6, <1>7, <1>8, <1>10

-----------------------------------------------------------------------------
(* The steps keep the invariant. *)

LEMMA PayerKeepsInv ==
  ASSUME HandoffInv,
         \/ OpenOwner \/ Recover \/ BeginAttempt \/ CheckFails \/ FenceAttempt
         \/ Answered \/ GiveUp \/ PayerStops
         \/ \E p \in Own : Prepare(p),
         answer' = IF payer'.step = "awaiting" THEN answer ELSE None,
         UNCHANGED <<posts, providerVars, expired, bridgeVars>>
  PROVE  HandoffInv'
<1>0. /\ TypeOK /\ PayerInv /\ SentInv /\ FirstInv /\ RefusedInv /\ HandInv
      /\ UNCHANGED <<posts, intake, provider, expired, bridge, handed>>
  BY DEF HandoffInv, providerVars, bridgeVars
<1>1. /\ CustodyMoves /\ UNCHANGED <<attempts, sent>> /\ payer' \in PayerType
      /\ payer'.step # "idle" => payer'.phase = "RECOVERED" /\ ~payer'.quarantined
      /\ payer'.phase = "RECOVERED" /\ ~payer'.quarantined => payer'.record = custody'
      /\ payer'.step = "checking" =>
           custody'.status \in {"PREPARED", "OUTCOME_UNKNOWN"} /\ attempts < MaxAttempts
      /\ payer'.step = "posting" =>
           /\ attempts < MaxAttempts /\ custody' = Fenced(custody)
           /\ custody.status \in {"PREPARED", "OUTCOME_UNKNOWN"}
      /\ payer'.step # "awaiting"
  BY <1>0, PayerMoves
<1>2. /\ custody' \in PayerRows /\ PayerRowConsistent'
      /\ custody'.status # None => custody'.payment \in Own
      /\ custody.status # None => custody'.payment = custody.payment
      /\ custody.status # None => custody'.status # None
      /\ custody'.status = "PREPARED" => custody.status \in {None, "PREPARED"}
  BY <1>0, <1>1, MovedRow
<1>3. answer' = None
  BY <1>1
<1>4. TypeOK'
  BY <1>0, <1>1, <1>2, <1>3 DEF TypeOK, PayerType
<1>5. PayerInv'
  <2>1. payer'.step = "posting" => custody'.status = "ATTEMPT_FENCED"
    BY <1>1 DEF Fenced, Row
  <2> QED
    BY <1>1, <1>2, <1>3, <2>1 DEF PayerInv, None
<1>6. custody'.status = "BOUND" => intake = Bound(custody'.payment)
  <2>1. CASE custody' = custody
    BY <1>0, <2>1 DEF SentInv
  <2>2. CASE custody' # custody /\ custody.status = "ATTEMPT_FENCED"
    <3>1. CASE custody' = Recovered(custody)
      BY <2>2, <3>1 DEF Recovered, Row
    <3>2. PICK code \in {answer, "none"} :
            custody' = Row(StatusOf(code, custody.ambiguous), custody.payment,
                           custody.ambiguous \/ StatusOf(code, custody.ambiguous)
                                                  = "OUTCOME_UNKNOWN")
            \/ custody' = Recovered(custody)
      BY <1>1, <2>2 DEF CustodyMoves, None
    <3>3. StatusOf(code, custody.ambiguous) = "BOUND" => code = "bound"
      BY DEF StatusOf
    <3> QED
      BY <1>0, <3>1, <3>2, <3>3 DEF SentInv, Row
  <2>3. CASE custody' # custody /\ custody.status # "ATTEMPT_FENCED"
    BY <1>1, <2>3 DEF CustodyMoves, Fenced, Row
  <2> QED
    BY <2>1, <2>2, <2>3
<1>7. SentInv'
  BY <1>0, <1>1, <1>2, <1>3, <1>6 DEF SentInv, None
<1>8. FirstInv'
  <2>1. ASSUME payer'.step = "posting", ~custody'.ambiguous
        PROVE  sent = {}
    <3>1. custody.ambiguous \in BOOLEAN /\ custody' = Fenced(custody)
      BY <1>0, <1>1, <2>1 DEF TypeOK, PayerRows
    <3>2. ~(custody.ambiguous \/ custody.status = "OUTCOME_UNKNOWN")
      BY <2>1, <3>1 DEF Fenced, Row
    <3> QED
      BY <1>0, <1>1, <2>1, <3>2 DEF SentInv
  <2> QED
    BY <1>1, <2>1 DEF FirstInv
<1>9. RefusedInv'
  <2>1. ASSUME custody'.status \in {"PAYMENT_REJECTED", "PAYMENT_CONFLICT"},
               custody' # custody
        PROVE  /\ payer.step = "awaiting" /\ answer \in {"badRequest", "conflict"}
               /\ ~custody.ambiguous /\ custody'.payment = custody.payment
    <3>1. custody.status = "ATTEMPT_FENCED" /\ custody' # Recovered(custody)
      BY <1>1, <2>1 DEF CustodyMoves, Recovered, Fenced, Row
    <3>2. PICK code \in {answer, "none"} :
            /\ custody' = Row(StatusOf(code, custody.ambiguous), custody.payment,
                              custody.ambiguous \/ StatusOf(code, custody.ambiguous)
                                                     = "OUTCOME_UNKNOWN")
            /\ code = "none" \/ payer.step = "awaiting"
      BY <1>1, <2>1, <3>1 DEF CustodyMoves, None
    <3>3. StatusOf(code, custody.ambiguous) \in {"PAYMENT_REJECTED", "PAYMENT_CONFLICT"}
      BY <2>1, <3>2 DEF Row
    <3>4. code \in {"badRequest", "conflict"} /\ ~custody.ambiguous
      BY <3>3 DEF StatusOf
    <3> QED
      BY <3>2, <3>4 DEF Row
  <2>2. UnderWay(custody.payment)' <=>
          \/ \E post \in posts : post.payment = custody'.payment
          \/ \E v \in Providers : provider[v].binding.payment = custody'.payment
    BY <1>0 DEF UnderWay
  <2>3. CASE custody' = custody
    BY <1>0, <2>2, <2>3 DEF RefusedInv, UnderWay
  <2>4. CASE custody' # custody
    BY <1>0, <2>1, <2>2, <2>4 DEF FirstInv, RefusedInv, None
  <2> QED
    BY <2>3, <2>4
<1>10. HandInv'
  BY <1>0 DEF HandInv
<1> QED
  BY <1>4, <1>5, <1>7, <1>8, <1>9, <1>10 DEF HandoffInv

(* The first post of an attempt without a doubt is the first of all.          *)
LEMMA PostKeepsInv ==
  ASSUME HandoffInv, Post, UNCHANGED <<answer, providerVars, expired, bridgeVars>>
  PROVE  HandoffInv'
<1> DEFINE p == custody.payment
           post == [attempt |-> attempts + 1, payment |-> p]
<1>0. /\ TypeOK /\ PayerInv /\ SentInv /\ FirstInv /\ RefusedInv /\ HandInv
      /\ UNCHANGED <<custody, answer, intake, provider, expired, bridge, handed>>
  BY DEF HandoffInv, providerVars, bridgeVars, Post
<1>1. /\ payer.step = "posting" /\ payer.record = custody
      /\ custody.status = "ATTEMPT_FENCED" /\ p \in Own
      /\ attempts < MaxAttempts /\ attempts \in Nat /\ MaxAttempts \in Nat
  BY <1>0, MaxAttemptsAssumption DEF Post, PayerInv, TypeOK, None
<1>2. /\ posts' = posts \cup {post} /\ sent' = sent \cup {p} /\ attempts' = attempts + 1
  BY <1>1 DEF Post
<1>3. /\ payer' \in PayerType /\ payer'.step = "awaiting" /\ payer'.record = custody
      /\ payer'.phase = payer.phase /\ payer'.quarantined = payer.quarantined
  BY <1>0, <1>1 DEF Post, TypeOK, PayerType
<1>4. answer = None /\ sent' = {p}
  BY <1>0, <1>1, <1>2 DEF PayerInv, SentInv
<1>5. TypeOK'
  BY <1>0, <1>1, <1>2, <1>3 DEF TypeOK, PayerType, Payments
<1>6. PayerInv'
  BY <1>0, <1>1, <1>2, <1>3 DEF PayerInv, PayerRowConsistent
<1>7. SentInv'
  BY <1>0, <1>1, <1>2, <1>4 DEF SentInv, None
<1>8. FirstInv'
  <2>1. ASSUME ~custody.ambiguous
        PROVE  /\ \A q \in posts : q.payment # p
               /\ \A v \in Providers : provider[v].binding.payment # p
               /\ intake.payment # p
    BY <1>0, <1>1, <2>1, PaymentsAssumption DEF FirstInv, SentInv, Payments
  <2> QED
    BY <1>0, <1>2, <1>3, <1>4, <2>1 DEF FirstInv, None
<1>9. RefusedInv' /\ HandInv'
  BY <1>0, <1>1 DEF RefusedInv, HandInv
<1> QED
  BY <1>5, <1>6, <1>7, <1>8, <1>9 DEF HandoffInv

Binding ==
  [payment : Payments \cup {None}, saw : {None, "ISSUED", "BOUND"},
   waiting : SUBSET (1 .. MaxAttempts)]

Process ==
  [phase : {"NEW", "RECOVERED", "RECOVERY_REQUIRED"}, distrusted : BOOLEAN,
   binding : Binding]

LEMMA NoBindingType ==
  NoBinding \in Binding /\ NoBinding.payment = None /\ NoBinding.waiting = {}
BY DEF NoBinding, Binding

LEMMA ReplyEffect ==
  ASSUME NEW ns, NEW code, Reply(ns, code)
  PROVE  \/ answer' = answer /\ ~(payer.step = "awaiting" /\ attempts \in ns)
         \/ answer' = code /\ payer.step = "awaiting" /\ attempts \in ns
BY DEF Reply, Connected

\* Process v goes on with the given binding, and no other process does anything.
Holds(v, b) ==
  /\ provider' \in [Providers -> Process]
  /\ provider'[v].binding = b
  /\ \A w \in Providers \ {v} : provider'[w] = provider[w]

\* What a step of a provider leaves alone.
PayerRests == UNCHANGED <<payerVars, expired, bridgeVars>>

LEMMA PayerRestsEffect ==
  ASSUME HandoffInv, PayerRests
  PROVE  /\ TypeOK /\ PayerInv /\ SentInv /\ FirstInv /\ RefusedInv /\ HandInv
         /\ UNCHANGED <<custody, payer, attempts, sent, expired, bridge, handed>>
         /\ provider \in [Providers -> Process]
         /\ attempts \in 0 .. MaxAttempts /\ MaxAttempts \in Nat
         /\ sent \subseteq {custody.payment} /\ custody.payment \notin Foreign
         /\ sent \subseteq Own
BY MaxAttemptsAssumption, PaymentsAssumption
   DEF HandoffInv, PayerRests, payerVars, bridgeVars, TypeOK, Process, Binding, SentInv,
       PayerRows, Payments

(* A post is answered without a binding.                                      *)
LEMMA AnsweredPost ==
  ASSUME HandoffInv, PayerRests, NEW v \in Providers, Holds(v, provider[v].binding),
         NEW post \in posts, posts' = posts \ {post}, UNCHANGED intake,
         NEW code \in {"badRequest", "conflict", "unavailable"},
         Reply({post.attempt}, code)
  PROVE  HandoffInv'
<1>0. /\ TypeOK /\ PayerInv /\ SentInv /\ FirstInv /\ RefusedInv /\ HandInv
      /\ UNCHANGED <<custody, payer, attempts, sent, expired, bridge, handed>>
      /\ attempts \in 0 .. MaxAttempts /\ sent \subseteq {custody.payment}
      /\ provider' \in [Providers -> Process]
  BY PayerRestsEffect DEF Holds
<1>1. \A w \in Providers : provider'[w].binding = provider[w].binding
  BY DEF Holds
<1>2. \/ answer' = answer
      \/ answer' = code /\ payer.step = "awaiting" /\ attempts = post.attempt
  BY ReplyEffect
<1>3. TypeOK'
  BY <1>0, <1>2 DEF TypeOK, Process, Binding
<1>4. PayerInv'
  BY <1>0, <1>2 DEF PayerInv, PayerRowConsistent
<1>5. SentInv'
  BY <1>0, <1>1, <1>2 DEF SentInv
<1>6. FirstInv'
  <2>1. ASSUME payer.step = "awaiting", ~custody.ambiguous, answer' # answer
        PROVE  /\ post.payment = custody.payment /\ post.attempt = attempts
               /\ intake.payment # custody.payment
               /\ \A w \in Providers : provider[w].binding.payment # custody.payment
    <3>1. attempts >= 1 /\ answer' = code /\ attempts = post.attempt
      BY <1>0, <1>2, <2>1 DEF PayerInv
    <3>2. post.payment \in sent
      BY <1>0, <3>1 DEF SentInv
    <3> QED
      BY <1>0, <2>1, <3>1, <3>2 DEF FirstInv
  <2>2. \A q \in posts' : q \in posts /\ q # post
    OBVIOUS
  <2>3. ASSUME NEW q \in posts, NEW r \in posts, q.payment = r.payment,
               q.attempt = r.attempt
        PROVE  q = r
    BY <1>0, <2>3 DEF TypeOK
  <2> QED
    BY <1>0, <1>1, <2>1, <2>2, <2>3 DEF FirstInv, None
<1>7. RefusedInv'
  BY <1>0, <1>1 DEF RefusedInv, UnderWay
<1>8. HandInv'
  BY <1>0 DEF HandInv
<1> QED
  BY <1>3, <1>4, <1>5, <1>6, <1>7, <1>8 DEF HandoffInv

(* A post is received, and its binding waits for the check.                   *)
LEMMA TakenPost ==
  ASSUME HandoffInv, PayerRests, NEW v \in Providers, NEW b \in Binding, Holds(v, b),
         NEW post \in posts, posts' = posts \ {post}, UNCHANGED <<intake, answer>>,
         b.payment = post.payment,
         \/ /\ provider[v].binding.payment = None
            /\ b.waiting = {post.attempt} \ {0}
         \/ /\ provider[v].binding.payment = post.payment
            /\ b.waiting = provider[v].binding.waiting \cup ({post.attempt} \ {0})
  PROVE  HandoffInv'
<1>0. /\ TypeOK /\ PayerInv /\ SentInv /\ FirstInv /\ RefusedInv /\ HandInv
      /\ UNCHANGED <<custody, payer, attempts, sent, expired, bridge, handed>>
      /\ attempts \in 0 .. MaxAttempts /\ sent \subseteq {custody.payment}
      /\ provider' \in [Providers -> Process]
  BY PayerRestsEffect DEF Holds
<1>1. /\ provider'[v].binding = b
      /\ \A w \in Providers \ {v} : provider'[w].binding = provider[w].binding
  BY DEF Holds
<1>3. TypeOK'
  BY <1>0 DEF TypeOK, Process, Binding
<1>4. PayerInv'
  BY <1>0 DEF PayerInv, PayerRowConsistent
<1>5. SentInv'
  <2>1. b.payment \in sent \cup Foreign \cup {None}
        /\ (b.waiting # {} => b.payment \in sent)
    BY <1>0 DEF SentInv
  <2> QED
    BY <1>0, <1>1, <2>1 DEF SentInv
<1>6. FirstInv'
  <2>1. ASSUME payer.step = "awaiting", ~custody.ambiguous,
               post.payment = custody.payment
        PROVE  /\ b.waiting = {attempts} /\ answer = None
               /\ intake.payment # custody.payment
               /\ \A w \in Providers : provider[w].binding.payment # custody.payment
               /\ \A q \in posts' : q.payment # custody.payment
    <3>1. /\ post.attempt = attempts /\ answer = None
          /\ intake.payment # custody.payment
          /\ \A w \in Providers : provider[w].binding.payment # custody.payment
      BY <1>0, <2>1 DEF FirstInv
    <3>2. attempts # 0
      BY <1>0, <2>1 DEF PayerInv
    <3>3. ASSUME NEW q \in posts, q.payment = custody.payment
          PROVE  q = post
      BY <1>0, <2>1, <3>1, <3>3 DEF FirstInv, TypeOK
    <3> QED
      BY <2>1, <3>1, <3>2, <3>3
  <2> QED
    BY <1>0, <1>1, <2>1 DEF FirstInv
<1>7. RefusedInv'
  BY <1>0, <1>1 DEF RefusedInv, UnderWay
<1>8. HandInv'
  BY <1>0 DEF HandInv
<1> QED
  BY <1>3, <1>4, <1>5, <1>6, <1>7, <1>8 DEF HandoffInv

(* The row only ever gains one payment, whose binding committed it.           *)
IntakeMoves(p) ==
  \/ intake' = intake
  \/ intake.status = None /\ intake' = [status |-> "ISSUED", payment |-> intake.payment]
  \/ p # None /\ ~Taken(p) /\ intake' = Bound(p)

LEMMA MovedIntake ==
  ASSUME TypeOK, HandInv, NEW p \in Payments \cup {None}, IntakeMoves(p),
         UNCHANGED <<bridge, handed>>
  PROVE  /\ HandInv' /\ intake'.payment \in {intake.payment, p}
         /\ intake' \in [status : {None, "ISSUED", "BOUND"}, payment : Payments \cup {None}]
         /\ intake.status = "BOUND" => intake' = intake
<1>0. /\ intake \in [status : {None, "ISSUED", "BOUND"}, payment : Payments \cup {None}]
      /\ handed \subseteq Payments
  BY DEF TypeOK
<1>1. CASE intake' = intake
  BY <1>0, <1>1 DEF HandInv
<1>2. CASE intake.status = None /\ intake' = [status |-> "ISSUED", payment |-> intake.payment]
  BY <1>0, <1>2 DEF HandInv, None
<1>3. CASE p # None /\ ~Taken(p) /\ intake' = Bound(p)
  <2>1. CASE intake.status = "BOUND"
    <3>1. intake.payment = p
      BY <1>3, <2>1 DEF Taken
    <3>2. intake' = intake
      BY <1>0, <1>3, <2>1, <3>1 DEF Bound
    <3> QED
      BY <1>0, <3>2 DEF HandInv
  <2>2. CASE intake.status # "BOUND"
    <3>1. intake.payment = None /\ handed = {}
      BY <1>0, <2>2, PaymentsAssumption DEF HandInv
    <3> QED
      BY <1>3, <2>2, <3>1 DEF HandInv, Bound
  <2> QED
    BY <2>1, <2>2
<1> QED
  BY <1>1, <1>2, <1>3 DEF IntakeMoves

(* A binding is over, one way or another, and everyone who waits for it hears *)
(* the same.                                                                  *)
LEMMA EndedBinding ==
  ASSUME HandoffInv, PayerRests, NEW v \in Providers, Holds(v, NoBinding),
         UNCHANGED posts, NEW code \in {"bound", "badRequest", "conflict", "unavailable"},
         NEW p, p = provider[v].binding.payment,
         Reply(provider[v].binding.waiting, code),
         \/ UNCHANGED intake /\ code # "bound"
         \/ /\ p # None /\ ~Taken(p) /\ intake' = Bound(p)
            /\ code \in {"bound", "unavailable"}
  PROVE  HandoffInv'
<1>0. /\ TypeOK /\ PayerInv /\ SentInv /\ FirstInv /\ RefusedInv /\ HandInv
      /\ UNCHANGED <<custody, payer, attempts, sent, expired, bridge, handed>>
      /\ attempts \in 0 .. MaxAttempts /\ sent \subseteq {custody.payment}
      /\ provider' \in [Providers -> Process] /\ provider \in [Providers -> Process]
      /\ custody.payment \notin Foreign
  BY PayerRestsEffect DEF Holds
<1>1. /\ provider'[v].binding.payment = None /\ provider'[v].binding.waiting = {}
      /\ \A w \in Providers \ {v} : provider'[w].binding = provider[w].binding
  BY NoBindingType DEF Holds
<1>2. \/ answer' = answer /\ ~(payer.step = "awaiting" /\ attempts \in provider[v].binding.waiting)
      \/ /\ answer' = code /\ payer.step = "awaiting"
         /\ attempts \in provider[v].binding.waiting
  BY ReplyEffect
<1>3. p \in Payments \cup {None} /\ p \in sent \cup Foreign \cup {None}
  BY <1>0 DEF Process, Binding, SentInv
<1>4. /\ HandInv' /\ intake'.payment \in {intake.payment, p}
      /\ intake' \in [status : {None, "ISSUED", "BOUND"}, payment : Payments \cup {None}]
      /\ intake.status = "BOUND" => intake' = intake
  BY <1>0, <1>3, MovedIntake DEF IntakeMoves
<1>5. attempts \in provider[v].binding.waiting => p = custody.payment
  BY <1>0 DEF SentInv
<1>6. TypeOK'
  BY <1>0, <1>2, <1>4 DEF TypeOK, Process, Binding
<1>7. PayerInv'
  BY <1>0, <1>2 DEF PayerInv, PayerRowConsistent
<1>8. SentInv'
  <2>1. answer' = "bound" => intake' = Bound(custody.payment)
    BY <1>0, <1>2, <1>4, <1>5 DEF SentInv, Bound
  <2>2. custody.status = "BOUND" => intake' = Bound(custody.payment)
    BY <1>0, <1>4 DEF SentInv, Bound
  <2> QED
    BY <1>0, <1>1, <1>3, <1>4, <2>1, <2>2 DEF SentInv, Bound
<1>9. FirstInv'
  <2>1. ASSUME payer.step = "awaiting", ~custody.ambiguous, p = custody.payment
        PROVE  /\ provider[v].binding.waiting = {attempts} /\ answer = None
               /\ intake.payment # custody.payment
               /\ \A w \in Providers \ {v} : provider'[w].binding.payment # custody.payment
               /\ \A q \in posts : q.payment # custody.payment
               /\ answer' \in {"badRequest", "conflict"} => UNCHANGED intake
    BY <1>0, <1>1, <1>2, <2>1 DEF FirstInv
  <2>2. ASSUME p # custody.payment
        PROVE  answer' = answer /\ (intake.payment # custody.payment
                                      => intake'.payment # custody.payment)
    BY <1>2, <1>4, <1>5, <2>2
  <2>3. ASSUME payer.step = "awaiting"
        PROVE  custody.payment # None
    BY <1>0, <2>3, PaymentsAssumption DEF PayerInv, Payments, None
  <2>4. CASE p = custody.payment
    BY <1>0, <1>1, <2>1, <2>3, <2>4 DEF FirstInv
  <2>5. CASE p # custody.payment
    BY <1>0, <1>1, <2>2, <2>3, <2>5 DEF FirstInv
  <2> QED
    BY <2>4, <2>5
<1>10. RefusedInv'
  <2>1. ASSUME custody.status \in {"PAYMENT_REJECTED", "PAYMENT_CONFLICT"}
        PROVE  intake'.payment # custody.payment /\ custody.payment # None
    BY <1>0, <1>4, <2>1, PaymentsAssumption DEF RefusedInv, UnderWay, PayerInv, Payments, None
  <2> QED
    BY <1>0, <1>1, <2>1 DEF RefusedInv, UnderWay
<1> QED
  BY <1>4, <1>6, <1>7, <1>8, <1>9, <1>10 DEF HandoffInv

(* The process loses its binding, or goes on with it, and nobody hears of it. *)
LEMMA SilentStep ==
  ASSUME HandoffInv, UNCHANGED <<payerVars, posts, answer>>,
         provider' \in [Providers -> Process],
         \A v \in Providers :
           provider'[v].binding \in {provider[v].binding, NoBinding},
         IntakeMoves(None), HandInv',
         bridge' \in [Publishers ->
           [phase : {"NEW", "RECOVERING", "RECOVERED", "SETTLING", "QUARANTINED", "CLOSED"},
            holding : Payments \cup {None}]],
         handed' \subseteq Payments
  PROVE  HandoffInv'
<1>0. /\ TypeOK /\ PayerInv /\ SentInv /\ FirstInv /\ RefusedInv
      /\ UNCHANGED <<custody, payer, attempts, sent>>
  BY DEF HandoffInv, payerVars
<1>1. /\ intake'.payment = intake.payment
      /\ intake' \in [status : {None, "ISSUED", "BOUND"}, payment : Payments \cup {None}]
      /\ intake.status = "BOUND" => intake' = intake
  BY <1>0 DEF IntakeMoves, TypeOK, None
<1>2. \A v \in Providers :
        \/ provider'[v].binding = provider[v].binding
        \/ provider'[v].binding.payment = None /\ provider'[v].binding.waiting = {}
  BY NoBindingType
<1>3. TypeOK'
  BY <1>0, <1>1 DEF TypeOK, Process, Binding
<1>4. PayerInv'
  BY <1>0 DEF PayerInv, PayerRowConsistent
<1>5. SentInv'
  BY <1>0, <1>1, <1>2 DEF SentInv, Bound
<1>6. ASSUME custody.status # None PROVE custody.payment # None
  BY <1>0, <1>6, PaymentsAssumption DEF PayerInv, Payments
<1>7. FirstInv'
  <2>1. payer.step = "awaiting" => custody.status # None
    BY <1>0 DEF PayerInv, None
  <2> QED
    BY <1>0, <1>1, <1>2, <1>6, <2>1 DEF FirstInv
<1>8. RefusedInv'
  <2>1. custody.status \in {"PAYMENT_REJECTED", "PAYMENT_CONFLICT"} => custody.status # None
    BY DEF None
  <2> QED
    BY <1>0, <1>1, <1>2, <1>6, <2>1 DEF RefusedInv, UnderWay
<1> QED
  BY <1>3, <1>4, <1>5, <1>7, <1>8 DEF HandoffInv

(* A process as its steps leave it.                                           *)
LEMMA Processes ==
  ASSUME provider \in [Providers -> Process], NEW v \in Providers
  PROVE  /\ provider[v] \in Process /\ provider[v].binding \in Binding
         /\ \A b \in Binding :
              provider' = [provider EXCEPT ![v].binding = b] => Holds(v, b)
         /\ provider' = [provider EXCEPT ![v].distrusted = TRUE]
              => Holds(v, provider[v].binding)
         /\ \A phase \in {"RECOVERED", "RECOVERY_REQUIRED"} :
              provider' = [provider EXCEPT ![v].phase = phase]
                => Holds(v, provider[v].binding)
         /\ provider' = [provider EXCEPT ![v].phase = "RECOVERY_REQUIRED",
                                         ![v].distrusted = TRUE]
              => Holds(v, provider[v].binding)
         /\ provider' = provider => Holds(v, provider[v].binding)
<1> DEFINE r == provider[v]
<1>0. r \in Process /\ r.binding \in Binding
  BY DEF Process
<1>1. ASSUME NEW n \in Process, provider' = [provider EXCEPT ![v] = n]
      PROVE  Holds(v, n.binding)
  BY <1>1 DEF Holds
<1>2. ASSUME NEW b \in Binding, provider' = [provider EXCEPT ![v].binding = b]
      PROVE  Holds(v, b)
  <2> DEFINE n == [r EXCEPT !.binding = b]
  <2>1. n \in Process /\ n.binding = b
    BY <1>0 DEF Process
  <2>2. provider' = [provider EXCEPT ![v] = n]
    BY <1>2
  <2> HIDE DEF n
  <2> QED
    BY <1>1, <2>1, <2>2
<1>3. ASSUME provider' = [provider EXCEPT ![v].distrusted = TRUE]
      PROVE  Holds(v, r.binding)
  <2> DEFINE n == [r EXCEPT !.distrusted = TRUE]
  <2>1. n \in Process /\ n.binding = r.binding
    BY <1>0 DEF Process
  <2>2. provider' = [provider EXCEPT ![v] = n]
    BY <1>3
  <2> HIDE DEF n
  <2> QED
    BY <1>1, <2>1, <2>2
<1>4. ASSUME NEW phase \in {"RECOVERED", "RECOVERY_REQUIRED"},
             provider' = [provider EXCEPT ![v].phase = phase]
      PROVE  Holds(v, r.binding)
  <2> DEFINE n == [r EXCEPT !.phase = phase]
  <2>1. n \in Process /\ n.binding = r.binding
    BY <1>0 DEF Process
  <2>2. provider' = [provider EXCEPT ![v] = n]
    BY <1>4
  <2> HIDE DEF n
  <2> QED
    BY <1>1, <2>1, <2>2
<1>5. ASSUME provider' = [provider EXCEPT ![v].phase = "RECOVERY_REQUIRED",
                                          ![v].distrusted = TRUE]
      PROVE  Holds(v, r.binding)
  <2> DEFINE m == [r EXCEPT !.phase = "RECOVERY_REQUIRED"]
             n == [m EXCEPT !.distrusted = TRUE]
  <2>1. m \in Process /\ m.binding = r.binding
    BY <1>0 DEF Process
  <2>2. n \in Process /\ n.binding = r.binding
    <3> HIDE DEF m
    <3> QED
      BY <2>1 DEF Process
  <2>3. provider' = [provider EXCEPT ![v] = n]
    BY <1>5
  <2> HIDE DEF n
  <2> QED
    BY <1>1, <2>2, <2>3
<1>6. ASSUME provider' = provider PROVE Holds(v, r.binding)
  BY <1>6 DEF Holds
<1> QED
  BY <1>0, <1>2, <1>3, <1>4, <1>5, <1>6

(* The ways bind() ends leave the process without a binding.                  *)
LEMMA EndedProcess ==
  ASSUME provider \in [Providers -> Process], NEW v \in Providers,
         \/ \E code : Ended(v, code)
         \/ EndedUnread(v)
         \/ EndedInDoubt(v, TRUE) \/ EndedInDoubt(v, FALSE)
  PROVE  Holds(v, NoBinding)
<1> DEFINE r == [provider[v] EXCEPT !.binding = NoBinding]
<1>1. r \in Process /\ r.binding = NoBinding
  BY NoBindingType DEF Process
<1>2. ASSUME NEW n \in Process, provider' = [provider EXCEPT ![v] = n]
      PROVE  Holds(v, n.binding)
  BY <1>2 DEF Holds
<1>3. CASE \E code : Ended(v, code)
  <2>1. provider' = [provider EXCEPT ![v] = r]
    BY <1>3 DEF Ended
  <2> HIDE DEF r
  <2> QED
    BY <1>1, <1>2, <2>1
<1>4. CASE EndedUnread(v)
  <2> DEFINE n == [r EXCEPT !.distrusted = TRUE]
  <2>1. provider' = [provider EXCEPT ![v] = n]
    BY <1>4 DEF EndedUnread
  <2> HIDE DEF r
  <2>2. n \in Process /\ n.binding = NoBinding
    BY <1>1 DEF Process
  <2> HIDE DEF n
  <2> QED
    BY <1>2, <2>1, <2>2
<1>5. ASSUME NEW d \in BOOLEAN, EndedInDoubt(v, d)
      PROVE  Holds(v, NoBinding)
  <2> DEFINE m == [r EXCEPT !.phase = "RECOVERY_REQUIRED"]
             n == [m EXCEPT !.distrusted = provider[v].distrusted \/ d]
  <2>1. provider' = [provider EXCEPT ![v] = n]
    BY <1>5 DEF EndedInDoubt
  <2> HIDE DEF r
  <2>2. m \in Process /\ m.binding = NoBinding
    BY <1>1 DEF Process
  <2> HIDE DEF m
  <2>3. (provider[v].distrusted \/ d) \in BOOLEAN
    BY DEF Process
  <2>4. n \in Process /\ n.binding = NoBinding
    BY <2>2, <2>3 DEF Process
  <2> HIDE DEF n
  <2> QED
    BY <1>2, <2>1, <2>4
<1> QED
  BY <1>3, <1>4, <1>5

LEMMA ReceiveKeepsInv ==
  ASSUME HandoffInv, PayerRests, NEW v \in Providers, Receive(v)
  PROVE  HandoffInv'
<1>0. provider \in [Providers -> Process] /\ MaxAttempts \in Nat /\ TypeOK
  BY PayerRestsEffect
<1>1. PICK post \in posts :
        /\ Begins(v, post) \/ Joins(v, post) \/ InConflict(v, post) \/ NotServed(v, post)
        /\ posts' = posts \ {post} /\ UNCHANGED intake
  BY DEF Receive
<1>2. post \in [attempt : 0 .. MaxAttempts, payment : Payments]
  BY <1>0 DEF TypeOK
<1>3. {post.attempt} \ {0} \in SUBSET (1 .. MaxAttempts)
  BY <1>0, <1>2
<1>4. CASE Begins(v, post)
  <2> DEFINE b == [payment |-> post.payment, saw |-> intake.status,
                   waiting |-> {post.attempt} \ {0}]
  <2>1. b \in Binding
    BY <1>0, <1>2, <1>3 DEF Binding, TypeOK
  <2>2. provider' = [provider EXCEPT ![v].binding = b] /\ UNCHANGED answer
    BY <1>4 DEF Begins, Silent
  <2>3. provider[v].binding.payment = None
    BY <1>4 DEF Begins, Free, NoBinding
  <2>4. b.payment = post.payment /\ b.waiting = {post.attempt} \ {0}
    OBVIOUS
  <2> HIDE DEF b
  <2>5. Holds(v, b)
    BY <1>0, <2>1, <2>2, Processes
  <2> QED
    BY <1>1, <2>1, <2>2, <2>3, <2>4, <2>5, TakenPost
<1>5. CASE Joins(v, post)
  <2> DEFINE c == provider[v].binding
             b == [c EXCEPT !.waiting = c.waiting \cup ({post.attempt} \ {0})]
  <2>0. c \in Binding
    BY <1>0 DEF Process
  <2>1. /\ b \in Binding /\ b.payment = c.payment
        /\ b.waiting = c.waiting \cup ({post.attempt} \ {0})
    BY <1>3, <2>0 DEF Binding
  <2>2. provider' = [provider EXCEPT ![v].binding = b] /\ UNCHANGED answer
    BY <1>5 DEF Joins, Silent
  <2>3. c.payment = post.payment
    BY <1>5 DEF Joins
  <2> HIDE DEF b
  <2>4. Holds(v, b)
    BY <1>0, <2>1, <2>2, Processes
  <2> QED
    BY <1>1, <2>1, <2>2, <2>3, <2>4, TakenPost
<1>6. CASE InConflict(v, post) \/ NotServed(v, post)
  <2>1. PICK code \in {"badRequest", "conflict", "unavailable"} :
          Reply({post.attempt}, code)
    BY <1>6 DEF InConflict, NotServed
  <2>2. Holds(v, provider[v].binding)
    BY <1>0, <1>6, Processes DEF InConflict, NotServed
  <2> QED
    BY <1>1, <2>1, <2>2, AnsweredPost
<1> QED
  BY <1>1, <1>4, <1>5, <1>6

LEMMA BindKeepsInv ==
  ASSUME HandoffInv, PayerRests, NEW v \in Providers,
         BindRefused(v) \/ BindCommits(v) \/ CommitInDoubt(v)
  PROVE  HandoffInv'
<1> DEFINE p == provider[v].binding.payment
           ns == provider[v].binding.waiting
<1>0. provider \in [Providers -> Process]
  BY PayerRestsEffect
<1>1. CASE BindRefused(v)
  <2>1. PICK code \in {"badRequest", "conflict"} : Reply(ns, code)
    BY <1>1 DEF BindRefused, Ended, EndedUnread
  <2>2. Holds(v, NoBinding)
    BY <1>0, <1>1, EndedProcess DEF BindRefused
  <2> QED
    BY <1>1, <2>1, <2>2, EndedBinding DEF BindRefused
<1>2. CASE BindCommits(v)
  <2>1. PICK code \in {"bound", "unavailable"} : Reply(ns, code)
    BY <1>2 DEF BindCommits, Ended, EndedInDoubt
  <2>2. Holds(v, NoBinding)
    BY <1>0, <1>2, EndedProcess DEF BindCommits
  <2> QED
    BY <1>2, <2>1, <2>2, EndedBinding DEF BindCommits
<1>3. CASE CommitInDoubt(v)
  <2>1. Reply(ns, "unavailable")
    BY <1>3 DEF CommitInDoubt, EndedInDoubt
  <2>2. Holds(v, NoBinding)
    BY <1>0, <1>3, EndedProcess DEF CommitInDoubt
  <2> QED
    BY <1>3, <2>1, <2>2, EndedBinding DEF CommitInDoubt
<1> QED
  BY <1>1, <1>2, <1>3

BridgeTypes ==
  [Publishers ->
    [phase : {"NEW", "RECOVERING", "RECOVERED", "SETTLING", "QUARANTINED", "CLOSED"},
     holding : Payments \cup {None}]]

LEMMA IssueKeepsInv ==
  ASSUME HandoffInv, PayerRests, NEW v \in Providers,
         AdapterRecovers(v) \/ IssueFixed(v)
  PROVE  HandoffInv'
<1>0. /\ provider \in [Providers -> Process] /\ TypeOK /\ HandInv
      /\ UNCHANGED <<bridge, handed>>
  BY PayerRestsEffect
<1>1. UNCHANGED <<payerVars, posts, answer>>
  BY DEF PayerRests, AdapterRecovers, IssueFixed
<1>2. IntakeMoves(None)
  <2>1. intake = [status |-> intake.status, payment |-> intake.payment]
    BY <1>0 DEF TypeOK
  <2> QED
    BY <2>1 DEF AdapterRecovers, IssueFixed, IntakeMoves
<1>3. Holds(v, provider[v].binding)
  BY <1>0, Processes DEF AdapterRecovers, IssueFixed
<1>4. HandInv'
  BY <1>0, <1>2, MovedIntake
<1>5. bridge' \in BridgeTypes /\ handed' \subseteq Payments
  BY <1>0 DEF TypeOK, BridgeTypes
<1> QED
  BY <1>1, <1>2, <1>3, <1>4, <1>5, SilentStep DEF Holds, BridgeTypes

LEMMA StopKeepsInv ==
  ASSUME HandoffInv, NEW v \in Providers, ProviderStops(v),
         UNCHANGED <<payerVars, expired>>
  PROVE  HandoffInv'
<1>0. provider \in [Providers -> Process] /\ bridge \in BridgeTypes /\ TypeOK /\ HandInv
  BY DEF HandoffInv, TypeOK, Process, Binding, BridgeTypes
<1>1. ProviderUp \in Process /\ ProviderUp.binding = NoBinding
  BY NoBindingType DEF ProviderUp, Process
<1>2. provider' \in [Providers -> Process]
  BY <1>0, <1>1 DEF ProviderStops
<1>3. \A w \in Providers : provider'[w].binding \in {provider[w].binding, NoBinding}
  BY <1>0, <1>1 DEF ProviderStops
<1>4. /\ bridge' \in BridgeTypes
      /\ \A w \in Publishers : bridge'[w].holding \in {bridge[w].holding, None}
  BY <1>0 DEF ProviderStops, BridgeTypes, BridgeUp, None
<1>5. HandInv' /\ IntakeMoves(None)
  BY <1>0, <1>4 DEF ProviderStops, HandInv, IntakeMoves
<1>6. UNCHANGED <<payerVars, posts, answer>> /\ handed' \subseteq Payments
  BY <1>0 DEF ProviderStops, TypeOK
<1> QED
  BY <1>2, <1>3, <1>4, <1>5, <1>6, SilentStep DEF BridgeTypes

LEMMA BridgeKeepsInv ==
  ASSUME HandoffInv, NEW v \in Publishers, BridgeStep(v),
         UNCHANGED <<payerVars, posts, answer, expired>>
  PROVE  HandoffInv'
<1>0. /\ provider \in [Providers -> Process] /\ bridge \in BridgeTypes
      /\ TypeOK /\ HandInv /\ v \in Providers
      /\ handed \subseteq Payments /\ intake.payment \in Payments \cup {None}
  BY PublishersAssumption DEF HandoffInv, TypeOK, Process, Binding, BridgeTypes
<1>1. /\ UNCHANGED intake
      /\ provider' \in [Providers -> Process]
      /\ \A w \in Providers : provider'[w].binding = provider[w].binding
  <2>1. CASE UNCHANGED providerVars
    BY <1>0, <2>1 DEF providerVars
  <2>2. CASE ReadFails(v)
    <3>1. Holds(v, provider[v].binding)
      BY <1>0, <2>2, Processes DEF ReadFails
    <3> QED
      BY <2>2, <3>1 DEF ReadFails, Holds
  <2> QED
    BY <2>1, <2>2 DEF BridgeStep
<1>2. /\ bridge' \in BridgeTypes
      /\ \A w \in Publishers \ {v} : bridge'[w] = bridge[w]
      /\ bridge'[v].holding \in {bridge[v].holding, intake.payment, None}
  BY <1>0 DEF BridgeStep, BridgeRecovers, RecoveryEnds, SettleBound, Hand, SettlementEnds,
              BridgeCloses, ReadFails, BridgeTypes
<1>3. \/ handed' = handed
      \/ handed' = handed \cup {intake.payment} /\ intake.payment \in Payments
  <2>1. CASE Hand(v)
    <3>1. bridge[v].holding = intake.payment /\ bridge[v].holding # None
      BY <1>0, <2>1 DEF Hand, HandInv
    <3> QED
      BY <1>0, <2>1, <3>1 DEF Hand
  <2>2. CASE ~Hand(v)
    BY <2>2 DEF BridgeStep, BridgeRecovers, RecoveryEnds, SettleBound, SettlementEnds,
                BridgeCloses, ReadFails
  <2> QED
    BY <2>1, <2>2
<1>4. HandInv' /\ IntakeMoves(None) /\ handed' \subseteq Payments
  BY <1>0, <1>1, <1>2, <1>3 DEF HandInv, IntakeMoves
<1> QED
  BY <1>1, <1>2, <1>4, SilentStep DEF BridgeTypes

LEMMA InitHandoffInv == Init => HandoffInv
<1> SUFFICES ASSUME Init PROVE HandoffInv
  OBVIOUS
<1>1. NoRow \in PayerRows /\ NoRow.status = None /\ NoRow.ambiguous = FALSE
  BY DEF NoRow, PayerRows, Statuses
<1>2. PayerDown \in PayerType /\ PayerDown.step = "idle" /\ PayerDown.phase = "DOWN"
  BY <1>1 DEF PayerDown, PayerType
<1>3. ProviderUp \in Process /\ ProviderUp.binding = NoBinding
  BY NoBindingType DEF ProviderUp, Process
<1>4. TypeOK
  BY <1>1, <1>2, <1>3, MaxAttemptsAssumption
     DEF Init, TypeOK, PayerType, Process, Binding, BridgeUp
<1>5. PayerInv
  BY <1>1, <1>2 DEF Init, PayerInv, PayerRowConsistent, None
<1>6. SentInv
  BY <1>1, <1>3, NoBindingType DEF Init, SentInv, None
<1>7. FirstInv /\ RefusedInv
  BY <1>1, <1>2 DEF Init, FirstInv, RefusedInv, None
<1>8. HandInv
  BY DEF Init, HandInv, BridgeUp, None
<1> QED
  BY <1>4, <1>5, <1>6, <1>7, <1>8 DEF HandoffInv

(* The other device of the holder posts a payment of its own.                 *)
LEMMA OtherDeviceKeepsInv ==
  ASSUME HandoffInv, OtherDevicePosts,
         UNCHANGED <<payerVars, answer, providerVars, expired, bridgeVars>>
  PROVE  HandoffInv'
<1>0. /\ TypeOK /\ PayerInv /\ SentInv /\ FirstInv /\ RefusedInv /\ HandInv
      /\ UNCHANGED <<custody, payer, attempts, sent, answer, intake, provider, bridge, handed>>
  BY DEF HandoffInv, payerVars, providerVars, bridgeVars
<1>1. PICK p \in Foreign : posts' = posts \cup {[attempt |-> 0, payment |-> p]}
  BY DEF OtherDevicePosts
<1>2. p # custody.payment
  BY <1>0, <1>1, PaymentsAssumption DEF TypeOK, PayerRows, Payments
<1>3. TypeOK'
  BY <1>0, <1>1, MaxAttemptsAssumption DEF TypeOK, Payments
<1>4. SentInv'
  BY <1>0, <1>1 DEF SentInv
<1>5. FirstInv' /\ RefusedInv'
  BY <1>0, <1>1, <1>2 DEF FirstInv, RefusedInv, UnderWay
<1>6. PayerInv' /\ HandInv'
  BY <1>0 DEF PayerInv, PayerRowConsistent, HandInv
<1> QED
  BY <1>3, <1>4, <1>5, <1>6 DEF HandoffInv

LEMMA StepHandoffInv ==
  ASSUME HandoffInv, [Next]_vars
  PROVE  HandoffInv'
<1>1. CASE UNCHANGED <<payerVars, posts, answer, providerVars, bridgeVars>>
  BY <1>1 DEF payerVars, providerVars, bridgeVars, HandoffInv, TypeOK, PayerInv,
     PayerRowConsistent, SentInv, FirstInv, RefusedInv, UnderWay, HandInv
<1>2. CASE PayerStep /\ UNCHANGED <<providerVars, expired, bridgeVars>>
  BY <1>2, PayerKeepsInv, PostKeepsInv DEF PayerStep
<1>3. CASE \E v \in Providers :
             \/ AdapterStep(v) /\ UNCHANGED <<payerVars, expired, bridgeVars>>
             \/ ProviderStops(v) /\ UNCHANGED <<payerVars, expired>>
  BY <1>3, ReceiveKeepsInv, BindKeepsInv, IssueKeepsInv, StopKeepsInv
     DEF AdapterStep, PayerRests
<1> QED
  BY <1>1, <1>2, <1>3, OtherDeviceKeepsInv, BridgeKeepsInv DEF Next, vars, ClockMoves

-----------------------------------------------------------------------------
(* The theorems. *)

(* The invariant of the payer's store, the posts, the intake and the bridges. *)
THEOREM HandoffInvHolds == Spec => []HandoffInv
BY InitHandoffInv, StepHandoffInv, PTL DEF Spec

(* A refusal the payer has written down is final: its payment is not bound,   *)
(* and nothing under way can still bind it.                                   *)
THEOREM RefusedIsUnboundHolds == Spec => []RefusedIsUnbound
<1>1. HandoffInv => RefusedIsUnbound
  BY DEF HandoffInv, PayerInv, RefusedInv, RefusedIsUnbound
<1> QED
  BY <1>1, HandoffInvHolds, PTL

(* Whatever was posted is what the payer's store retains, and what it calls   *)
(* bound is what the provider's row is bound to.                              *)
THEOREM PostedIsRetainedHolds == Spec => []PostedIsRetained
<1>1. HandoffInv => PostedIsRetained
  BY DEF HandoffInv, SentInv, PostedIsRetained
<1> QED
  BY <1>1, HandoffInvHolds, PTL

(* The facilitator is handed the payment of the row, and no other, ever.      *)
THEOREM HandedIsBoundHolds == Spec => []HandedIsBound
<1>1. HandoffInv => HandedIsBound
  BY PaymentsAssumption DEF HandoffInv, TypeOK, HandInv, HandedIsBound
<1> QED
  BY <1>1, HandoffInvHolds, PTL

(* The row of a challenge binds one payment for good: whatever processes are  *)
(* restarted, and whatever the other side sends.                              *)
THEOREM BoundForGood ==
  Spec => [][intake.status = "BOUND" => intake' = intake]_vars
<1>1. ASSUME HandoffInv, [Next]_vars, intake.status = "BOUND"
      PROVE  intake' = intake
  <2>0. intake \in [status : {None, "ISSUED", "BOUND"}, payment : Payments \cup {None}]
    BY <1>1 DEF HandoffInv, TypeOK
  <2>1. ASSUME NEW v \in Providers, BindCommits(v) \/ CommitInDoubt(v)
        PROVE  intake' = intake
    <3> DEFINE p == provider[v].binding.payment
    <3>1. ~Taken(p) /\ intake' \in {intake, Bound(p)}
      BY <2>1 DEF BindCommits, CommitInDoubt
    <3>2. intake.payment = p
      BY <1>1, <3>1 DEF Taken
    <3>3. intake = Bound(p)
      BY <1>1, <2>0, <3>2 DEF Bound
    <3> QED
      BY <3>1, <3>3
  <2>2. ASSUME NEW v \in Providers, AdapterStep(v)
        PROVE  intake' = intake
    BY <1>1, <2>1, <2>2 DEF AdapterStep, AdapterRecovers, IssueFixed, Receive, BindRefused, None
  <2>3. ASSUME NEW v \in Publishers, BridgeStep(v)
        PROVE  intake' = intake
    BY <2>3 DEF BridgeStep, providerVars, ReadFails
  <2> QED
    BY <1>1, <2>2, <2>3 DEF Next, vars, providerVars, ProviderStops
<1>2. HandoffInv /\ [Next]_vars => [intake.status = "BOUND" => intake' = intake]_vars
  BY <1>1
<1> QED
  BY <1>2, HandoffInvHolds, PTL DEF Spec
=============================================================================
