--------------------- MODULE SpendingReservationsProofs ---------------------
(***************************************************************************)
(* Proofs about SpendingReservations, for any number of sessions, payments *)
(* and originals, any amounts, days and policy.                            *)
(*                                                                         *)
(* What makes a signature unique is not the journal alone: a payment's row *)
(* has one session at work on it at most, the one whose exchange wrote it, *)
(* because a reservation needs a payment without a row; that session       *)
(* stores the intent once, because an intent needs a payment without one;  *)
(* and only it enters the SDK.  Every other session of the payment, before *)
(* or after a restart, stays at its threshold.                             *)
(***************************************************************************)
EXTENDS SpendingReservations, FiniteSetTheorems, WellFoundedInduction, TLAPS

-----------------------------------------------------------------------------
(* The inductive invariant. *)

SessionRecord ==
  [pc : {"down", "ready", "preparing", "attempt", "signed", "retained",
         "prepared", "calling", "submitting", "failing", "over"},
   mem : Journal, epoch : 0 .. MaxEpoch,
   payment : Payments \cup {None}, original : Originals \cup {None},
   held : BOOLEAN, closed : BOOLEAN, journalHeld : BOOLEAN,
   stuck : BOOLEAN]

\* The steps of a session that reserved its payment.
Working ==
  {"preparing", "attempt", "signed", "retained", "prepared", "calling",
   "submitting", "failing"}

\* A session at work owns the row of its payment, as its own exchange wrote it.
AtWork(s) ==
  /\ session[s].pc \in {"ready"} \cup Working => session[s].payment \in Payments
  /\ session[s].pc \in Working =>
       /\ session[s].original \in Originals
       /\ journal.rows[session[s].payment] # NoRow
       /\ journal.rows[session[s].payment].original = session[s].original
       /\ ~session[s].closed =>
            journal.rows[session[s].payment].status # "UNKNOWN"
       /\ session[s].pc \in {"attempt", "signed"} =>
            custody[session[s].payment] = "intent"
       /\ session[s].pc = "attempt" => signed[session[s].original] = 0
       /\ session[s].pc \in {"retained", "prepared", "calling", "submitting"} =>
            custody[session[s].payment] = "signed"

AloneAtWork ==
  \A s, t \in Sessions :
    /\ session[s].pc \in Working /\ session[t].pc \in Working
    /\ session[s].payment = session[t].payment
    => s = t

\* The store: what its validation looks for, sums and days apart.
RowsInv ==
  /\ \A p \in Payments :
       /\ journal.rows[p] # NoRow =>
            /\ journal.rows[p].status # None /\ journal.rows[p].original \in Originals
            /\ journal.rows[p].reservedDay \in Days
       /\ custody[p] # "none" => journal.rows[p] # NoRow
       /\ journal.rows[p].status = "SPENT" => custody[p] = "signed"
  /\ \A p, q \in Reserved(journal.rows) :
       journal.rows[p].original = journal.rows[q].original => p = q

\* What the SDK signed is on record.
SignedInv ==
  \A o \in Originals : signed[o] > 0 =>
    /\ signed[o] = 1
    /\ \E p \in Payments : /\ journal.rows[p].original = o
                           /\ custody[p] \in {"intent", "signed"}

SpendingInv ==
  /\ TypeOK
  /\ Decodes(journal)
  /\ RowsInv
  /\ SignedInv
  /\ AloneAtWork
  /\ \A s \in Sessions : AtWork(s)

-----------------------------------------------------------------------------
(* Type correctness. *)

LEMMA Policy ==
  /\ MaxEpoch \in Nat /\ MaxEpoch >= 1
  /\ 0 \in Days \cup {0} /\ Days \subseteq Nat
BY SpendingAssumption

LEMMA NoRowType == NoRow \in Row
BY DEF NoRow, Row

LEMMA EmptyType == Empty \in Journal
BY NoRowType DEF Empty, Journal

LEMMA DownType == Down \in SessionRecord /\ Over \in SessionRecord
<1>1. Down \in SessionRecord
  BY Policy, EmptyType DEF Down, SessionRecord
<1> QED
  BY <1>1 DEF Over, SessionRecord

LEMMA WithRowType ==
  ASSUME NEW j \in Journal, NEW p, NEW row, NEW d \in Days,
         p \in Payments => row \in Row
  PROVE  WithRow(j, p, row, d) \in Journal
<1>1. [j.rows EXCEPT ![p] = row] \in [Payments -> Row]
  BY DEF Journal
<1>2. j.revision + 1 \in Nat /\ d \in Days \cup {0}
  BY DEF Journal
<1> QED
  BY <1>1, <1>2 DEF WithRow, Journal

LEMMA ReservedInType ==
  ASSUME NEW j \in Journal, NEW p, NEW o \in Originals, NEW d \in Days
  PROVE  ReservedIn(j, p, o, d) \in Journal
<1>1. NewRow(o, d) \in Row
  BY DEF NewRow, Row
<1> QED
  BY <1>1, WithRowType DEF ReservedIn

LEMMA ObservedInType ==
  ASSUME NEW j \in Journal, NEW p, NEW d \in Days,
         NEW status \in {"UNKNOWN", "SPENT"}
  PROVE  ObservedIn(j, p, status, d) \in Journal
<1>1. ASSUME p \in Payments
      PROVE  [j.rows[p] EXCEPT
                !.status = status,
                !.spentDay = IF status = "SPENT" THEN d ELSE NoDay] \in Row
  <2>1. j.rows[p] \in Row
    BY <1>1 DEF Journal
  <2>2. [j.rows[p] EXCEPT !.status = status] \in Row
    BY <2>1 DEF Row
  <2> QED
    BY <2>2 DEF Row
<1> QED
  BY <1>1, WithRowType DEF ObservedIn

(* What a session keeps of the record a step gives it. *)
LEMMA ForgottenShape ==
  ASSUME NEW r \in SessionRecord
  PROVE  /\ Forgotten(r) \in SessionRecord
         /\ Forgotten(r).pc \in {r.pc, "over"}
         /\ Forgotten(r).pc # "over" =>
              /\ Forgotten(r).payment = r.payment
              /\ Forgotten(r).original = r.original
              /\ Forgotten(r).closed = r.closed
<1>1. Over \in SessionRecord /\ Over.pc = "over"
  BY DownType DEF Over, Down
<1> DEFINE c == [r EXCEPT !.mem = Empty, !.journalHeld = TRUE,
                          !.stuck = @ \/ r.pc \notin {"attempt", "signed"}]
<1>2. /\ c \in SessionRecord /\ c.pc = r.pc /\ c.payment = r.payment
      /\ c.original = r.original /\ c.closed = r.closed
  <2>1. [r EXCEPT !.mem = Empty] \in SessionRecord
    BY EmptyType DEF SessionRecord
  <2>2. [[r EXCEPT !.mem = Empty] EXCEPT !.journalHeld = TRUE] \in SessionRecord
    BY <2>1 DEF SessionRecord
  <2>3. (r.stuck \/ r.pc \notin {"attempt", "signed"}) \in BOOLEAN
    BY DEF SessionRecord
  <2>4. c = [[[r EXCEPT !.mem = Empty] EXCEPT !.journalHeld = TRUE]
               EXCEPT !.stuck = r.stuck \/ r.pc \notin {"attempt", "signed"}]
    BY DEF SessionRecord
  <2>5. c \in SessionRecord
    BY <2>2, <2>3, <2>4 DEF SessionRecord
  <2> QED
    BY <2>5 DEF SessionRecord
<1>3. Forgotten(r) = Over \/ Forgotten(r) = c \/ Forgotten(r) = r
  BY DEF Forgotten
<1> HIDE DEF c
<1> QED
  BY <1>1, <1>2, <1>3

\* What a step that gives session s the record r shows of it.
Took(s, r) ==
  /\ session' \in [Sessions -> SessionRecord]
  /\ \A t \in Sessions \ {s} : session'[t] = session[t]
  /\ session'[s].pc \in {r.pc, "over"}
  /\ session'[s].pc # "over" =>
       /\ session'[s].payment = r.payment
       /\ session'[s].original = r.original
       /\ session'[s].closed = r.closed

LEMMA BecomesTakes ==
  ASSUME TypeOK, NEW s \in Sessions, NEW r \in SessionRecord, Becomes(s, r)
  PROVE  Took(s, r)
<1>1. session \in [Sessions -> SessionRecord]
  BY DEF TypeOK, SessionRecord
<1>2. session'[s] = Forgotten(r)
  BY <1>1 DEF Becomes
<1> QED
  BY <1>1, <1>2, ForgottenShape DEF Becomes, Took, Working

(* What observing an outcome does to the journal and to its session. *)
Noted(s, status, d) ==
  LET r == session[s] IN
  /\ ~r.closed
  /\ journal' = ObservedIn(journal, r.payment, status, d)
  /\ Decodes(journal')
  /\ \A p \in Payments : journal'.rows[p].status = "SPENT" => custody[p] = "signed"

LEMMA ObservesEffect ==
  ASSUME TypeOK, NEW s \in Sessions, NEW status \in {"UNKNOWN", "SPENT"},
         NEW d \in Days, NEW ok \in SessionRecord, NEW bad \in SessionRecord,
         Observes(s, status, d, ok, bad)
  PROVE  /\ journal' \in Journal
         /\ UNCHANGED journal \/ Noted(s, status, d)
         /\ \E n \in SessionRecord :
              /\ Took(s, n)
              /\ \/ /\ n.pc = ok.pc /\ n.payment = ok.payment
                    /\ n.original = ok.original /\ n.closed = ok.closed
                 \/ /\ n.pc = bad.pc /\ n.payment = bad.payment
                    /\ n.original = bad.original /\ n.closed = bad.closed
<1> DEFINE r == session[s]
           next == ObservedIn(r.mem, r.payment, status, d)
           usable == /\ ~r.journalHeld /\ ~r.closed
                     /\ Recordable(r.mem, r.payment, status, d)
           writes == usable /\ next # r.mem /\ Decodes(next)
<1>1. r \in SessionRecord /\ journal \in Journal
  BY DEF TypeOK, SessionRecord
<1>2. r.mem \in Journal
  BY <1>1 DEF SessionRecord
<1>3. next \in Journal
  BY <1>2, ObservedInType
<1>4. \/ /\ writes /\ ExchangedBy(s, next)
         /\ Becomes(s, [ok EXCEPT !.mem = next])
      \/ UNCHANGED journal /\ Becomes(s, ok)
      \/ UNCHANGED journal /\ Becomes(s, bad)
      \/ /\ writes /\ ConflictFor(s)
         /\ Becomes(s, [bad EXCEPT !.journalHeld = TRUE])
      \/ /\ writes /\ UnknownTo(s, next)
         /\ Becomes(s, [bad EXCEPT !.journalHeld = TRUE, !.stuck = TRUE])
  BY DEF Observes
<1> HIDE DEF next
<1>5. ASSUME writes, ExchangedBy(s, next)
      PROVE  journal' \in Journal /\ Noted(s, status, d)
  BY <1>3, <1>5 DEF ExchangedBy, Noted, next
<1>6. /\ [ok EXCEPT !.mem = next] \in SessionRecord
      /\ [bad EXCEPT !.journalHeld = TRUE] \in SessionRecord
      /\ [bad EXCEPT !.journalHeld = TRUE, !.stuck = TRUE] \in SessionRecord
  <2>1. [bad EXCEPT !.journalHeld = TRUE] \in SessionRecord
    BY DEF SessionRecord
  <2> QED
    BY <1>3, <2>1 DEF SessionRecord
<1>7. CASE writes /\ ExchangedBy(s, next) /\ Becomes(s, [ok EXCEPT !.mem = next])
  <2> DEFINE n == [ok EXCEPT !.mem = next]
  <2>1. n \in SessionRecord /\ Took(s, n)
    BY <1>6, <1>7, BecomesTakes
  <2>2. /\ n.pc = ok.pc /\ n.payment = ok.payment
        /\ n.original = ok.original /\ n.closed = ok.closed
    BY DEF SessionRecord
  <2> HIDE DEF n
  <2> QED
    BY <1>5, <1>7, <2>1, <2>2
<1>8. CASE UNCHANGED journal /\ (Becomes(s, ok) \/ Becomes(s, bad))
  BY <1>1, <1>8, BecomesTakes
<1>9. CASE /\ writes /\ ConflictFor(s)
           /\ Becomes(s, [bad EXCEPT !.journalHeld = TRUE])
  <2> DEFINE n == [bad EXCEPT !.journalHeld = TRUE]
  <2>1. n \in SessionRecord /\ Took(s, n) /\ UNCHANGED journal
    BY <1>6, <1>9, BecomesTakes DEF ConflictFor
  <2>2. /\ n.pc = bad.pc /\ n.payment = bad.payment
        /\ n.original = bad.original /\ n.closed = bad.closed
    BY DEF SessionRecord
  <2> HIDE DEF n
  <2> QED
    BY <1>1, <2>1, <2>2
<1>10. CASE /\ writes /\ UnknownTo(s, next)
            /\ Becomes(s, [bad EXCEPT !.journalHeld = TRUE, !.stuck = TRUE])
  <2> DEFINE n == [bad EXCEPT !.journalHeld = TRUE, !.stuck = TRUE]
  <2>1. n \in SessionRecord /\ Took(s, n)
    BY <1>6, <1>10, BecomesTakes
  <2>2. /\ n.pc = bad.pc /\ n.payment = bad.payment
        /\ n.original = bad.original /\ n.closed = bad.closed
    BY DEF SessionRecord
  <2>3. ExchangedBy(s, next) \/ UNCHANGED journal
    BY <1>10 DEF UnknownTo
  <2> HIDE DEF n
  <2> QED
    BY <1>1, <1>5, <1>10, <2>1, <2>2, <2>3
<1> QED
  BY <1>4, <1>7, <1>8, <1>9, <1>10

-----------------------------------------------------------------------------
(* The invariant is inductive: the kinds of steps. *)

LEMMA InitSpendingInv == Init => SpendingInv
<1> SUFFICES ASSUME Init PROVE SpendingInv
  OBVIOUS
<1>1. TypeOK
  BY Policy, EmptyType, DownType DEF Init, TypeOK, SessionRecord
<1>2. \A p \in Payments : journal.rows[p] = NoRow /\ custody[p] = "none"
  BY DEF Init, Empty
<1>3. RowsInv
  BY <1>2 DEF RowsInv, Reserved, NoRow, None
<1>4. Decodes(journal)
  BY DEF Init, Decodes
<1>5. \A s \in Sessions : session[s].pc \notin {"ready"} \cup Working
  BY DEF Init, Down, Working
<1>6. SignedInv
  BY DEF Init, SignedInv
<1> QED
  BY <1>1, <1>3, <1>4, <1>5, <1>6 DEF SpendingInv, AloneAtWork, AtWork

LEMMA TypesKept ==
  ASSUME TypeOK, NEW s \in Sessions, NEW r \in SessionRecord, Took(s, r),
         journal' \in Journal, UNCHANGED epoch,
         custody' \in [Payments -> {"none", "intent", "signed"}],
         signed' \in [Originals -> Nat]
  PROVE  TypeOK'
BY DEF TypeOK, Took, SessionRecord

(* Nothing is stored or signed, and no session sets to work. *)
LEMMA IdleStep ==
  ASSUME SpendingInv, TypeOK', UNCHANGED <<journal, custody, signed>>,
         \A s \in Sessions :
           session'[s].pc = "ready" => session'[s].payment \in Payments,
         \A s \in Sessions : session'[s].pc \in Working =>
           /\ session'[s].pc = session[s].pc
           /\ session'[s].payment = session[s].payment
           /\ session'[s].original = session[s].original
           /\ session[s].closed => session'[s].closed
  PROVE  SpendingInv'
<1>1. \A s \in Sessions : AtWork(s)'
  BY DEF SpendingInv, AtWork
<1>2. AloneAtWork'
  BY DEF SpendingInv, AloneAtWork
<1> QED
  BY <1>1, <1>2 DEF SpendingInv, RowsInv, SignedInv, Reserved

(* A session at work changes what is stored of its own payment, and what is   *)
(* signed of its own original, and nothing else.                              *)
LEMMA WorkStep ==
  ASSUME SpendingInv, TypeOK', Decodes(journal'),
         NEW s \in Sessions, NEW p, p = session[s].payment,
         NEW o, o = session[s].original,
         session[s].pc \in Working,
         \A t \in Sessions \ {s} : session'[t] = session[t],
         \A q \in Payments \ {p} :
           journal'.rows[q] = journal.rows[q] /\ custody'[q] = custody[q],
         journal'.rows[p].original = o,
         journal'.rows[p].reservedDay = journal.rows[p].reservedDay,
         journal'.rows[p].status \in {"RESERVED", "UNKNOWN", "SPENT"},
         journal'.rows[p].status = "SPENT" => custody'[p] = "signed",
         custody[p] # "none" => custody'[p] # "none",
         \A x \in Originals \ {o} : signed'[x] = signed[x],
         \/ signed'[o] = signed[o]
         \/ signed[o] = 0 /\ signed'[o] = 1 /\ custody'[p] # "none",
         session'[s].pc \in Working => session'[s].payment = p,
         AtWork(s)'
  PROVE  SpendingInv'
<1>1. /\ p \in Payments /\ o \in Originals
      /\ journal.rows[p] # NoRow /\ journal.rows[p].original = o
  BY DEF SpendingInv, AtWork
<1>2. journal'.rows[p] # NoRow
  BY DEF NoRow, None
<1>3. Reserved(journal'.rows) = Reserved(journal.rows)
  BY <1>1, <1>2 DEF Reserved
<1>4. \A q \in Payments : journal'.rows[q].original = journal.rows[q].original
  BY <1>1
<1>5. RowsInv'
  <2>1. ASSUME NEW q \in Payments
        PROVE  /\ journal'.rows[q] # NoRow =>
                    /\ journal'.rows[q].status # None
                    /\ journal'.rows[q].original \in Originals
                    /\ journal'.rows[q].reservedDay \in Days
               /\ custody'[q] # "none" => journal'.rows[q] # NoRow
               /\ journal'.rows[q].status = "SPENT" => custody'[q] = "signed"
    <3>1. CASE q = p
      <4>1. journal'.rows[p].reservedDay \in Days
        BY <1>1 DEF SpendingInv, RowsInv
      <4> QED
        BY <1>1, <1>2, <3>1, <4>1 DEF None
    <3>2. CASE q # p
      BY <3>2 DEF SpendingInv, RowsInv
    <3> QED
      BY <3>1, <3>2
  <2>2. \A q, x \in Reserved(journal'.rows) :
          journal'.rows[q].original = journal'.rows[x].original => q = x
    BY <1>3, <1>4 DEF SpendingInv, RowsInv, Reserved
  <2> QED
    BY <2>1, <2>2 DEF RowsInv
<1>6. SignedInv'
  <2>1. TypeOK /\ SignedInv
    BY DEF SpendingInv
  <2>2. \A q \in Payments : custody[q] \in {"intent", "signed"}
          => custody'[q] \in {"intent", "signed"}
    BY DEF TypeOK
  <2>3. ASSUME NEW x \in Originals, signed'[x] > 0
        PROVE  /\ signed'[x] = 1
               /\ \E q \in Payments : /\ journal'.rows[q].original = x
                                      /\ custody'[q] \in {"intent", "signed"}
    <3>1. CASE signed'[x] = signed[x]
      BY <1>4, <2>1, <2>2, <2>3, <3>1 DEF SignedInv
    <3>2. CASE x = o /\ signed'[o] = 1 /\ custody'[p] # "none"
      BY <1>1, <1>4, <3>2 DEF TypeOK
    <3> QED
      BY <3>1, <3>2
  <2> QED
    BY <2>3 DEF SignedInv
<1>7. AloneAtWork'
  BY DEF SpendingInv, AloneAtWork
<1>8. ASSUME NEW t \in Sessions PROVE AtWork(t)'
  <2>1. CASE t = s
    BY <2>1
  <2>2. CASE t # s /\ session[t].pc \in Working
    <3>1. AtWork(t) /\ session'[t] = session[t]
      BY <2>2 DEF SpendingInv
    <3>2. session[t].payment # p
      BY <2>2 DEF SpendingInv, AloneAtWork
    <3>3. session[t].original # o
      <4>1. p \in Reserved(journal.rows) /\ session[t].payment \in Reserved(journal.rows)
        BY <1>1, <2>2, <3>1 DEF AtWork, Reserved
      <4>2. \A q, x \in Reserved(journal.rows) :
              journal.rows[q].original = journal.rows[x].original => q = x
        BY DEF SpendingInv, RowsInv
      <4>3. journal.rows[session[t].payment].original = session[t].original
        BY <2>2, <3>1 DEF AtWork
      <4> QED
        BY <1>1, <3>2, <4>1, <4>2, <4>3
    <3> QED
      BY <2>2, <3>1, <3>2, <3>3 DEF AtWork
  <2>3. CASE t # s /\ session[t].pc \notin Working
    BY <2>3 DEF SpendingInv, AtWork
  <2> QED
    BY <2>1, <2>2, <2>3
<1> QED
  BY <1>5, <1>6, <1>7, <1>8 DEF SpendingInv

(* What is noted of a payment changes the status of its row at most, and      *)
(* nothing once it is spent.                                                  *)
LEMMA NotedRows ==
  ASSUME TypeOK, NEW s \in Sessions, NEW p \in Payments, p = session[s].payment,
         NEW status \in {"UNKNOWN", "SPENT"}, NEW d \in Days,
         Noted(s, status, d)
  PROVE  /\ \A q \in Payments \ {p} : journal'.rows[q] = journal.rows[q]
         /\ journal'.rows[p].original = journal.rows[p].original
         /\ journal'.rows[p].reservedDay = journal.rows[p].reservedDay
         /\ journal.rows[p].status = "SPENT" => journal'.rows[p] = journal.rows[p]
         /\ journal.rows[p].status # "SPENT" => journal'.rows[p].status = status
<1>1. /\ journal.rows \in [Payments -> Row] /\ journal.rows[p] \in Row
      /\ journal' = ObservedIn(journal, p, status, d)
  BY DEF TypeOK, Journal, Noted
<1>2. CASE journal.rows[p].status = "SPENT"
  BY <1>1, <1>2 DEF ObservedIn
<1>3. CASE journal.rows[p].status # "SPENT"
  <2> DEFINE row == [journal.rows[p] EXCEPT
                       !.status = status,
                       !.spentDay = IF status = "SPENT" THEN d ELSE NoDay]
  <2>1. /\ row.status = status /\ row.original = journal.rows[p].original
        /\ row.reservedDay = journal.rows[p].reservedDay
    BY <1>1 DEF Row
  <2>2. journal' = WithRow(journal, p, row, d)
    BY <1>1, <1>3 DEF ObservedIn
  <2> HIDE DEF row
  <2>3. journal'.rows = [journal.rows EXCEPT ![p] = row]
    BY <2>2 DEF WithRow
  <2> QED
    BY <1>1, <1>3, <2>1, <2>3
<1> QED
  BY <1>2, <1>3

-----------------------------------------------------------------------------
(* The invariant is inductive: the actions. *)

(* A session whose reservation failed keeps its payment, and its threshold.   *)
LEMMA HeldShape ==
  ASSUME NEW r \in SessionRecord, r.pc = "ready", NEW s
  PROVE  LET held == [r EXCEPT !.journalHeld = TRUE, !.held = s \in SingleLane]
             lost == [held EXCEPT !.stuck = TRUE]
         IN /\ held \in SessionRecord /\ held.pc = "ready" /\ held.payment = r.payment
            /\ lost \in SessionRecord /\ lost.pc = "ready" /\ lost.payment = r.payment
<1> DEFINE held == [r EXCEPT !.journalHeld = TRUE, !.held = s \in SingleLane]
           lost == [held EXCEPT !.stuck = TRUE]
<1>1. [r EXCEPT !.journalHeld = TRUE] \in SessionRecord
  BY DEF SessionRecord
<1>2. held \in SessionRecord /\ held.pc = "ready" /\ held.payment = r.payment
  <2>1. (s \in SingleLane) \in BOOLEAN
    OBVIOUS
  <2> QED
    BY <1>1, <2>1 DEF SessionRecord
<1> HIDE DEF held
<1>3. lost \in SessionRecord /\ lost.pc = "ready" /\ lost.payment = r.payment
  BY <1>2 DEF SessionRecord
<1> QED
  BY <1>2, <1>3 DEF held

(* A reservation adds the row of a payment that had none, whether its session *)
(* hears of it or not.                                                        *)
LEMMA ReserveKeepsInv ==
  ASSUME SpendingInv, NEW s \in Sessions, NEW o \in Originals, NEW d \in Days,
         Reserve(s, o, d)
  PROVE  SpendingInv'
<1> DEFINE r == session[s]
           p == r.payment
           next == ReservedIn(r.mem, p, o, d)
           held == [r EXCEPT !.journalHeld = TRUE, !.held = s \in SingleLane]
           lost == [held EXCEPT !.stuck = TRUE]
           work == [r EXCEPT !.pc = "preparing", !.mem = next, !.original = o]
<1>0. TypeOK /\ r \in SessionRecord /\ r.mem \in Journal /\ journal \in Journal
  BY DEF SpendingInv, TypeOK, SessionRecord
<1>1. next \in Journal
  BY <1>0, ReservedInType
<1>p. p \in Payments
  BY DEF Reserve, SpendingInv, AtWork
<1>2. /\ held \in SessionRecord /\ held.pc = "ready" /\ held.payment = p
      /\ lost \in SessionRecord /\ lost.pc = "ready" /\ lost.payment = p
  BY <1>0, HeldShape DEF Reserve
<1>3. /\ work \in SessionRecord /\ work.pc = "preparing"
      /\ work.payment = p /\ work.original = o /\ work.closed = r.closed
  <2>1. [r EXCEPT !.pc = "preparing"] \in SessionRecord
    BY <1>0 DEF SessionRecord
  <2>2. [[r EXCEPT !.pc = "preparing"] EXCEPT !.mem = next] \in SessionRecord
    BY <1>1, <2>1 DEF SessionRecord
  <2> QED
    BY <2>2, <1>0 DEF SessionRecord
<1>4. \/ UNCHANGED journal /\ (Becomes(s, held) \/ Becomes(s, lost))
      \/ /\ Admits(r.mem, p, o, d) /\ Decodes(next) /\ ExchangedBy(s, next)
         /\ Becomes(s, work) \/ Becomes(s, lost)
  BY DEF Reserve, ConflictFor, UnknownTo
<1>5. UNCHANGED <<custody, epoch, signed>>
  BY DEF Reserve
<1> HIDE DEF next, held, lost, work
<1>6. CASE UNCHANGED journal /\ (Becomes(s, held) \/ Becomes(s, lost))
  <2>1. PICK n \in SessionRecord :
          n.pc = "ready" /\ n.payment = p /\ Took(s, n)
    BY <1>0, <1>2, <1>6, BecomesTakes
  <2>2. TypeOK'
    BY <1>0, <1>5, <1>6, <2>1, TypesKept DEF TypeOK
  <2>3. /\ session'[s].pc \notin Working
        /\ session'[s].pc = "ready" => session'[s].payment \in Payments
    BY <1>p, <2>1 DEF Took, Working
  <2>4. \A t \in Sessions :
          session'[t].pc = "ready" => session'[t].payment \in Payments
    BY <2>1, <2>3 DEF Took, SpendingInv, AtWork
  <2> QED
    BY <1>5, <1>6, <2>1, <2>2, <2>3, <2>4, IdleStep DEF Took
<1>7. CASE /\ Admits(r.mem, p, o, d) /\ Decodes(next) /\ ExchangedBy(s, next)
           /\ Becomes(s, work) \/ Becomes(s, lost)
  <2>1. PICK n \in SessionRecord :
          Took(s, n) /\ (n = work \/ (n.pc = "ready" /\ n.payment = p))
    BY <1>0, <1>2, <1>3, <1>7, BecomesTakes
  <2>2. journal' = next /\ journal = r.mem
    BY <1>7 DEF ExchangedBy
  <2>3. TypeOK'
    BY <1>0, <1>1, <1>5, <2>1, <2>2, TypesKept DEF TypeOK
  <2>4. journal.rows[p] = NoRow /\ \A q \in Payments : journal.rows[q].original # o
    BY <1>7, <2>2 DEF Admits
  <2>5. journal'.rows = [journal.rows EXCEPT ![p] = NewRow(o, d)]
    BY <2>2 DEF next, ReservedIn, WithRow
  <2>6. journal.rows \in [Payments -> Row]
    BY <1>0 DEF Journal
  <2>7. \A q \in Payments \ {p} : journal'.rows[q] = journal.rows[q]
    BY <2>5, <2>6
  <2>8. p \in Payments =>
          /\ journal'.rows[p] # NoRow
          /\ journal'.rows[p].status = "RESERVED"
          /\ journal'.rows[p].original = o
          /\ journal'.rows[p].reservedDay = d
    BY <2>5, <2>6 DEF NewRow, NoRow, None
  <2>9. RowsInv'
    <3>1. ASSUME NEW q \in Payments
          PROVE  /\ journal'.rows[q] # NoRow =>
                      /\ journal'.rows[q].status # None
                      /\ journal'.rows[q].original \in Originals
                      /\ journal'.rows[q].reservedDay \in Days
                 /\ custody'[q] # "none" => journal'.rows[q] # NoRow
                 /\ journal'.rows[q].status = "SPENT" => custody'[q] = "signed"
      <4>1. CASE q = p
        BY <1>5, <2>8, <4>1 DEF None
      <4>2. CASE q # p
        BY <1>5, <2>7, <4>2 DEF SpendingInv, RowsInv
      <4> QED
        BY <4>1, <4>2
    <3>2. ASSUME NEW q \in Reserved(journal'.rows), NEW x \in Reserved(journal'.rows),
                 journal'.rows[q].original = journal'.rows[x].original
          PROVE  q = x
      BY <2>4, <2>7, <2>8, <3>2 DEF SpendingInv, RowsInv, Reserved
    <3> QED
      BY <3>1, <3>2 DEF RowsInv
  <2>10. SignedInv'
    <3>1. ASSUME NEW x \in Originals, signed'[x] > 0
          PROVE  /\ signed'[x] = 1
                 /\ \E q \in Payments : /\ journal'.rows[q].original = x
                                        /\ custody'[q] \in {"intent", "signed"}
      <4>1. signed[x] > 0 /\ SignedInv /\ RowsInv
        BY <1>5, <3>1 DEF SpendingInv
      <4>2. PICK q \in Payments : /\ journal.rows[q].original = x
                                  /\ custody[q] \in {"intent", "signed"}
        BY <4>1 DEF SignedInv
      <4>3. q # p
        BY <2>4, <4>1, <4>2 DEF RowsInv
      <4> QED
        BY <1>5, <2>7, <4>1, <4>2, <4>3 DEF SignedInv
    <3> QED
      BY <3>1 DEF SignedInv
  <2>11. \A t \in Sessions : session[t].pc \in Working =>
           session[t].payment # p /\ t # s
    <3>1. r.pc = "ready"
      BY DEF Reserve
    <3> QED
      BY <2>4, <3>1 DEF SpendingInv, AtWork, Working
  <2>12. ASSUME NEW t \in Sessions \ {s}
         PROVE  AtWork(t)'
    <3>1. session'[t] = session[t] /\ AtWork(t)
      BY <2>1 DEF Took, SpendingInv
    <3> QED
      BY <1>5, <2>7, <2>11, <3>1 DEF AtWork
  <2>13. session'[s].pc \in Working =>
           /\ p \in Payments /\ session'[s].pc = "preparing"
           /\ session'[s].payment = p /\ session'[s].original = o
    BY <1>3, <1>p, <2>1 DEF Took, Working
  <2>14. AtWork(s)'
    <3>1. session'[s].pc = "ready" => session'[s].payment \in Payments
      BY <1>3, <1>p, <2>1 DEF Took
    <3> QED
      BY <2>8, <2>13, <3>1 DEF AtWork
  <2>15. AloneAtWork'
    BY <2>1, <2>11, <2>13 DEF AloneAtWork, Took, SpendingInv
  <2> QED
    BY <1>7, <2>2, <2>3, <2>9, <2>10, <2>12, <2>14, <2>15 DEF SpendingInv
<1> QED
  BY <1>4, <1>6, <1>7

(* A session that only moves on, stores its intent or its signature, or signs. *)
LEMMA MovesOn ==
  ASSUME SpendingInv, NEW s \in Sessions, NEW p, p = session[s].payment,
         session[s].pc \in Working, NEW n \in SessionRecord, Took(s, n),
         n.pc = "over" \/ (n.payment = p /\ n.original = session[s].original
                             /\ n.closed = session[s].closed),
         n.pc \in Working \cup {"over"},
         UNCHANGED <<journal, epoch>>,
         custody' \in [Payments -> {"none", "intent", "signed"}],
         \A q \in Payments \ {p} : custody'[q] = custody[q],
         custody[p] # "none" => custody'[p] # "none",
         custody[p] = "signed" => custody'[p] = "signed",
         n.pc \in {"attempt", "signed"} => custody'[p] = "intent",
         n.pc \in {"retained", "prepared", "calling", "submitting"} =>
           custody'[p] = "signed",
         signed' \in [Originals -> Nat],
         \A x \in Originals \ {session[s].original} : signed'[x] = signed[x],
         n.pc = "attempt" => signed'[session[s].original] = 0,
         \/ UNCHANGED signed
         \/ /\ signed[session[s].original] = 0
            /\ signed'[session[s].original] = 1
            /\ custody'[p] # "none"
  PROVE  SpendingInv'
<1> DEFINE o == session[s].original
<1>0. TypeOK /\ AtWork(s) /\ RowsInv
  BY DEF SpendingInv
<1>1. /\ p \in Payments /\ o \in Originals
      /\ journal.rows[p] # NoRow /\ journal.rows[p].original = o
      /\ ~session[s].closed => journal.rows[p].status # "UNKNOWN"
  BY <1>0 DEF AtWork
<1>2. TypeOK'
  BY <1>0, TypesKept DEF TypeOK
<1>3. journal.rows[p].status \in {"RESERVED", "UNKNOWN", "SPENT"}
  <2>1. journal.rows[p] \in Row /\ journal.rows[p].status # None
    BY <1>0, <1>1 DEF TypeOK, Journal, RowsInv
  <2> QED
    BY <2>1 DEF Row
<1>4. session'[s].pc \in Working =>
        /\ session'[s].pc = n.pc /\ session'[s].payment = p
        /\ session'[s].original = o /\ session'[s].closed = session[s].closed
  BY DEF Took, Working
<1>5. AtWork(s)'
  BY <1>1, <1>4 DEF AtWork, Took, Working
<1>6. journal'.rows[p].status = "SPENT" => custody'[p] = "signed"
  BY <1>0, <1>1 DEF RowsInv
<1>7. Decodes(journal')
  BY DEF SpendingInv
<1>8. \A t \in Sessions \ {s} : session'[t] = session[t]
  BY DEF Took
<1> QED
  BY <1>1, <1>2, <1>3, <1>4, <1>5, <1>6, <1>7, <1>8, WorkStep

\* The record of a session that only moved to pc.
MovedTo(n, r, pc) ==
  /\ n \in SessionRecord /\ n.pc = pc /\ n.payment = r.payment
  /\ n.original = r.original /\ n.closed = r.closed

LEMMA Moves ==
  ASSUME NEW r \in SessionRecord,
         NEW pc \in {"preparing", "attempt", "signed", "retained", "prepared",
                     "calling", "submitting", "failing", "over"}
  PROVE  /\ MovedTo([r EXCEPT !.pc = pc], r, pc)
         /\ \A b \in BOOLEAN : MovedTo([r EXCEPT !.pc = pc, !.stuck = b], r, pc)
<1>1. /\ [r EXCEPT !.pc = pc] \in SessionRecord
      /\ MovedTo([r EXCEPT !.pc = pc], r, pc)
  BY DEF SessionRecord, MovedTo
<1>2. ASSUME NEW b \in BOOLEAN
      PROVE  MovedTo([r EXCEPT !.pc = pc, !.stuck = b], r, pc)
  BY <1>1 DEF SessionRecord, MovedTo
<1> QED
  BY <1>1, <1>2

LEMMA CallsKeepInv ==
  ASSUME SpendingInv, NEW s \in Sessions,
         Attempt(s) \/ Sign(s) \/ SignRefused(s) \/ Retain(s) \/ Answers(s) \/ Call(s)
  PROVE  SpendingInv'
<1> DEFINE r == session[s]
           p == r.payment
           o == r.original
<1>0. /\ TypeOK /\ AtWork(s) /\ r \in SessionRecord
      /\ custody \in [Payments -> {"none", "intent", "signed"}]
      /\ signed \in [Originals -> Nat] /\ r.stuck \in BOOLEAN
  BY DEF SpendingInv, TypeOK, SessionRecord
<1>1. r.pc \in Working
  BY DEF Attempt, Sign, SignRefused, Retain, Answers, Call, Working
<1>2. /\ p \in Payments /\ o \in Originals
      /\ journal.rows[p] # NoRow /\ journal.rows[p].original = o
  BY <1>0, <1>1 DEF AtWork
<1>3. ASSUME NEW n, NEW pc, MovedTo(n, r, pc), Becomes(s, n)
      PROVE  /\ n \in SessionRecord /\ Took(s, n) /\ n.pc = pc
             /\ n.payment = p /\ n.original = o /\ n.closed = r.closed
  BY <1>0, <1>3, BecomesTakes DEF MovedTo
<1>4. CASE Attempt(s)
  <2>1. \/ /\ custody[p] = "none" /\ custody' = [custody EXCEPT ![p] = "intent"]
           /\ Becomes(s, [r EXCEPT !.pc = "attempt"])
        \/ /\ \/ UNCHANGED custody
              \/ custody[p] = "none" /\ custody' = [custody EXCEPT ![p] = "intent"]
           /\ Becomes(s, [r EXCEPT !.pc = "failing", !.stuck = TRUE])
    BY <1>2, <1>4 DEF Attempt
  <2>2. PICK n : /\ Becomes(s, n)
                 /\ \/ MovedTo(n, r, "attempt") /\ custody[p] = "none"
                         /\ custody' = [custody EXCEPT ![p] = "intent"]
                    \/ MovedTo(n, r, "failing")
    BY <1>0, <2>1, Moves
  <2>3. /\ custody' \in [Payments -> {"none", "intent", "signed"}]
        /\ \A q \in Payments \ {p} : custody'[q] = custody[q]
        /\ custody'[p] = custody[p] \/ (custody[p] = "none" /\ custody'[p] = "intent")
        /\ MovedTo(n, r, "attempt") => custody'[p] = "intent"
    BY <1>0, <1>2, <2>1, <2>2 DEF MovedTo
  <2>4. custody[p] = "none" => signed[o] = 0
    <3>1. RowsInv /\ SignedInv
      BY DEF SpendingInv
    <3>2. ASSUME NEW q \in Payments, journal.rows[q].original = o, custody[q] # "none"
          PROVE  q = p
      BY <1>2, <3>1, <3>2 DEF RowsInv, Reserved
    <3>3. signed[o] \in Nat
      BY <1>0, <1>2
    <3> QED
      BY <1>2, <3>1, <3>2, <3>3 DEF SignedInv
  <2> QED
    <3>1. journal' = journal /\ epoch' = epoch /\ signed' = signed
      BY <1>4 DEF Attempt
    <3>2. /\ n \in SessionRecord /\ Took(s, n) /\ n.pc \in {"attempt", "failing"}
          /\ n.payment = p /\ n.original = o /\ n.closed = r.closed
      BY <1>3, <2>2
    <3>3. n.pc = "attempt" => signed[o] = 0 /\ custody'[p] = "intent"
      BY <2>2, <2>3, <2>4 DEF MovedTo
    <3>4. {"attempt", "failing"} \subseteq Working
      BY DEF Working
    <3>5. /\ custody[p] # "none" => custody'[p] # "none"
          /\ custody[p] = "signed" => custody'[p] = "signed"
      BY <2>3
    <3> HIDE DEF p, o
    <3> QED
      BY <1>0, <1>1, <2>3, <3>1, <3>2, <3>3, <3>4, <3>5, MovesOn DEF p, o
<1>5. CASE Sign(s)
  <2>1. /\ r.pc = "attempt" /\ Becomes(s, [r EXCEPT !.pc = "signed"])
        /\ signed' = [signed EXCEPT ![o] = signed[o] + 1]
        /\ UNCHANGED <<journal, custody, epoch>>
    BY <1>5 DEF Sign
  <2>2. signed[o] = 0 /\ custody[p] = "intent"
    BY <1>0, <2>1 DEF AtWork, Working
  <2>3. /\ signed' \in [Originals -> Nat] /\ signed'[o] = 1
        /\ \A x \in Originals \ {o} : signed'[x] = signed[x]
    BY <1>0, <1>2, <2>1, <2>2
  <2>4. PICK n : Becomes(s, n) /\ MovedTo(n, r, "signed")
    BY <1>0, <2>1, Moves
  <2> QED
    BY <1>0, <1>1, <1>3, <2>1, <2>2, <2>3, <2>4, MovesOn DEF Working
<1>6. CASE SignRefused(s)
  <2>1. PICK n : Becomes(s, n) /\ MovedTo(n, r, "failing")
    BY <1>0, <1>6, Moves DEF SignRefused
  <2> QED
    BY <1>0, <1>1, <1>3, <1>6, <2>1, MovesOn DEF SignRefused, Working
<1>7. CASE Retain(s)
  <2>1. \/ /\ custody[p] = "intent" /\ custody' = [custody EXCEPT ![p] = "signed"]
           /\ Becomes(s, [r EXCEPT !.pc = "retained"])
        \/ /\ \/ UNCHANGED custody
              \/ custody[p] = "intent" /\ custody' = [custody EXCEPT ![p] = "signed"]
           /\ Becomes(s, [r EXCEPT !.pc = "failing", !.stuck = TRUE])
    BY <1>7 DEF Retain, StoredWith
  <2>2. PICK n : /\ Becomes(s, n)
                 /\ \/ MovedTo(n, r, "retained") /\ custody[p] = "intent"
                         /\ custody' = [custody EXCEPT ![p] = "signed"]
                    \/ MovedTo(n, r, "failing")
    BY <1>0, <2>1, Moves
  <2>3. /\ custody' \in [Payments -> {"none", "intent", "signed"}]
        /\ \A q \in Payments \ {p} : custody'[q] = custody[q]
        /\ custody'[p] = custody[p] \/ (custody[p] = "intent" /\ custody'[p] = "signed")
        /\ MovedTo(n, r, "retained") => custody'[p] = "signed"
    BY <1>0, <1>2, <2>1, <2>2 DEF MovedTo
  <2> QED
    BY <1>0, <1>1, <1>3, <1>7, <2>2, <2>3, MovesOn DEF Retain, Working, MovedTo
<1>8. CASE Answers(s)
  <2>1. custody[p] = "signed"
    BY <1>0, <1>8 DEF Answers, AtWork, Working
  <2>2. CASE r.closed \/ r.held
    <3>1. Took(s, Over) /\ Over \in SessionRecord /\ Over.pc = "over"
      BY <1>0, <1>8, <2>2, DownType, BecomesTakes DEF Answers, Over, Down
    <3> QED
      BY <1>0, <1>1, <1>8, <3>1, MovesOn DEF Answers
  <2>3. CASE ~(r.closed \/ r.held)
    <3>1. PICK n : Becomes(s, n) /\ MovedTo(n, r, "prepared")
      BY <1>0, <1>8, <2>3, Moves DEF Answers
    <3> QED
      BY <1>0, <1>1, <1>3, <1>8, <2>1, <3>1, MovesOn DEF Answers, Working
  <2> QED
    BY <2>2, <2>3
<1>9. CASE Call(s)
  <2>1. custody[p] = "signed"
    BY <1>0, <1>9 DEF Call, AtWork, Working
  <2>2. PICK n, pc : /\ Becomes(s, n) /\ MovedTo(n, r, pc)
                     /\ pc \in {"calling", "submitting"}
    BY <1>0, <1>9, Moves DEF Call
  <2> QED
    BY <1>0, <1>1, <1>3, <1>9, <2>1, <2>2, MovesOn DEF Call, Working
<1> QED
  BY <1>4, <1>5, <1>6, <1>7, <1>8, <1>9

\* The record of a session that noted an outcome: it is over, or was closed, or
\* goes on after a settlement.
GoesOn(n, r, status) ==
  n.pc = "over" \/
    /\ n.payment = r.payment /\ n.original = r.original
    /\ n.pc = r.pc \/ (n.pc = "prepared" /\ r.pc = "submitting")
    /\ n.closed \/ status = "SPENT"
    /\ r.closed => n.closed

LEMMA NotesKeepInv ==
  ASSUME SpendingInv, NEW s \in Sessions, session[s].pc \in Working,
         NEW status \in {"UNKNOWN", "SPENT"}, NEW d \in Days,
         NEW ok \in SessionRecord, GoesOn(ok, session[s], status),
         NEW bad \in SessionRecord, GoesOn(bad, session[s], "UNKNOWN"),
         Observes(s, status, d, ok, bad),
         UNCHANGED <<custody, epoch, signed>>
  PROVE  SpendingInv'
<1> DEFINE r == session[s]
           p == r.payment
           o == r.original
<1>0. /\ TypeOK /\ AtWork(s) /\ RowsInv /\ Decodes(journal)
      /\ custody \in [Payments -> {"none", "intent", "signed"}]
      /\ signed \in [Originals -> Nat]
  BY DEF SpendingInv, TypeOK
<1>1. /\ p \in Payments /\ o \in Originals
      /\ journal.rows[p] # NoRow /\ journal.rows[p].original = o
      /\ ~r.closed => journal.rows[p].status # "UNKNOWN"
  BY <1>0 DEF AtWork
<1>2. PICK n \in SessionRecord : Took(s, n) /\ GoesOn(n, r, status)
  <2>1. PICK n \in SessionRecord :
          /\ Took(s, n)
          /\ \/ /\ n.pc = ok.pc /\ n.payment = ok.payment
                /\ n.original = ok.original /\ n.closed = ok.closed
             \/ /\ n.pc = bad.pc /\ n.payment = bad.payment
                /\ n.original = bad.original /\ n.closed = bad.closed
    BY <1>0, ObservesEffect
  <2> QED
    BY <2>1 DEF GoesOn
<1>3. journal' \in Journal /\ (UNCHANGED journal \/ Noted(s, status, d))
  BY <1>0, ObservesEffect
<1>4. TypeOK'
  BY <1>0, <1>2, <1>3, TypesKept
<1>5. /\ \A q \in Payments \ {p} : journal'.rows[q] = journal.rows[q]
      /\ journal'.rows[p].original = o
      /\ journal'.rows[p].reservedDay = journal.rows[p].reservedDay
      /\ journal'.rows[p].status \in {journal.rows[p].status, status}
      /\ Decodes(journal')
      /\ journal'.rows[p].status = "SPENT" => custody[p] = "signed"
  <2>1. CASE UNCHANGED journal
    BY <1>0, <1>1, <2>1 DEF RowsInv
  <2>2. CASE Noted(s, status, d)
    <3>1. /\ \A q \in Payments \ {p} : journal'.rows[q] = journal.rows[q]
          /\ journal'.rows[p].original = journal.rows[p].original
          /\ journal'.rows[p].reservedDay = journal.rows[p].reservedDay
          /\ journal.rows[p].status = "SPENT" => journal'.rows[p] = journal.rows[p]
          /\ journal.rows[p].status # "SPENT" => journal'.rows[p].status = status
      BY <1>0, <1>1, <2>2, NotedRows
    <3>2. /\ Decodes(journal')
          /\ \A q \in Payments :
               journal'.rows[q].status = "SPENT" => custody[q] = "signed"
      BY <2>2 DEF Noted
    <3> QED
      BY <1>1, <3>1, <3>2
  <2> QED
    BY <1>3, <2>1, <2>2
<1>6. journal'.rows[p].status \in {"RESERVED", "UNKNOWN", "SPENT"}
  <2>1. journal.rows[p] \in Row /\ journal.rows[p].status # None
    BY <1>0, <1>1 DEF TypeOK, Journal, RowsInv
  <2> QED
    BY <1>5, <2>1 DEF Row
<1>7. session'[s].pc \in Working =>
        /\ session'[s].pc = n.pc /\ session'[s].payment = p
        /\ session'[s].original = o /\ session'[s].closed = n.closed
        /\ n.pc = r.pc \/ (n.pc = "prepared" /\ r.pc = "submitting")
        /\ n.closed \/ status = "SPENT"
        /\ r.closed => n.closed
  BY <1>2 DEF Took, GoesOn, Working
<1>8. ASSUME session'[s].pc \in Working, ~n.closed
      PROVE  journal'.rows[p].status # "UNKNOWN"
  <2>1. status = "SPENT"
    BY <1>7, <1>8
  <2>2. CASE Noted(s, status, d)
    <3>1. ~r.closed
      BY <2>2 DEF Noted
    <3> QED
      BY <1>1, <1>5, <2>1, <3>1
  <2>3. CASE UNCHANGED journal /\ journal.rows[p].status # "UNKNOWN"
    BY <2>3
  <2> QED
    BY <1>1, <1>3, <1>7, <1>8, <2>2, <2>3
<1>9. AtWork(s)'
  <2>1. session'[s].pc \in {n.pc, "over"}
    BY <1>2 DEF Took
  <2>2. session'[s].pc # "ready"
    BY <1>2, <2>1 DEF GoesOn, Working
  <2>3. journal'.rows[p] # NoRow
    BY <1>6 DEF NoRow, None
  <2>4. ASSUME session'[s].pc \in Working
        PROVE  /\ session'[s].pc \in {"attempt", "signed"} => custody[p] = "intent"
               /\ session'[s].pc = "attempt" => signed[o] = 0
               /\ session'[s].pc \in {"retained", "prepared", "calling", "submitting"}
                    => custody[p] = "signed"
    BY <1>0, <1>7, <2>4 DEF AtWork
  <2> QED
    BY <1>1, <1>5, <1>7, <1>8, <2>2, <2>3, <2>4 DEF AtWork
<1>10. \A t \in Sessions \ {s} : session'[t] = session[t]
  BY <1>2 DEF Took
<1> QED
  BY <1>4, <1>5, <1>6, <1>7, <1>9, <1>10, WorkStep

\* An outcome is noted, or the call has nothing more to say.
Outcome(s) ==
  /\ UNCHANGED <<custody, epoch, signed>>
  /\ \/ UNCHANGED journal /\ Becomes(s, Over)
     \/ /\ session[s].pc \in Working
        /\ \E status \in {"UNKNOWN", "SPENT"}, day \in Days,
              ok \in SessionRecord, bad \in SessionRecord :
             /\ Observes(s, status, day, ok, bad)
             /\ GoesOn(ok, session[s], status) /\ GoesOn(bad, session[s], "UNKNOWN")
             /\ status = "SPENT" => session[s].pc = "submitting"

LEMMA Outcomes ==
  ASSUME SpendingInv, NEW s \in Sessions, NEW d \in Days,
         \/ ChildFails(s, d)
         \/ Close(s, d)
         \/ \E bound \in BOOLEAN, again \in Days : SubmitAnswered(s, bound, d, again)
  PROVE  Outcome(s)
<1> DEFINE r == session[s]
<1>0. r \in SessionRecord
  BY DEF SpendingInv, TypeOK, SessionRecord
<1>1. ASSUME NEW n \in SessionRecord, GoesOn(n, r, "UNKNOWN"), NEW day \in Days,
             r.pc \in Working, Observes(s, "UNKNOWN", day, n, n),
             UNCHANGED <<custody, epoch, signed>>
      PROVE  Outcome(s)
  BY <1>1 DEF Outcome
<1>2. ASSUME NEW n, n = [r EXCEPT !.held = TRUE, !.pc = "over"]
               \/ n = [r EXCEPT !.pc = "over", !.held = TRUE]
      PROVE  n \in SessionRecord /\ n.pc = "over"
  <2>1. CASE n = [r EXCEPT !.held = TRUE, !.pc = "over"]
    <3>1. [r EXCEPT !.held = TRUE] \in SessionRecord
      BY <1>0 DEF SessionRecord
    <3> QED
      BY <2>1, <3>1 DEF SessionRecord
  <2>2. CASE n = [r EXCEPT !.pc = "over", !.held = TRUE]
    <3>1. [r EXCEPT !.pc = "over"] \in SessionRecord
      BY <1>0 DEF SessionRecord
    <3> QED
      BY <2>2, <3>1 DEF SessionRecord
  <2> QED
    BY <1>2, <2>1, <2>2
<1>3. CASE ChildFails(s, d)
  <2> DEFINE n == [r EXCEPT !.held = TRUE, !.pc = "over"]
  <2>1. /\ r.pc \in Working /\ UNCHANGED <<custody, epoch, signed>>
        /\ \/ UNCHANGED journal /\ Becomes(s, Over)
           \/ Observes(s, "UNKNOWN", d, n, n)
    BY <1>3 DEF ChildFails, Working
  <2>2. n \in SessionRecord /\ GoesOn(n, r, "UNKNOWN")
    BY <1>2 DEF GoesOn
  <2> HIDE DEF n
  <2> QED
    BY <1>1, <2>1, <2>2 DEF Outcome
<1>4. CASE Close(s, d)
  <2> DEFINE n == [r EXCEPT !.closed = TRUE, !.held = TRUE]
  <2>1. /\ UNCHANGED <<custody, epoch, signed>>
        /\ \/ UNCHANGED journal /\ Becomes(s, Over)
           \/ r.pc \in Working /\ Observes(s, "UNKNOWN", d, n, n)
    <3>1. r.pc \in {"ready", "preparing", "signed", "retained", "prepared",
                    "calling", "submitting", "failing", "over"}
      BY <1>0, <1>4 DEF Close, SessionRecord
    <3> QED
      BY <1>4, <3>1 DEF Close, Working
  <2>2. n \in SessionRecord /\ GoesOn(n, r, "UNKNOWN")
    <3>1. [r EXCEPT !.closed = TRUE] \in SessionRecord
      BY <1>0 DEF SessionRecord
    <3> QED
      BY <1>0, <3>1 DEF SessionRecord, GoesOn
  <2> HIDE DEF n
  <2> QED
    BY <1>1, <2>1, <2>2 DEF Outcome
<1>5. ASSUME NEW bound \in BOOLEAN, NEW again \in Days,
             SubmitAnswered(s, bound, d, again)
      PROVE  Outcome(s)
  <2> DEFINE lost == [r EXCEPT !.pc = "over", !.held = TRUE]
             ready == [r EXCEPT !.pc = "prepared"]
  <2>1. /\ r.pc = "submitting" /\ UNCHANGED <<custody, epoch, signed>>
        /\ \/ UNCHANGED journal /\ Becomes(s, Over)
           \/ Observes(s, "UNKNOWN", again, lost, lost)
           \/ bound /\ Observes(s, "SPENT", d, ready, lost)
           \/ ~bound /\ Observes(s, "UNKNOWN", d, lost, lost)
    BY <1>5 DEF SubmitAnswered, AfterUnbound
  <2>2. lost \in SessionRecord /\ GoesOn(lost, r, "UNKNOWN")
    BY <1>2 DEF GoesOn
  <2>3. MovedTo(ready, r, "prepared")
    BY <1>0, Moves
  <2>4. ready \in SessionRecord /\ GoesOn(ready, r, "SPENT")
    BY <2>1, <2>3 DEF MovedTo, GoesOn
  <2> HIDE DEF lost, ready
  <2>5. CASE Observes(s, "SPENT", d, ready, lost)
    BY <2>1, <2>2, <2>4, <2>5 DEF Outcome, Working
  <2> QED
    BY <1>1, <2>1, <2>2, <2>5 DEF Outcome, Working
<1> QED
  BY <1>3, <1>4, <1>5

LEMMA OutcomesKeepInv ==
  ASSUME SpendingInv, NEW s \in Sessions, Outcome(s)
  PROVE  SpendingInv'
<1>0. TypeOK /\ Over \in SessionRecord /\ Over.pc = "over"
  BY DownType DEF SpendingInv, Over, Down
<1>1. CASE UNCHANGED journal /\ Becomes(s, Over)
  <2>0. UNCHANGED <<custody, epoch, signed>>
    BY DEF Outcome
  <2>1. Took(s, Over)
    BY <1>0, <1>1, BecomesTakes
  <2>2. TypeOK'
    BY <1>0, <1>1, <2>0, <2>1, TypesKept DEF TypeOK
  <2>3. session'[s].pc = "over" /\ \A t \in Sessions \ {s} : session'[t] = session[t]
    BY <1>0, <2>1 DEF Took
  <2>4. \A t \in Sessions : session'[t].pc = "ready" => session'[t].payment \in Payments
    BY <2>3 DEF SpendingInv, AtWork
  <2> QED
    BY <1>1, <2>0, <2>2, <2>3, <2>4, IdleStep DEF Working
<1> QED
  BY <1>1, NotesKeepInv DEF Outcome

(* Sessions are opened, revoked, lost and superseded: nothing is stored.      *)
LEMMA SessionsKeepInv ==
  ASSUME SpendingInv,
         \/ Transfer
         \/ \E s \in Sessions : \/ \E p \in Payments : Open(s, p)
                                \/ Revoke(s) \/ Crash(s)
  PROVE  SpendingInv'
<1>0. TypeOK /\ journal \in Journal /\ session \in [Sessions -> SessionRecord]
  BY DEF SpendingInv, TypeOK, SessionRecord
<1>1. CASE Transfer
  <2>1. TypeOK'
    <3>1. epoch' \in 1 .. MaxEpoch
      BY <1>0, <1>1, Policy DEF Transfer, TypeOK
    <3>2. UNCHANGED <<journal, custody, session, signed>>
      BY <1>1 DEF Transfer
    <3> QED
      BY <1>0, <3>1, <3>2 DEF TypeOK
  <2> QED
    BY <1>1, <2>1, IdleStep DEF Transfer, SpendingInv, AtWork
<1>2. ASSUME NEW s \in Sessions, NEW n \in SessionRecord, Took(s, n),
             UNCHANGED <<journal, custody, epoch, signed>>,
             \/ n.pc = "down"
             \/ n.pc = "ready" /\ n.payment \in Payments
             \/ /\ n.pc = session[s].pc /\ n.payment = session[s].payment
                /\ n.original = session[s].original /\ n.closed = session[s].closed
      PROVE  SpendingInv'
  <2>1. TypeOK'
    BY <1>0, <1>2, TypesKept DEF TypeOK
  <2>2. ASSUME NEW t \in Sessions
        PROVE  /\ session'[t].pc = "ready" => session'[t].payment \in Payments
               /\ session'[t].pc \in Working =>
                    /\ session'[t].pc = session[t].pc
                    /\ session'[t].payment = session[t].payment
                    /\ session'[t].original = session[t].original
                    /\ session[t].closed => session'[t].closed
    BY <1>2 DEF Took, SpendingInv, AtWork, Working
  <2> QED
    BY <1>2, <2>1, <2>2, IdleStep
<1>3. ASSUME NEW s \in Sessions, NEW p \in Payments, Open(s, p)
      PROVE  SpendingInv'
  <2> DEFINE n == [Down EXCEPT !.pc = "ready", !.mem = journal,
                               !.epoch = epoch, !.payment = p]
  <2>1. n \in SessionRecord /\ n.pc = "ready" /\ n.payment = p
    <3>1. epoch \in 0 .. MaxEpoch
      BY <1>0, Policy DEF TypeOK
    <3> QED
      BY <1>0, <3>1, DownType DEF SessionRecord, Down
  <2>2. Becomes(s, n) /\ UNCHANGED <<journal, custody, epoch, signed>>
    BY <1>3 DEF Open
  <2> HIDE DEF n
  <2> QED
    BY <1>0, <1>2, <2>1, <2>2, BecomesTakes
<1>4. ASSUME NEW s \in Sessions, Revoke(s) PROVE SpendingInv'
  <2> DEFINE n == [session[s] EXCEPT !.stuck = TRUE]
  <2>1. /\ n \in SessionRecord
        /\ n.pc = session[s].pc /\ n.payment = session[s].payment
        /\ n.original = session[s].original /\ n.closed = session[s].closed
    <3>1. PICK r \in SessionRecord : r = session[s]
      BY <1>0
    <3>2. /\ [r EXCEPT !.stuck = TRUE] \in SessionRecord
          /\ [r EXCEPT !.stuck = TRUE].pc = r.pc
          /\ [r EXCEPT !.stuck = TRUE].payment = r.payment
          /\ [r EXCEPT !.stuck = TRUE].original = r.original
          /\ [r EXCEPT !.stuck = TRUE].closed = r.closed
      BY DEF SessionRecord
    <3> QED
      BY <3>1, <3>2
  <2>2. Becomes(s, n) /\ UNCHANGED <<journal, custody, epoch, signed>>
    BY <1>4 DEF Revoke
  <2> HIDE DEF n
  <2> QED
    BY <1>0, <1>2, <2>1, <2>2, BecomesTakes
<1>5. ASSUME NEW s \in Sessions, Crash(s) PROVE SpendingInv'
  <2>1. Down \in SessionRecord /\ Down.pc = "down"
    BY DownType DEF Down
  <2> QED
    BY <1>0, <1>2, <1>5, <2>1, BecomesTakes DEF Crash
<1> QED
  BY <1>1, <1>3, <1>4, <1>5

LEMMA StepSpendingInv ==
  ASSUME SpendingInv, [Next]_vars
  PROVE  SpendingInv'
<1>1. CASE UNCHANGED vars
  BY <1>1, IdleStep DEF vars, SpendingInv, TypeOK, AtWork
<1>2. CASE Next
  BY <1>2, ReserveKeepsInv, CallsKeepInv, Outcomes, OutcomesKeepInv,
     SessionsKeepInv DEF Next
<1> QED
  BY <1>1, <1>2

(* The invariant of the spending journal, its custody and all its sessions.   *)
THEOREM SpendingInvHolds == Spec => []SpendingInv
BY InitSpendingInv, StepSpendingInv, PTL DEF Spec

-----------------------------------------------------------------------------
(* The theorems. *)

(* The variables have their types, whatever the policy.                       *)
THEOREM TypeCorrect == Spec => []TypeOK
<1>1. SpendingInv => TypeOK
  BY DEF SpendingInv
<1> QED
  BY <1>1, SpendingInvHolds, PTL

(* Every store the sessions leave behind opens again: its rows decode under   *)
(* the policy, every intent and signature has its row, and what is settled    *)
(* was signed.                                                                *)
THEOREM StoreStaysReadable == Spec => []Valid(journal)
<1>1. SpendingInv => Valid(journal)
  BY DEF SpendingInv, RowsInv, Valid
<1> QED
  BY <1>1, SpendingInvHolds, PTL

(* No original is signed twice, what is signed is on record, and a caller     *)
(* that has its preparation has a stored signature.                           *)
THEOREM SignedOnceHolds == Spec => []SignedOnce
<1>1. SpendingInv => SignedOnce
  BY DEF SpendingInv, SignedInv, AtWork, Working, SignedOnce
<1> QED
  BY <1>1, SpendingInvHolds, PTL

\* A session reserves on the journal as it is stored, and sets to work or does
\* not hear of it.
Reserves(s) ==
  \E o \in Originals, d \in Days :
    /\ session[s].pc = "ready" /\ session[s].payment \in Payments
    /\ journal.rows[session[s].payment] = NoRow
    /\ journal' = ReservedIn(journal, session[s].payment, o, d)
    /\ s \in SingleLane => InTheWay(journal) = {}

\* What a step may do to the journal, and which session may set to work.
JournalStep ==
  /\ \/ UNCHANGED journal
     \/ \E s \in Sessions : Reserves(s)
     \/ \E s \in Sessions, status \in {"UNKNOWN", "SPENT"}, d \in Days :
          /\ session[s].pc \in Working /\ Noted(s, status, d)
          /\ status = "SPENT" => session[s].pc = "submitting"
  /\ \A s \in Sessions : session'[s].pc = "preparing" =>
       session[s].pc = "preparing" \/ Reserves(s)

LEMMA ReserveIsJournalStep ==
  ASSUME SpendingInv, NEW s \in Sessions, NEW o \in Originals, NEW d \in Days,
         Reserve(s, o, d)
  PROVE  JournalStep
<1> DEFINE r == session[s]
           next == ReservedIn(r.mem, r.payment, o, d)
           held == [r EXCEPT !.journalHeld = TRUE, !.held = s \in SingleLane]
           lost == [held EXCEPT !.stuck = TRUE]
<1>0. /\ session \in [Sessions -> SessionRecord] /\ r \in SessionRecord
      /\ r.pc = "ready" /\ r.payment \in Payments
  BY DEF SpendingInv, TypeOK, SessionRecord, AtWork, Reserve
<1>1. \/ /\ UNCHANGED journal /\ (Becomes(s, held) \/ Becomes(s, lost))
      \/ /\ Admits(r.mem, r.payment, o, d) /\ ExchangedBy(s, next)
         /\ s \in SingleLane => InTheWay(r.mem) = {}
  BY DEF Reserve, ConflictFor, UnknownTo
<1>2. \A t \in Sessions \ {s} : session'[t] = session[t]
  BY <1>0 DEF Reserve, Becomes
<1>3. CASE UNCHANGED journal /\ (Becomes(s, held) \/ Becomes(s, lost))
  <2>1. /\ held \in SessionRecord /\ held.pc = "ready"
        /\ lost \in SessionRecord /\ lost.pc = "ready"
    BY <1>0, HeldShape
  <2>2. session'[s] \in {Forgotten(held), Forgotten(lost)}
    BY <1>0, <1>3 DEF Becomes
  <2> HIDE DEF held, lost
  <2>4. session'[s].pc # "preparing"
    BY <2>1, <2>2, ForgottenShape
  <2> QED
    BY <1>2, <1>3, <2>4 DEF JournalStep
<1>4. CASE /\ Admits(r.mem, r.payment, o, d) /\ ExchangedBy(s, next)
           /\ s \in SingleLane => InTheWay(r.mem) = {}
  <2>1. Reserves(s)
    BY <1>0, <1>4 DEF Admits, ExchangedBy, Reserves
  <2> QED
    BY <1>2, <2>1 DEF JournalStep
<1> QED
  BY <1>1, <1>3, <1>4

LEMMA StepIsJournalStep ==
  ASSUME SpendingInv, [Next]_vars
  PROVE  JournalStep
<1>0. /\ TypeOK /\ session \in [Sessions -> SessionRecord]
      /\ Over \in SessionRecord /\ Over.pc = "over" /\ Down.pc = "down"
      /\ Down \in SessionRecord
  BY DownType DEF SpendingInv, TypeOK, SessionRecord, Over, Down
<1>1. ASSUME NEW s \in Sessions, NEW n \in SessionRecord, UNCHANGED journal,
             Becomes(s, n), n.pc # "preparing" \/ session[s].pc = "preparing"
      PROVE  JournalStep
  <2>1. Took(s, n)
    BY <1>0, <1>1, BecomesTakes
  <2> QED
    BY <1>1, <2>1 DEF JournalStep, Took
<1>2. ASSUME NEW s \in Sessions, NEW n, NEW pc, UNCHANGED journal,
             Becomes(s, n), MovedTo(n, session[s], pc), pc # "preparing"
      PROVE  JournalStep
  BY <1>1, <1>2 DEF MovedTo
<1>3. ASSUME NEW s \in Sessions, Outcome(s)
      PROVE  JournalStep
  <2>1. CASE UNCHANGED journal /\ Becomes(s, Over)
    BY <1>0, <1>1, <2>1
  <2>2. CASE ~(UNCHANGED journal /\ Becomes(s, Over))
    <3>1. PICK status \in {"UNKNOWN", "SPENT"}, day \in Days,
               ok \in SessionRecord, bad \in SessionRecord :
            /\ session[s].pc \in Working
            /\ Observes(s, status, day, ok, bad)
            /\ GoesOn(ok, session[s], status) /\ GoesOn(bad, session[s], "UNKNOWN")
            /\ status = "SPENT" => session[s].pc = "submitting"
      BY <1>3, <2>2 DEF Outcome
    <3>2. /\ UNCHANGED journal \/ Noted(s, status, day)
          /\ \E n \in SessionRecord : Took(s, n) /\ n.pc \in {ok.pc, bad.pc}
      BY <1>0, <3>1, ObservesEffect
    <3>3. session'[s].pc = "preparing" => session[s].pc = "preparing"
      BY <3>1, <3>2 DEF Took, GoesOn
    <3>4. \A t \in Sessions \ {s} : session'[t] = session[t]
      BY <3>2 DEF Took
    <3> QED
      BY <3>1, <3>2, <3>3, <3>4 DEF JournalStep
  <2> QED
    BY <2>1, <2>2
<1>4. CASE UNCHANGED vars \/ Transfer
  BY <1>4 DEF vars, Transfer, JournalStep
<1>5. ASSUME NEW s \in Sessions, NEW p \in Payments, Open(s, p)
      PROVE  JournalStep
  <2> DEFINE n == [Down EXCEPT !.pc = "ready", !.mem = journal,
                               !.epoch = epoch, !.payment = p]
  <2>1. n \in SessionRecord /\ n.pc = "ready"
    <3>1. epoch \in 0 .. MaxEpoch /\ journal \in Journal
      BY <1>0, Policy DEF TypeOK
    <3> QED
      BY <1>0, <3>1, DownType DEF SessionRecord, Down
  <2>2. Becomes(s, n) /\ UNCHANGED journal
    BY <1>5 DEF Open
  <2> HIDE DEF n
  <2> QED
    BY <1>1, <2>1, <2>2
<1>6. ASSUME NEW s \in Sessions,
             Attempt(s) \/ Sign(s) \/ SignRefused(s) \/ Retain(s) \/ Answers(s) \/ Call(s)
      PROVE  JournalStep
  <2> DEFINE r == session[s]
  <2>0. r \in SessionRecord /\ r.stuck \in BOOLEAN
    BY <1>0 DEF SessionRecord
  <2>1. UNCHANGED journal
    BY <1>6 DEF Attempt, Sign, SignRefused, Retain, Answers, Call
  <2>2. \/ Becomes(s, Over)
        \/ \E pc \in {"attempt", "signed", "retained", "prepared", "calling",
                      "submitting", "failing"} :
             \/ Becomes(s, [r EXCEPT !.pc = pc])
             \/ \E b \in BOOLEAN : Becomes(s, [r EXCEPT !.pc = pc, !.stuck = b])
    <3>1. CASE Attempt(s)
      BY <3>1 DEF Attempt
    <3>2. CASE Sign(s)
      BY <3>2 DEF Sign
    <3>3. CASE SignRefused(s)
      BY <2>0, <3>3 DEF SignRefused
    <3>4. CASE Retain(s)
      BY <3>4 DEF Retain
    <3>5. CASE Answers(s)
      BY <3>5 DEF Answers
    <3>6. CASE Call(s)
      BY <3>6 DEF Call
    <3> QED
      BY <1>6, <3>1, <3>2, <3>3, <3>4, <3>5, <3>6
  <2> QED
    BY <1>0, <1>1, <1>2, <2>0, <2>1, <2>2, Moves
<1>7. ASSUME NEW s \in Sessions, Revoke(s)
      PROVE  JournalStep
  <2> DEFINE n == [session[s] EXCEPT !.stuck = TRUE]
  <2>1. n \in SessionRecord /\ n.pc = session[s].pc
    BY <1>0 DEF SessionRecord
  <2>2. Becomes(s, n) /\ UNCHANGED journal
    BY <1>7 DEF Revoke
  <2> HIDE DEF n
  <2> QED
    BY <1>1, <2>1, <2>2
<1>8. ASSUME NEW s \in Sessions, Crash(s) PROVE JournalStep
  BY <1>0, <1>1, <1>8 DEF Crash
<1> QED
  BY <1>3, <1>4, <1>5, <1>6, <1>7, <1>8, ReserveIsJournalStep, Outcomes DEF Next

(* A row only ever appears, leaves RESERVED once, and is then final; only a    *)
(* session in its funding POST that was not closed settles a payment.         *)
THEOREM HistoryKeptHolds == Spec => HistoryKept
<1>1. ASSUME SpendingInv, JournalStep, NEW p \in Payments
      PROVE  RowIsKept(p)
  <2>0. TypeOK /\ journal.rows \in [Payments -> Row] /\ journal.rows[p] \in Row
    BY <1>1 DEF SpendingInv, TypeOK, Journal
  <2>1. CASE journal'.rows[p] = journal.rows[p]
    BY <2>1 DEF RowIsKept, NoRow, None
  <2>2. CASE journal'.rows[p] # journal.rows[p]
    <3>1. CASE \E s \in Sessions : Reserves(s)
      <4>1. PICK s \in Sessions, o \in Originals, d \in Days :
              /\ session[s].payment \in Payments
              /\ journal.rows[session[s].payment] = NoRow
              /\ journal' = ReservedIn(journal, session[s].payment, o, d)
        BY <3>1 DEF Reserves
      <4>2. journal'.rows = [journal.rows EXCEPT ![session[s].payment] = NewRow(o, d)]
        BY <4>1 DEF ReservedIn, WithRow
      <4> QED
        BY <2>0, <2>2, <4>1, <4>2 DEF RowIsKept, NewRow, NoRow, None
    <3>2. ASSUME NEW s \in Sessions, NEW status \in {"UNKNOWN", "SPENT"}, NEW d \in Days,
                 session[s].pc \in Working, Noted(s, status, d),
                 status = "SPENT" => session[s].pc = "submitting"
          PROVE  RowIsKept(p)
      <4>1. /\ session[s].payment \in Payments /\ ~session[s].closed
            /\ journal.rows[session[s].payment] # NoRow
            /\ journal.rows[session[s].payment].status # "UNKNOWN"
        BY <1>1, <3>2 DEF SpendingInv, AtWork, Noted
      <4>2. /\ p = session[s].payment
            /\ journal'.rows[p].original = journal.rows[p].original
            /\ journal.rows[p].status # "SPENT" /\ journal'.rows[p].status = status
        BY <2>0, <2>2, <3>2, <4>1, NotedRows
      <4> QED
        BY <3>2, <4>1, <4>2 DEF RowIsKept, NoRow, None
    <3> QED
      BY <1>1, <2>2, <3>1, <3>2 DEF JournalStep
  <2> QED
    BY <2>1, <2>2
<1>2. SpendingInv /\ [Next]_vars => [\A p \in Payments : RowIsKept(p)]_vars
  BY <1>1, StepIsJournalStep
<1> QED
  BY <1>2, SpendingInvHolds, PTL DEF Spec, HistoryKept

(* In the single lane a payment is reserved only while nothing else of the    *)
(* account is unresolved in the store.                                        *)
THEOREM LaneAdmitsAloneHolds == Spec => LaneAdmitsAlone
<1>1. SpendingInv /\ [Next]_vars =>
        [\A s \in SingleLane :
           (session[s].pc = "ready" /\ session'[s].pc = "preparing") =>
             Unresolved(journal.rows) = {}]_vars
  BY StepIsJournalStep, SpendingAssumption DEF JournalStep, Reserves, InTheWay
<1> QED
  BY <1>1, SpendingInvHolds, PTL DEF Spec, LaneAdmitsAlone

-----------------------------------------------------------------------------
(* Sums.  A sum over a finite set is a measure of its subsets: adding one    *)
(* element adds its weight, whatever the order in which the fold takes them. *)
(* Induction over finite sets is had from the smallest set of a family.      *)

LEMMA LeastNumber ==
  ASSUME NEW N, N \subseteq Nat, N # {}
  PROVE  \E x \in N : \A y \in N : x <= y
<1> DEFINE R == {ss \in Nat \X Nat : ss[1] < ss[2]}
<1>1. IsWellFoundedOn(R, Nat)
  BY NatLessThanWellFounded, Zenon DEF OpToRel
<1>2. PICK x \in N : \A y \in N : ~ (<<y, x>> \in R)
  <2> HIDE DEF R
  <2> QED
    BY <1>1, WFMin
<1>3. ASSUME NEW y \in N
      PROVE  x <= y
  <2>1. x \in Nat /\ y \in Nat /\ <<y, x>> \in Nat \X Nat
    OBVIOUS
  <2>2. <<y, x>>[1] = y /\ <<y, x>>[2] = x
    OBVIOUS
  <2>3. ~ (y < x)
    BY <1>2, <2>1, <2>2
  <2> QED
    BY <2>1, <2>3
<1> QED
  BY <1>3

LEMMA SmallestSet ==
  ASSUME NEW S, IsFiniteSet(S), NEW F, F \subseteq SUBSET S, F # {}
  PROVE  \E T \in F : /\ IsFiniteSet(T)
                      /\ \A x \in T : T \ {x} \notin F
<1>1. \A T \in F : IsFiniteSet(T) /\ Cardinality(T) \in Nat
  BY FS_Subset, FS_CardinalityType
<1> DEFINE N == {Cardinality(T) : T \in F}
<1>2. N \subseteq Nat /\ N # {}
  BY <1>1
<1>3. PICK n \in N : \A k \in N : n <= k
  <2> HIDE DEF N
  <2> QED
    BY <1>2, LeastNumber
<1>4. PICK T \in F : Cardinality(T) = n
  OBVIOUS
<1>5. ASSUME NEW x \in T, T \ {x} \in F
      PROVE  FALSE
  <2>1. Cardinality(T \ {x}) = Cardinality(T) - 1
    BY <1>1, FS_RemoveElement
  <2>2. Cardinality(T \ {x}) \in N
    BY <1>5
  <2>3. n <= Cardinality(T \ {x}) /\ n \in Nat
    <3> HIDE DEF N
    <3> QED
      BY <1>2, <1>3, <2>2
  <2> QED
    BY <1>4, <2>1, <2>3
<1> QED
  BY <1>1, <1>5

\* Every set of a family that has the empty set and grows by single elements.
LEMMA SubsetsGrow ==
  ASSUME NEW S, IsFiniteSet(S), NEW G, {} \in G,
         \A T \in SUBSET S : \A x \in S \ T : T \in G => T \cup {x} \in G
  PROVE  SUBSET S \subseteq G
<1> DEFINE F == (SUBSET S) \ G
<1>1. SUFFICES ASSUME F # {} PROVE FALSE
  OBVIOUS
<1>2. F \subseteq SUBSET S
  OBVIOUS
<1>3. PICK T \in F : \A x \in T : T \ {x} \notin F
  <2> HIDE DEF F
  <2> QED
    BY <1>1, <1>2, SmallestSet
<1>4. PICK x \in T : TRUE
  OBVIOUS
<1>5. T \ {x} \in G /\ T \ {x} \in SUBSET S /\ x \in S \ (T \ {x})
  BY <1>3, <1>4
<1>6. (T \ {x}) \cup {x} = T
  BY <1>4
<1> QED
  BY <1>5, <1>6

Measure(m, S, w) ==
  /\ m \in [SUBSET S -> Nat]
  /\ m[{}] = 0
  /\ \A T \in SUBSET S : \A x \in S \ T : m[T \cup {x}] = m[T] + w[x]

LEMMA MeasureGrows ==
  ASSUME NEW S, NEW w, \A y \in S : w[y] \in Nat,
         NEW T \in SUBSET S, NEW x \in S \ T, NEW m, Measure(m, T, w)
  PROVE  \E k : Measure(k, T \cup {x}, w)
<1> DEFINE k == [U \in SUBSET (T \cup {x}) |->
                   IF x \in U THEN m[U \ {x}] + w[x] ELSE m[U]]
<1>1. ASSUME NEW U \in SUBSET (T \cup {x})
      PROVE  /\ x \in U => U \ {x} \in SUBSET T /\ k[U] = m[U \ {x}] + w[x]
             /\ x \notin U => U \in SUBSET T /\ k[U] = m[U]
             /\ k[U] \in Nat
  <2>1. CASE x \in U
    BY <2>1 DEF Measure
  <2>2. CASE x \notin U
    BY <2>2 DEF Measure
  <2> QED
    BY <2>1, <2>2
<1>2. k \in [SUBSET (T \cup {x}) -> Nat]
  BY <1>1
<1>3. k[{}] = 0
  BY <1>1 DEF Measure
<1> HIDE DEF k
<1>4. ASSUME NEW U \in SUBSET (T \cup {x}), NEW y \in (T \cup {x}) \ U
      PROVE  k[U \cup {y}] = k[U] + w[y]
  <2>1. U \cup {y} \in SUBSET (T \cup {x})
    OBVIOUS
  <2>2. CASE y = x
    <3>1. (U \cup {y}) \ {x} = U /\ x \in U \cup {y} /\ x \notin U
      BY <1>4, <2>2
    <3> QED
      BY <1>1, <2>1, <2>2, <3>1
  <2>3. CASE y # x /\ x \in U
    <3>1. /\ (U \cup {y}) \ {x} = (U \ {x}) \cup {y} /\ x \in U \cup {y}
          /\ U \ {x} \in SUBSET T /\ y \in T \ (U \ {x})
      BY <1>4, <2>3
    <3>2. m[(U \ {x}) \cup {y}] = m[U \ {x}] + w[y] /\ m[U \ {x}] \in Nat
      BY <3>1 DEF Measure
    <3>3. k[U \cup {y}] = m[(U \ {x}) \cup {y}] + w[x] /\ k[U] = m[U \ {x}] + w[x]
      BY <1>1, <2>1, <2>3, <3>1
    <3>4. m[(U \ {x}) \cup {y}] \in Nat
      BY <3>1 DEF Measure
    <3>5. w[x] \in Nat /\ w[y] \in Nat /\ m[U \ {x}] \in Nat
      BY <3>1, <3>2
    <3> QED
      BY <3>2, <3>3, <3>4, <3>5
  <2>4. CASE y # x /\ x \notin U
    <3>1. x \notin U \cup {y} /\ U \in SUBSET T /\ y \in T \ U
      BY <1>4, <2>4
    <3>2. m[U \cup {y}] = m[U] + w[y]
      BY <3>1 DEF Measure
    <3> QED
      BY <1>1, <2>1, <3>1, <3>2
  <2> QED
    BY <2>2, <2>3, <2>4
<1>5. Measure(k, T \cup {x}, w)
  BY <1>2, <1>3, <1>4, Zenon DEF Measure
<1> QED
  BY <1>5

LEMMA MeasureExists ==
  ASSUME NEW S, IsFiniteSet(S), NEW w, \A x \in S : w[x] \in Nat
  PROVE  \E m : Measure(m, S, w)
<1> DEFINE G == {T \in SUBSET S : \E m : Measure(m, T, w)}
<1>1. {} \in G
  <2>1. Measure([U \in SUBSET {} |-> 0], {}, w)
    BY DEF Measure
  <2> QED
    BY <2>1
<1>2. ASSUME NEW T \in SUBSET S, NEW x \in S \ T, T \in G
      PROVE  T \cup {x} \in G
  BY <1>2, MeasureGrows
<1> HIDE DEF G
<1>3. S \in G
  BY <1>1, <1>2, SubsetsGrow
<1> QED
  BY <1>3 DEF G

LEMMA MeasureMonotone ==
  ASSUME NEW S, IsFiniteSet(S), NEW w, \A x \in S : w[x] \in Nat,
         NEW m, Measure(m, S, w), NEW A, NEW B, A \subseteq B, B \subseteq S
  PROVE  m[A] \in Nat /\ m[B] \in Nat /\ m[A] <= m[B]
<1> DEFINE G == {T \in SUBSET S : \A U \in SUBSET T : m[U] <= m[T]}
<1>1. {} \in G
  <2>1. m[{}] = 0 /\ \A U \in SUBSET {} : U = {}
    BY DEF Measure
  <2> QED
    BY <2>1
<1>2. ASSUME NEW T \in SUBSET S, NEW x \in S \ T, T \in G
      PROVE  T \cup {x} \in G
  <2>1. m[T \cup {x}] = m[T] + w[x] /\ m[T] \in Nat /\ w[x] \in Nat
    BY DEF Measure
  <2>2. ASSUME NEW U \in SUBSET (T \cup {x})
        PROVE  m[U] <= m[T \cup {x}]
    <3>1. CASE x \in U
      <4>1. U \ {x} \in SUBSET T /\ (U \ {x}) \cup {x} = U /\ x \in S \ (U \ {x})
        BY <3>1
      <4>2. m[U] = m[U \ {x}] + w[x] /\ m[U \ {x}] \in Nat
        <5>1. m[(U \ {x}) \cup {x}] = m[U \ {x}] + w[x] /\ m[U \ {x}] \in Nat
          BY <4>1 DEF Measure
        <5> QED
          BY <4>1, <5>1
      <4>3. m[U \ {x}] <= m[T]
        BY <1>2, <4>1
      <4> QED
        BY <2>1, <4>2, <4>3
    <3>2. CASE x \notin U
      <4>1. U \in SUBSET T /\ m[U] \in Nat
        BY <3>2 DEF Measure
      <4>2. m[U] <= m[T]
        BY <1>2, <4>1
      <4> QED
        BY <2>1, <4>1, <4>2
    <3> QED
      BY <3>1, <3>2
  <2> QED
    BY <2>2
<1> HIDE DEF G
<1>3. B \in G
  BY <1>1, <1>2, SubsetsGrow
<1> QED
  BY <1>3 DEF G, Measure

\* The fold takes the elements in an order of its own, and arrives there too.
FoldsOver(it, T, w) ==
  /\ it[{}] = 0
  /\ \A s \in SUBSET T : s # {} => \E x \in s : it[s] = w[x] + it[s \ {x}]

LEMMA FoldMeasures ==
  ASSUME NEW S, IsFiniteSet(S), NEW w, \A x \in S : w[x] \in Nat,
         NEW m, Measure(m, S, w), NEW T \in SUBSET S,
         NEW it, FoldsOver(it, T, w)
  PROVE  it[T] = m[T]
<1> DEFINE F == {U \in SUBSET T : it[U] # m[U]}
<1>1. SUFFICES ASSUME F # {} PROVE FALSE
  OBVIOUS
<1>2. IsFiniteSet(T) /\ F \subseteq SUBSET T
  BY FS_Subset
<1>3. PICK U \in F : \A x \in U : U \ {x} \notin F
  <2> HIDE DEF F
  <2> QED
    BY <1>1, <1>2, SmallestSet
<1>4. m[{}] = 0 /\ it[{}] = 0
  BY DEF Measure, FoldsOver
<1>5. U # {} /\ U \in SUBSET T
  BY <1>4
<1>7. PICK x : x \in U /\ it[U] = w[x] + it[U \ {x}]
  BY <1>5 DEF FoldsOver
<1>9. it[U \ {x}] = m[U \ {x}]
  BY <1>3, <1>5, <1>7
<1>10. U \ {x} \in SUBSET S /\ x \in S \ (U \ {x}) /\ (U \ {x}) \cup {x} = U
  BY <1>5, <1>7
<1>11. m[(U \ {x}) \cup {x}] = m[U \ {x}] + w[x]
  BY <1>10 DEF Measure
<1>12. m[U \ {x}] \in Nat /\ w[x] \in Nat
  BY <1>10 DEF Measure
<1>13. m[U] = m[U \ {x}] + w[x]
  BY <1>10, <1>11, Zenon
<1>14. it[U] = w[x] + m[U \ {x}]
  BY <1>7, <1>9, Zenon
<1>15. it[U] = m[U]
  BY <1>12, <1>13, <1>14
<1> QED
  BY <1>3, <1>15

LEMMA SumMeasured ==
  ASSUME NEW S, IsFiniteSet(S), NEW w, \A x \in S : w[x] \in Nat,
         NEW m, Measure(m, S, w), NEW T \in SUBSET S,
         NEW f, \A x \in T : f[x] = w[x]
  PROVE  SumOver(f, T) = m[T]
<1> DEFINE Fold(it) ==
      it = [s \in SUBSET T |-> IF s = {} THEN 0
              ELSE f[CHOOSE x \in s : TRUE] + it[s \ {CHOOSE x \in s : TRUE}]]
           e == CHOOSE it : Fold(it)
           k == [s \in SUBSET T |-> m[s]]
<1>1. SumOver(f, T) = e[T]
  BY Zenon DEF SumOver, MapThenSumSet, MapThenFoldSet
<1>2. ASSUME NEW s \in SUBSET T, NEW x \in s
      PROVE  /\ s \ {x} \in SUBSET T
             /\ w[x] = f[x]
             /\ m[s] = w[x] + m[s \ {x}]
  <2>1. s \ {x} \in SUBSET T /\ s \ {x} \in SUBSET S /\ x \in S \ (s \ {x})
    OBVIOUS
  <2>2. (s \ {x}) \cup {x} = s
    BY <2>1
  <2>3. m[(s \ {x}) \cup {x}] = m[s \ {x}] + w[x] /\ m[s \ {x}] \in Nat /\ w[x] \in Nat
    BY <2>1 DEF Measure
  <2>4. m[s] = m[s \ {x}] + w[x]
    BY <2>2, <2>3, Zenon
  <2>5. m[s] = w[x] + m[s \ {x}]
    BY <2>3, <2>4
  <2> QED
    BY <2>1, <2>5
<1>3. Fold(k)
  <2>1. ASSUME NEW s \in SUBSET T
        PROVE  m[s] = IF s = {} THEN 0
                 ELSE f[CHOOSE x \in s : TRUE] + k[s \ {CHOOSE x \in s : TRUE}]
    <3>1. CASE s = {}
      BY <3>1 DEF Measure
    <3>2. CASE s # {}
      <4>1. PICK x : x = CHOOSE y \in s : TRUE
        OBVIOUS
      <4>2. x \in s
        BY <3>2, <4>1
      <4>3. /\ s \ {x} \in SUBSET T
            /\ w[x] = f[x]
            /\ m[s] = w[x] + m[s \ {x}]
        BY <1>2, <4>2
      <4>4. k[s \ {x}] = m[s \ {x}]
        BY <4>3
      <4>5. m[s] = f[x] + k[s \ {x}]
        BY <4>3, <4>4, Zenon
      <4> QED
        BY <3>2, <4>1, <4>5, Zenon
    <3> QED
      BY <3>1, <3>2
  <2> QED
    BY <2>1, Zenon
<1>4. Fold(e)
  <2> HIDE DEF Fold, k
  <2> QED
    BY <1>3, Zenon
<1> HIDE DEF e
<1>5. e[{}] = 0
  BY <1>4, Zenon
<1>6. ASSUME NEW s \in SUBSET T, s # {}
      PROVE  \E x \in s : e[s] = w[x] + e[s \ {x}]
  <2>1. PICK x : x = CHOOSE y \in s : TRUE
    OBVIOUS
  <2>2. x \in s
    BY <1>6, <2>1
  <2>3. w[x] = f[x]
    BY <1>2, <2>2
  <2>4. e[s] = f[x] + e[s \ {x}]
    BY <1>4, <1>6, <2>1, Zenon
  <2>5. e[s] = w[x] + e[s \ {x}]
    BY <2>3, <2>4, Zenon
  <2> QED
    BY <2>2, <2>5
<1>7. FoldsOver(e, T, w)
  BY <1>5, <1>6 DEF FoldsOver
<1>8. e[T] = m[T]
  BY <1>7, FoldMeasures
<1> QED
  BY <1>1, <1>8

-----------------------------------------------------------------------------
(* What a state of the journal amounts to.                                  *)

\* What each payment of S pays.
Pays(rows, S) == [p \in S |-> Amount[rows[p].original]]

LEMMA ValueMeasured ==
  ASSUME NEW S, IsFiniteSet(S), NEW rows, \A p \in S : Amount[rows[p].original] \in Nat,
         NEW w, w = Pays(rows, S), NEW m, Measure(m, S, w), NEW T \in SUBSET S
  PROVE  Value(rows, T) = m[T]
<1>1. \A p \in S : w[p] \in Nat
  BY DEF Pays
<1>2. PICK f : f = [p \in T |-> Amount[rows[p].original]]
  OBVIOUS
<1>3. \A p \in T : f[p] = w[p]
  BY <1>2 DEF Pays
<1>4. SumOver(f, T) = m[T]
  BY <1>1, <1>3, SumMeasured
<1> QED
  BY <1>2, <1>4 DEF Value

LEMMA ValueMonotone ==
  ASSUME NEW S, IsFiniteSet(S), NEW rows, \A p \in S : Amount[rows[p].original] \in Nat,
         NEW A, A \subseteq S
  PROVE  Value(rows, A) \in Nat /\ Value(rows, S) \in Nat /\ Value(rows, A) <= Value(rows, S)
<1>1. PICK w : w = Pays(rows, S)
  OBVIOUS
<1>2. \A p \in S : w[p] \in Nat
  BY <1>1 DEF Pays
<1>3. PICK m : Measure(m, S, w)
  BY <1>2, MeasureExists
<1>4. Value(rows, A) = m[A] /\ Value(rows, S) = m[S]
  BY <1>1, <1>3, ValueMeasured
<1> QED
  BY <1>2, <1>3, <1>4, MeasureMonotone

LEMMA ValueAgrees ==
  ASSUME NEW S, NEW rows, NEW other, \A p \in S : other[p].original = rows[p].original
  PROVE  Value(other, S) = Value(rows, S)
<1>1. [p \in S |-> Amount[other[p].original]] = [p \in S |-> Amount[rows[p].original]]
  OBVIOUS
<1> QED
  BY <1>1 DEF Value

-----------------------------------------------------------------------------
(* What the reader of the journal accepts.                                   *)

\* A journal that was read, and whose rows are what the program writes.
JournalSound(j) ==
  /\ j \in Journal /\ Decodes(j)
  /\ \A p \in Reserved(j.rows) :
       /\ j.rows[p].status # None /\ j.rows[p].original \in Originals
       /\ j.rows[p].reservedDay \in Days

\* One row of it: its day, its settlement, and what no other row has.
RowSound(j, p) ==
  /\ j.rows[p].original \in Originals
  /\ Amount[j.rows[p].original] \in Nat
  /\ Amount[j.rows[p].original] <= MaxPayment
  /\ j.rows[p].reservedDay \in Days
  /\ j.rows[p].reservedDay <= j.lastDay
  /\ IF j.rows[p].status = "SPENT"
     THEN j.rows[p].spentDay \in j.rows[p].reservedDay .. j.lastDay
     ELSE j.rows[p].spentDay = NoDay
  /\ \A q \in Reserved(j.rows) \ {p} : j.rows[q].original # j.rows[p].original

\* The sets that Daily and Peak add up.
CountedOn(rows, d) ==
  Unresolved(rows) \cup {p \in Reserved(rows) : rows[p].spentDay = d}
OpenOn(rows, d) ==
  {p \in Reserved(rows) : /\ rows[p].reservedDay <= d
                          /\ rows[p].spentDay = NoDay \/ d <= rows[p].spentDay}

LEMMA SoundJournal ==
  ASSUME NEW j, JournalSound(j)
  PROVE  /\ j.revision \in Nat /\ j.lastDay \in Nat
         /\ j.rows \in [Payments -> Row]
         /\ Reserved(j.rows) \subseteq Payments
         /\ IsFiniteSet(Reserved(j.rows))
         /\ \A p \in Reserved(j.rows) : RowSound(j, p)
         /\ \A e \in EventDays(j.rows) : Peak(j.rows, e) <= MaxDaily
         /\ Reserved(j.rows) # {} =>
              Total(j.rows) <= MaxTotal /\ Daily(j.rows, j.lastDay) <= MaxDaily
<1>1. /\ j.revision \in Nat /\ j.lastDay \in Nat /\ j.rows \in [Payments -> Row]
  <2>1. j \in Journal
    BY DEF JournalSound
  <2>2. j.revision \in Nat /\ j.lastDay \in Days \cup {0} /\ j.rows \in [Payments -> Row]
    BY <2>1 DEF Journal
  <2>3. \A d \in Days \cup {0} : d \in Nat
    BY Policy
  <2> QED
    BY <2>2, <2>3
<1>2. Reserved(j.rows) \subseteq Payments /\ IsFiniteSet(Reserved(j.rows))
  <2>1. Reserved(j.rows) \subseteq Payments
    BY DEF Reserved
  <2> QED
    BY <2>1, FiniteAssumption, FS_Subset
<1>3. CASE j = Empty
  <2>1. Reserved(j.rows) = {}
    BY <1>3 DEF Empty, Reserved
  <2>2. EventDays(j.rows) = {}
    BY <2>1 DEF EventDays
  <2> QED
    BY <1>1, <1>2, <2>1, <2>2
<1>4. CASE j # Empty
  <2>1. /\ WellFormed(j) /\ Total(j.rows) <= MaxTotal
        /\ Daily(j.rows, j.lastDay) <= MaxDaily
        /\ \A e \in EventDays(j.rows) : Peak(j.rows, e) <= MaxDaily
    BY <1>4 DEF JournalSound, Decodes
  <2>2. ASSUME NEW p \in Reserved(j.rows)
        PROVE  RowSound(j, p)
    <3>1. j.rows[p] \in Row /\ j.rows[p].original \in Originals
      BY <1>1, <1>2 DEF JournalSound
    <3>2. Amount[j.rows[p].original] \in Nat
      BY <3>1, SpendingAssumption
    <3>3. j.rows[p].reservedDay \in Days
      BY DEF JournalSound
    <3> QED
      BY <2>1, <3>1, <3>2, <3>3 DEF WellFormed, RowSound
  <2> QED
    BY <1>1, <1>2, <2>1, <2>2
<1> QED
  BY <1>3, <1>4

(* A journal with one row added or changed is decoded when its row is sound, *)
(* and its sums are within the policy.                                       *)
LEMMA DecodesWith ==
  ASSUME NEW n, n \in Journal, n.revision > 0,
         Cardinality(Reserved(n.rows)) \in 1 .. MaxRecords,
         \A p \in Reserved(n.rows) : RowSound(n, p),
         Total(n.rows) <= MaxTotal,
         Daily(n.rows, n.lastDay) <= MaxDaily,
         \A e \in EventDays(n.rows) : Peak(n.rows, e) <= MaxDaily
  PROVE  Decodes(n)
<1>1. WellFormed(n)
  BY DEF WellFormed, RowSound
<1> QED
  BY <1>1 DEF Decodes

(* What is outstanding on the last day of a journal counts on that day.      *)
LEMMA LastDayPeak ==
  ASSUME NEW n, n.rows \in [Payments -> Row], n.lastDay \in Nat,
         \A p \in Reserved(n.rows) : RowSound(n, p),
         Daily(n.rows, n.lastDay) <= MaxDaily
  PROVE  Peak(n.rows, n.lastDay) <= MaxDaily
<1>1. Reserved(n.rows) \subseteq Payments /\ MaxDaily \in Nat
  BY SpendingAssumption DEF Reserved
<1>2. PICK S : S = CountedOn(n.rows, n.lastDay)
  OBVIOUS
<1>3. PICK A : A = OpenOn(n.rows, n.lastDay)
  OBVIOUS
<1>4. S \subseteq Reserved(n.rows)
  BY <1>2 DEF CountedOn, Unresolved
<1>5. IsFiniteSet(S)
  BY <1>1, <1>4, FiniteAssumption, FS_Subset
<1>6. \A p \in S : Amount[n.rows[p].original] \in Nat
  BY <1>4 DEF RowSound
<1>7. A \subseteq S
  <2>1. ASSUME NEW p \in A
        PROVE  p \in S
    <3>1. p \in Reserved(n.rows) /\ RowSound(n, p)
      BY <1>3 DEF OpenOn
    <3>4. n.rows[p].reservedDay \in Nat
      BY <3>1, Policy DEF RowSound
    <3>2. CASE n.rows[p].status # "SPENT"
      BY <1>2, <3>1, <3>2 DEF CountedOn, Unresolved
    <3>3. CASE n.rows[p].status = "SPENT"
      <4>1. n.rows[p].spentDay \in n.rows[p].reservedDay .. n.lastDay
        BY <3>1, <3>3 DEF RowSound
      <4>2. n.rows[p].spentDay \in Int /\ n.rows[p].spentDay <= n.lastDay
        BY <4>1
      <4>3. n.rows[p].spentDay = NoDay \/ n.lastDay <= n.rows[p].spentDay
        BY <1>3 DEF OpenOn
      <4> QED
        <5>1. n.rows[p].spentDay >= 0
          BY <3>4, <4>1
        <5>2. n.rows[p].spentDay = n.lastDay
          BY <4>2, <4>3, <5>1 DEF NoDay
        <5> QED
          BY <1>2, <3>1, <5>2 DEF CountedOn
    <3> QED
      BY <3>2, <3>3
  <2> QED
    BY <2>1
<1>8. Value(n.rows, A) \in Nat /\ Value(n.rows, S) \in Nat
      /\ Value(n.rows, A) <= Value(n.rows, S)
  BY <1>5, <1>6, <1>7, ValueMonotone
<1>9. Value(n.rows, S) <= MaxDaily
  BY <1>2 DEF Daily, CountedOn
<1>10. Peak(n.rows, n.lastDay) = Value(n.rows, A)
  BY <1>3 DEF Peak, OpenOn
<1> QED
  BY <1>1, <1>8, <1>9, <1>10

\* A journal's event days are days up to its last one.
LEMMA EventsPast ==
  ASSUME NEW n, n.lastDay \in Nat, \A p \in Reserved(n.rows) : RowSound(n, p),
         NEW e \in EventDays(n.rows)
  PROVE  e \in Nat /\ e <= n.lastDay
<1>1. ASSUME NEW p \in Reserved(n.rows)
      PROVE  /\ n.rows[p].reservedDay \in Nat
             /\ n.rows[p].reservedDay <= n.lastDay
             /\ \/ n.rows[p].spentDay = NoDay
                \/ n.rows[p].spentDay \in Nat /\ n.rows[p].spentDay <= n.lastDay
  <2>1. RowSound(n, p)
    OBVIOUS
  <2>2. n.rows[p].reservedDay \in Nat
    BY <2>1, Policy DEF RowSound
  <2> QED
    BY <2>1, <2>2 DEF RowSound
<1>2. PICK p \in Reserved(n.rows) :
        e = n.rows[p].reservedDay \/ (e = n.rows[p].spentDay /\ e # NoDay)
  BY DEF EventDays
<1> QED
  BY <1>1, <1>2

(* What was outstanding on a day before it is what the journal it came from   *)
(* says.                                                                      *)
LEMMA EarlierPeak ==
  ASSUME NEW rows, NEW other, NEW e, OpenOn(other, e) = OpenOn(rows, e),
         \A p \in OpenOn(rows, e) : other[p].original = rows[p].original
  PROVE  Peak(other, e) = Peak(rows, e)
<1>1. PICK S : S = OpenOn(rows, e)
  OBVIOUS
<1>2. Value(other, S) = Value(rows, S)
  BY <1>1, ValueAgrees
<1> QED
  BY <1>1, <1>2 DEF Peak, OpenOn

(* What the limits of reserve admit, the reader accepts.                      *)
LEMMA ReserveReadable ==
  ASSUME NEW j, JournalSound(j), NEW p \in Payments, NEW o \in Originals,
         NEW d \in Days, d >= j.lastDay, Amount[o] <= MaxPayment,
         Admits(j, p, o, d)
  PROVE  Decodes(ReservedIn(j, p, o, d))
<1>1. PICK n : n = ReservedIn(j, p, o, d)
  OBVIOUS
<1>2. /\ j.revision \in Nat /\ j.lastDay \in Nat /\ j.rows \in [Payments -> Row]
      /\ Reserved(j.rows) \subseteq Payments /\ IsFiniteSet(Reserved(j.rows))
      /\ \A q \in Reserved(j.rows) : RowSound(j, q)
      /\ \A e \in EventDays(j.rows) : Peak(j.rows, e) <= MaxDaily
  BY SoundJournal
<1>3. d \in Nat /\ Amount[o] \in Nat /\ MaxRecords \in Nat
  <2>1. d \in Nat
    BY Policy
  <2>2. Amount[o] \in Nat
    BY SpendingAssumption
  <2>3. MaxRecords \in Nat
    BY SpendingAssumption
  <2> QED
    BY <2>1, <2>2, <2>3
<1>4. n \in Journal
  BY <1>1, ReservedInType DEF JournalSound
<1>5. /\ n.revision = j.revision + 1 /\ n.lastDay = d
      /\ n.rows = [j.rows EXCEPT ![p] = NewRow(o, d)]
  BY <1>1 DEF ReservedIn, WithRow
<1>6. /\ n.rows[p] = NewRow(o, d) /\ n.rows[p] # NoRow
      /\ \A q \in Payments \ {p} : n.rows[q] = j.rows[q]
  BY <1>2, <1>5 DEF NewRow, NoRow, None
<1>7. /\ j.rows[p] = NoRow /\ \A q \in Payments : j.rows[q].original # o
      /\ Cardinality(Reserved(j.rows)) < MaxRecords
      /\ Total(n.rows) <= MaxTotal /\ Daily(n.rows, d) <= MaxDaily
  BY <1>1 DEF Admits
<1>8. Reserved(n.rows) = Reserved(j.rows) \cup {p} /\ p \notin Reserved(j.rows)
  BY <1>6, <1>7 DEF Reserved
<1>9. Cardinality(Reserved(n.rows)) \in 1 .. MaxRecords
  <2>1. Cardinality(Reserved(n.rows)) = Cardinality(Reserved(j.rows)) + 1
    BY <1>2, <1>8, FS_AddElement
  <2>2. Cardinality(Reserved(j.rows)) \in Nat
    BY <1>2, FS_CardinalityType
  <2> QED
    BY <1>3, <1>7, <2>1, <2>2
<1>10. /\ n.rows[p].original = o /\ n.rows[p].status = "RESERVED"
       /\ n.rows[p].reservedDay = d /\ n.rows[p].spentDay = NoDay
  BY <1>6 DEF NewRow
<1>11. ASSUME NEW q \in Reserved(n.rows)
       PROVE  RowSound(n, q)
  <2>1. CASE q = p
    <3>1. \A x \in Reserved(n.rows) \ {q} : n.rows[x].original # o
      BY <1>2, <1>6, <1>7, <1>8, <2>1
    <3> QED
      BY <1>3, <1>5, <1>10, <2>1, <3>1 DEF RowSound
  <2>2. CASE q # p
    <3>1. q \in Reserved(j.rows) /\ RowSound(j, q) /\ n.rows[q] = j.rows[q]
      BY <1>2, <1>6, <1>8, <2>2
    <3>2. \A x \in Reserved(n.rows) \ {q} : n.rows[x].original # n.rows[q].original
      BY <1>2, <1>6, <1>7, <1>8, <1>10, <3>1 DEF RowSound
    <3>3. j.rows[q].reservedDay \in Nat
      BY <3>1, Policy DEF RowSound
    <3>4. /\ j.rows[q].reservedDay <= d
          /\ j.rows[q].status = "SPENT" => j.rows[q].spentDay \in j.rows[q].reservedDay .. d
      BY <1>2, <1>3, <3>1, <3>3 DEF RowSound
    <3> QED
      BY <1>5, <3>1, <3>2, <3>4 DEF RowSound
  <2> QED
    BY <2>1, <2>2
<1>12. ASSUME NEW e \in EventDays(n.rows)
       PROVE  Peak(n.rows, e) <= MaxDaily
  <2>1. CASE e = d
    BY <1>3, <1>4, <1>5, <1>7, <1>11, <2>1, LastDayPeak DEF Journal
  <2>2. CASE e # d
    <3>1. e \in Nat /\ e < d
      BY <1>3, <1>5, <1>11, <2>2, EventsPast
    <3>2. e \in EventDays(j.rows)
      <4>1. PICK q \in Reserved(n.rows) :
              e = n.rows[q].reservedDay \/ (e = n.rows[q].spentDay /\ e # NoDay)
        BY DEF EventDays
      <4>2. q # p
        BY <1>10, <2>2, <4>1
      <4> QED
        BY <1>2, <1>6, <1>8, <4>1, <4>2 DEF EventDays
    <3>3. OpenOn(n.rows, e) = OpenOn(j.rows, e)
      <4>1. p \notin OpenOn(n.rows, e)
        BY <1>3, <1>10, <3>1 DEF OpenOn
      <4> QED
        BY <1>2, <1>6, <1>8, <4>1 DEF OpenOn
    <3>4. \A q \in OpenOn(j.rows, e) : n.rows[q].original = j.rows[q].original
      BY <1>2, <1>6, <1>8 DEF OpenOn
    <3> QED
      BY <1>2, <3>2, <3>3, <3>4, EarlierPeak
  <2> QED
    BY <2>1, <2>2
<1>13. n.revision > 0
  BY <1>2, <1>5
<1> QED
  BY <1>1, <1>4, <1>5, <1>7, <1>9, <1>11, <1>12, <1>13, DecodesWith

(* Whatever outcome is noted of a row on a later day, the reader accepts:     *)
(* what is outstanding only shrinks.                                          *)
LEMMA ObserveReadable ==
  ASSUME NEW j, JournalSound(j), NEW p \in Payments, j.rows[p] # NoRow,
         NEW d \in Days, d >= j.lastDay, NEW status \in {"UNKNOWN", "SPENT"}
  PROVE  Decodes(ObservedIn(j, p, status, d))
<1>1. SUFFICES ASSUME j.rows[p].status # "SPENT"
               PROVE  Decodes(ObservedIn(j, p, status, d))
  BY DEF ObservedIn, JournalSound
<1>2. PICK n : n = ObservedIn(j, p, status, d)
  OBVIOUS
<1>3. /\ j.revision \in Nat /\ j.lastDay \in Nat /\ j.rows \in [Payments -> Row]
      /\ Reserved(j.rows) \subseteq Payments /\ IsFiniteSet(Reserved(j.rows))
      /\ \A q \in Reserved(j.rows) : RowSound(j, q)
      /\ \A e \in EventDays(j.rows) : Peak(j.rows, e) <= MaxDaily
      /\ Reserved(j.rows) # {} =>
           Total(j.rows) <= MaxTotal /\ Daily(j.rows, j.lastDay) <= MaxDaily
  BY SoundJournal
<1>4. p \in Reserved(j.rows) /\ RowSound(j, p)
  BY <1>3 DEF Reserved
<1>5. d \in Nat /\ j.rows[p].reservedDay \in Nat
  BY <1>4, Policy DEF RowSound
<1>6. n \in Journal
  BY <1>2, ObservedInType DEF JournalSound
<1>7. PICK row : row = [j.rows[p] EXCEPT
                          !.status = status,
                          !.spentDay = IF status = "SPENT" THEN d ELSE NoDay]
  OBVIOUS
<1>8. /\ row.status = status /\ row.original = j.rows[p].original
      /\ row.reservedDay = j.rows[p].reservedDay
      /\ row.spentDay = IF status = "SPENT" THEN d ELSE NoDay
  <2>1. j.rows[p] \in Row
    BY <1>3
  <2> QED
    BY <1>7, <2>1 DEF Row
<1>9. /\ n.revision = j.revision + 1 /\ n.lastDay = d
      /\ n.rows = [j.rows EXCEPT ![p] = row]
  BY <1>1, <1>2, <1>7 DEF ObservedIn, WithRow
<1>10. /\ n.rows[p] = row /\ n.rows[p] # NoRow
       /\ \A q \in Payments \ {p} : n.rows[q] = j.rows[q]
  BY <1>3, <1>8, <1>9 DEF NoRow, None
<1>11. Reserved(n.rows) = Reserved(j.rows)
  BY <1>10 DEF Reserved
<1>12. \A q \in Reserved(j.rows) :
         /\ n.rows[q].original = j.rows[q].original
         /\ n.rows[q].reservedDay = j.rows[q].reservedDay
  BY <1>3, <1>8, <1>10
<1>13. j.rows[p].spentDay = NoDay
  BY <1>1, <1>4 DEF RowSound
<1>14. Cardinality(Reserved(n.rows)) \in 1 .. MaxRecords
  <2>1. j # Empty
    BY DEF Empty
  <2> QED
    BY <1>11, <2>1 DEF JournalSound, Decodes, WellFormed
<1>15. ASSUME NEW q \in Reserved(n.rows)
       PROVE  RowSound(n, q)
  <2>1. q \in Reserved(j.rows) /\ RowSound(j, q)
    BY <1>3, <1>11
  <2>2. \A x \in Reserved(n.rows) \ {q} : n.rows[x].original # n.rows[q].original
    BY <1>11, <1>12, <2>1 DEF RowSound
  <2>3. j.rows[q].reservedDay \in Nat
    BY <2>1, Policy DEF RowSound
  <2>4. j.rows[q].reservedDay <= d
    BY <1>3, <1>5, <2>1, <2>3 DEF RowSound
  <2>5. IF n.rows[q].status = "SPENT"
        THEN n.rows[q].spentDay \in n.rows[q].reservedDay .. d
        ELSE n.rows[q].spentDay = NoDay
    <3>1. CASE q = p
      BY <1>5, <1>8, <1>10, <2>4, <3>1
    <3>2. CASE q # p
      <4>1. n.rows[q] = j.rows[q]
        BY <1>3, <1>10, <2>1, <3>2
      <4> QED
        BY <1>3, <1>5, <2>1, <2>3, <4>1 DEF RowSound
    <3> QED
      BY <3>1, <3>2
  <2> QED
    BY <1>9, <1>12, <2>1, <2>2, <2>4, <2>5 DEF RowSound
<1>16. Total(n.rows) <= MaxTotal
  <2>1. PICK S : S = Reserved(j.rows)
    OBVIOUS
  <2>2. Value(n.rows, S) = Value(j.rows, S)
    BY <1>12, <2>1, ValueAgrees
  <2> QED
    BY <1>3, <1>4, <1>11, <2>1, <2>2 DEF Total
<1>17. Daily(n.rows, d) <= MaxDaily
  <2>1. PICK S : S = CountedOn(j.rows, j.lastDay)
    OBVIOUS
  <2>2. PICK A : A = CountedOn(n.rows, d)
    OBVIOUS
  <2>3. S \subseteq Reserved(j.rows)
    BY <2>1 DEF CountedOn, Unresolved
  <2>4. A \subseteq S
    <3>1. ASSUME NEW q \in A
          PROVE  q \in S
      <4>1. /\ q \in Reserved(j.rows) /\ RowSound(j, q)
            /\ n.rows[q].status # "SPENT" \/ n.rows[q].spentDay = d
        BY <1>3, <1>11, <2>2 DEF CountedOn, Unresolved
      <4>2. CASE j.rows[q].status # "SPENT"
        BY <2>1, <4>1, <4>2 DEF CountedOn, Unresolved
      <4>3. CASE j.rows[q].status = "SPENT"
        <5>1. n.rows[q] = j.rows[q]
          BY <1>1, <1>3, <1>10, <4>1, <4>3
        <5>2. j.rows[q].spentDay = d /\ j.rows[q].spentDay <= j.lastDay
          BY <4>1, <4>3, <5>1 DEF RowSound
        <5>3. j.rows[q].spentDay = j.lastDay
          BY <1>3, <1>5, <5>2
        <5> QED
          BY <2>1, <4>1, <5>3 DEF CountedOn
      <4> QED
        BY <4>2, <4>3
    <3> QED
      BY <3>1
  <2>5. Value(n.rows, A) = Value(j.rows, A)
    BY <1>12, <2>3, <2>4, ValueAgrees
  <2>6. IsFiniteSet(S)
    BY <1>3, <2>3, FS_Subset
  <2>7. \A q \in S : Amount[j.rows[q].original] \in Nat
    BY <1>3, <2>3 DEF RowSound
  <2>8. /\ Value(j.rows, A) \in Nat /\ Value(j.rows, S) \in Nat
        /\ Value(j.rows, A) <= Value(j.rows, S)
    BY <2>4, <2>6, <2>7, ValueMonotone
  <2>9. Value(j.rows, S) <= MaxDaily
    BY <1>3, <1>4, <2>1 DEF Daily, CountedOn
  <2>10. Daily(n.rows, d) = Value(n.rows, A)
    BY <2>2 DEF Daily, CountedOn
  <2>11. MaxDaily \in Nat
    BY SpendingAssumption
  <2> QED
    BY <2>5, <2>8, <2>9, <2>10, <2>11
<1>18. ASSUME NEW e \in EventDays(n.rows)
       PROVE  Peak(n.rows, e) <= MaxDaily
  <2>1. CASE e = d
    BY <1>5, <1>6, <1>9, <1>15, <1>17, <2>1, LastDayPeak DEF Journal
  <2>2. CASE e # d
    <3>1. e \in Nat /\ e < d
      BY <1>5, <1>9, <1>15, <2>2, EventsPast
    <3>2. e \in EventDays(j.rows)
      <4>1. PICK q \in Reserved(n.rows) :
              e = n.rows[q].reservedDay \/ (e = n.rows[q].spentDay /\ e # NoDay)
        BY DEF EventDays
      <4>2. CASE q = p
        <5>1. e = j.rows[p].reservedDay
          BY <1>8, <1>10, <2>2, <4>1, <4>2
        <5> QED
          BY <1>4, <5>1 DEF EventDays
      <4>3. CASE q # p
        <5>1. q \in Reserved(j.rows) /\ n.rows[q] = j.rows[q]
          BY <1>3, <1>10, <1>11, <4>3
        <5> QED
          BY <4>1, <5>1 DEF EventDays
      <4> QED
        BY <4>2, <4>3
    <3>3. OpenOn(n.rows, e) = OpenOn(j.rows, e)
      <4>1. ASSUME NEW q \in Reserved(j.rows)
            PROVE  (n.rows[q].spentDay = NoDay \/ e <= n.rows[q].spentDay)
                     <=> (j.rows[q].spentDay = NoDay \/ e <= j.rows[q].spentDay)
        <5>1. CASE q = p
          BY <1>5, <1>8, <1>10, <1>13, <3>1, <5>1
        <5>2. CASE q # p
          BY <1>3, <1>10, <5>2
        <5> QED
          BY <5>1, <5>2
      <4> QED
        BY <1>11, <1>12, <4>1 DEF OpenOn
    <3>4. \A q \in OpenOn(j.rows, e) : n.rows[q].original = j.rows[q].original
      BY <1>12 DEF OpenOn
    <3> QED
      BY <1>3, <3>2, <3>3, <3>4, EarlierPeak
  <2> QED
    BY <2>1, <2>2
<1>19. n.revision > 0
  BY <1>3, <1>9
<1> QED
  BY <1>2, <1>6, <1>9, <1>14, <1>15, <1>16, <1>17, <1>18, <1>19, DecodesWith

LEMMA StoredIsSound == SpendingInv => JournalSound(journal)
<1> SUFFICES ASSUME SpendingInv PROVE JournalSound(journal)
  OBVIOUS
<1>1. journal \in Journal /\ Decodes(journal) /\ RowsInv
  BY DEF SpendingInv, TypeOK
<1> QED
  BY <1>1 DEF JournalSound, RowsInv, Reserved

(* AdmittedIsReadable: what the limits of reserve admit, and every outcome   *)
(* noted of it, is a journal its own reader accepts.                         *)
THEOREM AdmittedIsReadableHolds == Spec => []AdmittedIsReadable
<1>1. SpendingInv => AdmittedIsReadable
  <2> SUFFICES ASSUME SpendingInv PROVE AdmittedIsReadable
    OBVIOUS
  <2>1. TypeOK /\ JournalSound(journal)
    BY StoredIsSound DEF SpendingInv
  <2>2. ASSUME NEW p \in Payments, NEW d \in Days, d >= journal.lastDay
        PROVE  /\ \A o \in Originals :
                    Amount[o] <= MaxPayment /\ Admits(journal, p, o, d)
                      => Decodes(ReservedIn(journal, p, o, d))
               /\ journal.rows[p] # NoRow => \A status \in {"UNKNOWN", "SPENT"} :
                    Decodes(ObservedIn(journal, p, status, d))
    BY <2>1, <2>2, ReserveReadable, ObserveReadable
  <2> QED
    BY <2>1, <2>2 DEF AdmittedIsReadable
<1> QED
  BY <1>1, SpendingInvHolds, PTL

-----------------------------------------------------------------------------
(* The budget.                                                               *)

LEMMA OutstandingWithin ==
  ASSUME SpendingInv, NEW d \in Days
  PROVE  Value(journal.rows, Outstanding(d)) <= MaxDaily
<1> DEFINE rows == journal.rows
<1>1. /\ rows \in [Payments -> Row]
      /\ Reserved(rows) \subseteq Payments /\ IsFiniteSet(Reserved(rows))
      /\ \A p \in Reserved(rows) : RowSound(journal, p)
      /\ \A e \in EventDays(rows) : Peak(rows, e) <= MaxDaily
  BY SoundJournal, StoredIsSound
<1>2. d \in Nat /\ MaxDaily \in Nat
  <2>1. d \in Nat
    BY Policy
  <2>2. MaxDaily \in Nat
    BY SpendingAssumption
  <2> QED
    BY <2>1, <2>2
<1>3. PICK O : O = Outstanding(d)
  OBVIOUS
<1>4. ASSUME NEW p \in O
      PROVE  /\ p \in Reserved(rows)
             /\ rows[p].reservedDay \in Nat /\ rows[p].reservedDay <= d
             /\ rows[p].spentDay = NoDay \/ d <= rows[p].spentDay
             /\ rows[p].spentDay \in Int
  <2>1. /\ p \in Payments /\ rows[p].reservedDay \in 0 .. d
        /\ rows[p].spentDay = NoDay \/ rows[p].spentDay >= d
    BY <1>3 DEF Outstanding
  <2>2. p \in Reserved(rows)
    BY <2>1 DEF Reserved, NoRow, NoDay
  <2>3. rows[p].spentDay \in Int
    <3>1. rows[p] \in Row
      BY <1>1, <2>1
    <3>2. rows[p].spentDay \in Days \/ rows[p].spentDay = NoDay
      BY <3>1 DEF Row
    <3>3. \A e \in Days : e \in Int
      BY Policy
    <3> QED
      BY <3>2, <3>3 DEF NoDay
  <2> QED
    BY <1>2, <2>1, <2>2, <2>3
<1>5. CASE O = {}
  <2>1. PICK w : w = Pays(rows, O)
    OBVIOUS
  <2>2. IsFiniteSet(O)
    BY <1>5, FS_EmptySet
  <2>3. PICK m : Measure(m, O, w)
    BY <1>5, <2>2, MeasureExists
  <2>4. Value(rows, O) = m[O]
    BY <1>5, <2>1, <2>2, <2>3, ValueMeasured
  <2>5. m[{}] = 0
    BY <2>3 DEF Measure
  <2> QED
    BY <1>2, <1>3, <1>5, <2>4, <2>5
<1>6. CASE O # {}
  <2> DEFINE N == {d - rows[p].reservedDay : p \in O}
  <2>1. N \subseteq Nat /\ N # {}
    BY <1>2, <1>4, <1>6
  <2>2. PICK k \in N : \A n \in N : k <= n
    <3> HIDE DEF N
    <3> QED
      BY <2>1, LeastNumber
  <2>3. PICK p \in O : k = d - rows[p].reservedDay
    OBVIOUS
  <2>4. PICK e : e = rows[p].reservedDay
    OBVIOUS
  <2>5. e \in Nat /\ e <= d
    BY <1>4, <2>4
  <2>6. e \in EventDays(rows)
    BY <1>4, <2>4 DEF EventDays
  <2>7. ASSUME NEW q \in O
        PROVE  q \in OpenOn(rows, e)
    <3>1. rows[q].reservedDay \in Nat /\ k <= d - rows[q].reservedDay
      BY <1>4, <2>2
    <3>2. rows[q].reservedDay <= e
      BY <1>2, <2>3, <2>4, <2>5, <3>1
    <3>3. rows[q].spentDay = NoDay \/ e <= rows[q].spentDay
      BY <1>2, <1>4, <2>5
    <3> QED
      BY <1>4, <3>2, <3>3 DEF OpenOn
  <2>8. PICK S : S = OpenOn(rows, e)
    OBVIOUS
  <2>9. S \subseteq Reserved(rows) /\ O \subseteq S
    BY <2>7, <2>8 DEF OpenOn
  <2>10. IsFiniteSet(S) /\ \A q \in S : Amount[rows[q].original] \in Nat
    <3>1. IsFiniteSet(S)
      BY <1>1, <2>9, FS_Subset
    <3>2. \A q \in S : Amount[rows[q].original] \in Nat
      BY <1>1, <2>9 DEF RowSound
    <3> QED
      BY <3>1, <3>2
  <2>11. /\ Value(rows, O) \in Nat /\ Value(rows, S) \in Nat
         /\ Value(rows, O) <= Value(rows, S)
    BY <2>9, <2>10, ValueMonotone
  <2>12. Value(rows, S) <= MaxDaily
    BY <1>1, <2>6, <2>8 DEF Peak, OpenOn
  <2> QED
    BY <1>2, <1>3, <2>11, <2>12
<1> QED
  BY <1>5, <1>6

(* What was signed is on record in rows of its own, once each: what is signed *)
(* of any originals is at most what the rows of these originals reserve.      *)
LEMMA SignedWithin ==
  ASSUME SpendingInv
  PROVE  SignedValue <= MaxTotal
<1>1. PICK rows : rows = journal.rows
  OBVIOUS
<1>2. PICK R : R = Reserved(rows)
  OBVIOUS
<1>3. /\ R \subseteq Payments /\ IsFiniteSet(R)
      /\ \A p \in R : /\ rows[p].original \in Originals
                      /\ Amount[rows[p].original] \in Nat
      /\ R # {} => Total(rows) <= MaxTotal
      /\ MaxTotal \in Nat
  <2>1. /\ R \subseteq Payments /\ IsFiniteSet(R)
        /\ \A p \in R : RowSound(journal, p)
        /\ R # {} => Total(rows) <= MaxTotal
    BY <1>1, <1>2, SoundJournal, StoredIsSound
  <2>2. MaxTotal \in Nat
    BY SpendingAssumption
  <2> QED
    BY <1>1, <2>1, <2>2 DEF RowSound
<1>4. \A o \in Originals : Amount[o] \in Nat
  BY SpendingAssumption
<1>5. \A o \in Originals : \/ signed[o] = 0
                           \/ /\ signed[o] = 1
                              /\ \E p \in R : rows[p].original = o
  <2>1. ASSUME NEW o \in Originals, signed[o] # 0
        PROVE  signed[o] = 1 /\ \E p \in R : rows[p].original = o
    <3>1. signed[o] > 0
      BY <2>1 DEF SpendingInv, TypeOK
    <3>2. signed[o] = 1
      BY <3>1 DEF SpendingInv, SignedInv
    <3>3. PICK p \in Payments : /\ journal.rows[p].original = o
                                /\ custody[p] \in {"intent", "signed"}
      BY <3>1 DEF SpendingInv, SignedInv
    <3>4. p \in R
      BY <1>1, <1>2, <3>3 DEF SpendingInv, RowsInv, Reserved
    <3> QED
      BY <1>1, <3>2, <3>3, <3>4
  <2> QED
    BY <2>1
<1>6. \A p, q \in R : rows[p].original = rows[q].original => p = q
  BY <1>1, <1>2 DEF SpendingInv, RowsInv
<1>7. PICK v : v = [o \in Originals |-> signed[o] * Amount[o]]
  OBVIOUS
<1>8. \A o \in Originals : /\ signed[o] = 0 => v[o] = 0
                           /\ signed[o] = 1 => v[o] = Amount[o]
                           /\ v[o] \in Nat
  <2>1. ASSUME NEW o \in Originals
        PROVE  /\ signed[o] = 0 => v[o] = 0
               /\ signed[o] = 1 => v[o] = Amount[o]
    <3>1. v[o] = signed[o] * Amount[o] /\ Amount[o] \in Nat
      BY <1>4, <1>7
    <3>2. signed[o] = 0 => v[o] = 0
      BY <3>1
    <3>3. signed[o] = 1 => v[o] = Amount[o]
      BY <3>1
    <3> QED
      BY <3>2, <3>3
  <2> QED
    BY <1>4, <1>5, <2>1
<1>9. PICK w : w = Pays(rows, R)
  OBVIOUS
<1>10. \A p \in R : w[p] = Amount[rows[p].original] /\ w[p] \in Nat
  BY <1>3, <1>9 DEF Pays
<1>11. PICK m : Measure(m, Originals, v)
  BY <1>8, FiniteAssumption, MeasureExists
<1>12. PICK k : Measure(k, R, w)
  BY <1>3, <1>10, MeasureExists
<1> DEFINE For(T) == {p \in R : rows[p].original \in T}
           G == {T \in SUBSET Originals : m[T] <= k[For(T)]}
<1>13. {} \in G
  <2>1. For({}) = {}
    OBVIOUS
  <2>2. m[{}] = 0 /\ k[{}] = 0
    BY <1>11, <1>12 DEF Measure
  <2> QED
    BY <2>1, <2>2
<1>14. ASSUME NEW T \in SUBSET Originals, NEW x \in Originals \ T, T \in G
       PROVE  T \cup {x} \in G
  <2>1. m[T \cup {x}] = m[T] + v[x] /\ m[T] \in Nat /\ m[T] <= k[For(T)]
    BY <1>11, <1>14 DEF Measure
  <2>2. For(T) \subseteq R /\ For(T \cup {x}) \subseteq R /\ For(T) \subseteq For(T \cup {x})
    OBVIOUS
  <2>3. CASE signed[x] = 0
    <3>1. PICK A : A = For(T)
      OBVIOUS
    <3>2. PICK B : B = For(T \cup {x})
      OBVIOUS
    <3>3. k[A] \in Nat /\ k[B] \in Nat /\ k[A] <= k[B]
      BY <1>3, <1>10, <1>12, <2>2, <3>1, <3>2, MeasureMonotone
    <3>4. v[x] = 0
      BY <1>8, <2>3
    <3> QED
      BY <2>1, <3>1, <3>2, <3>3, <3>4
  <2>4. CASE signed[x] # 0
    <3>1. PICK p \in R : rows[p].original = x
      BY <1>5, <2>4
    <3>2. v[x] = Amount[x] /\ Amount[x] \in Nat /\ w[p] = Amount[x]
      BY <1>4, <1>5, <1>8, <1>10, <2>4, <3>1
    <3>3. For(T \cup {x}) = For(T) \cup {p} /\ p \in R \ For(T)
      BY <1>6, <1>14, <3>1
    <3>4. k[For(T) \cup {p}] = k[For(T)] + w[p] /\ k[For(T)] \in Nat
      BY <1>12, <2>2, <3>3 DEF Measure
    <3>5. k[For(T \cup {x})] = k[For(T)] + w[p]
      <4> HIDE DEF For
      <4> QED
        BY <3>3, <3>4, Zenon
    <3>6. m[T \cup {x}] <= k[For(T \cup {x})]
      <4> HIDE DEF For
      <4> QED
        BY <2>1, <3>2, <3>4, <3>5
    <3> QED
      BY <3>6
  <2> QED
    BY <2>3, <2>4
<1>15. m[Originals] <= k[R]
  <2>1. Originals \in G
    <3> HIDE DEF G
    <3> QED
      BY <1>13, <1>14, FiniteAssumption, SubsetsGrow
  <2>2. For(Originals) = R
    BY <1>3
  <2> QED
    BY <2>1, <2>2
<1>16. m[Originals] \in Nat /\ k[R] \in Nat
  BY <1>11, <1>12 DEF Measure
<1>17. SignedValue = m[Originals]
  <2>1. SumOver(v, Originals) = m[Originals]
    BY <1>8, <1>11, FiniteAssumption, SumMeasured
  <2> QED
    BY <1>7, <2>1 DEF SignedValue
<1>18. k[R] <= MaxTotal
  <2>1. CASE R = {}
    BY <1>3, <1>12, <2>1 DEF Measure
  <2>2. CASE R # {}
    <3>1. Value(rows, R) = k[R]
      BY <1>3, <1>9, <1>12, ValueMeasured
    <3> QED
      BY <1>2, <1>3, <2>2, <3>1 DEF Total
  <2> QED
    BY <2>1, <2>2
<1> QED
  BY <1>3, <1>15, <1>16, <1>17, <1>18

(* WithinBudget: all that was ever signed is within the total of the policy,  *)
(* and what is reserved and not settled is within its limit on every day.     *)
THEOREM WithinBudgetHolds == Spec => []WithinBudget
<1>1. SpendingInv => WithinBudget
  BY OutstandingWithin, SignedWithin DEF WithinBudget
<1> QED
  BY <1>1, SpendingInvHolds, PTL
=============================================================================
