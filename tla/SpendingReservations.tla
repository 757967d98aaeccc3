------------------------ MODULE SpendingReservations ------------------------
(***************************************************************************)
(* A buyer's spending journal (src/original-funding-spending-reservations  *)
(* .js on its SQLite store) and the client that may sign a payment only    *)
(* after it reserved it there (src/zenon/sdk105-spending-bounded-client    *)
(* .js, the wallet owner and the lifecycle beneath it).                    *)
(*                                                                         *)
(* A session is one assembly: a file owner with its store, the journal,    *)
(* a wallet and a client.  Several processes may hold one each on the same *)
(* database; every one decides on the copy of the journal that it cached   *)
(* when it was built, and writes by exchanging exactly that copy.          *)
(*                                                                         *)
(* pc of a session:                                                        *)
(*   down -> ready          built, nothing reserved                        *)
(*   preparing              reserved, the child plans the block            *)
(*   attempt -> signed      the intent is stored; the SDK has signed       *)
(*   retained -> prepared   the signature is stored; the caller has it     *)
(*   calling, submitting    commit, hand-off or service; the funding POST  *)
(*   failing                the child's promise is about to reject         *)
(*   over                   no call of this client reaches its child       *)
(*                                                                         *)
(* Left out: the optional table of grant queries, file identities and free *)
(* space (a failed check there is a failed transaction here), and what the *)
(* child sends.                                                            *)
(***************************************************************************)
EXTENDS Integers, FiniteSets, FiniteSetsExt

CONSTANTS
  Sessions,      \* assemblies, each in a process of its own
  SingleLane,    \* those built for one unresolved original per account
  Payments,      \* payment identifiers
  Originals,     \* digests of exact preparation inputs
  Amount,        \* what an original pays
  Days,          \* bound: the days the clock may show
  MaxPayment, MaxTotal, MaxDaily, MaxRecords,  \* the policy
  MaxEpoch       \* bound: transfers of ownership

ASSUME SpendingAssumption ==
  /\ SingleLane \subseteq Sessions
  /\ Amount \in [Originals -> Nat \ {0}]
  /\ Days \subseteq Nat
  /\ {MaxPayment, MaxTotal, MaxDaily, MaxRecords, MaxEpoch} \subseteq Nat \ {0}
  /\ MaxPayment <= MaxTotal /\ MaxPayment <= MaxDaily

\* Both are strings of a bounded length: text() and hash().
ASSUME FiniteAssumption == IsFiniteSet(Payments) /\ IsFiniteSet(Originals)

VARIABLES
  journal,   \* the state row: revision, lastDay, a row for each payment
  custody,   \* the signer record of each payment
  epoch,     \* the epoch of the owner
  session,   \* of each session: its volatile state
  signed     \* of each original: signatures the SDK was asked for

vars == <<journal, custody, epoch, session, signed>>

None == "none"
NoDay == -1
NoRow == [status |-> None, original |-> None,
          reservedDay |-> NoDay, spentDay |-> NoDay]
NewRow(o, d) == [status |-> "RESERVED", original |-> o,
                 reservedDay |-> d, spentDay |-> NoDay]

Empty ==
  [revision |-> 0, lastDay |-> 0, rows |-> [p \in Payments |-> NoRow]]

Down == [pc |-> "down", mem |-> Empty, epoch |-> 0, payment |-> None,
         original |-> None, held |-> FALSE, closed |-> FALSE,
         journalHeld |-> FALSE, stuck |-> FALSE]

Over == [Down EXCEPT !.pc = "over"]

Init ==
  /\ journal = Empty
  /\ custody = [p \in Payments |-> "none"]
  /\ epoch = 1
  /\ session = [s \in Sessions |-> Down]
  /\ signed = [o \in Originals |-> 0]

-----------------------------------------------------------------------------
\* What a state of the journal amounts to.

Reserved(rows) == {p \in Payments : rows[p] # NoRow}
Unresolved(rows) == {p \in Reserved(rows) : rows[p].status # "SPENT"}
SumOver(f, xs) == MapThenSumSet(LAMBDA x : f[x], xs)
Value(rows, ps) == SumOver([p \in ps |-> Amount[rows[p].original]], ps)

\* Slip: what is spent no longer counts.
TotalOfUnresolved(rows) == Value(rows, Unresolved(rows))

Total(rows) == Value(rows, Reserved(rows))

\* Slip: what was spent today no longer counts today.
DailyOfUnresolved(rows, d) == Value(rows, Unresolved(rows))

Daily(rows, d) ==
  Value(rows, Unresolved(rows)
                \cup {p \in Reserved(rows) : rows[p].spentDay = d})

\* Everything that starts on a day counts before what ends on it is dropped.
Peak(rows, d) ==
  Value(rows, {p \in Reserved(rows) :
                 /\ rows[p].reservedDay <= d
                 /\ rows[p].spentDay = NoDay \/ d <= rows[p].spentDay})

EventDays(rows) ==
  {rows[p].reservedDay : p \in Reserved(rows)}
    \cup ({rows[p].spentDay : p \in Reserved(rows)} \ {NoDay})

WellFormed(j) ==
  /\ Cardinality(Reserved(j.rows)) \in 1 .. MaxRecords
  /\ \A p \in Reserved(j.rows) :
       LET r == j.rows[p] IN
       /\ Amount[r.original] <= MaxPayment
       /\ r.reservedDay <= j.lastDay
       /\ IF r.status = "SPENT"
          THEN r.spentDay \in r.reservedDay .. j.lastDay
          ELSE r.spentDay = NoDay
       /\ \A q \in Reserved(j.rows) \ {p} : j.rows[q].original # r.original

Decodes(j) ==
  \/ j = Empty
  \/ /\ j.revision > 0
     /\ WellFormed(j)
     /\ Total(j.rows) <= MaxTotal
     /\ Daily(j.rows, j.lastDay) <= MaxDaily
     /\ \A d \in EventDays(j.rows) : Peak(j.rows, d) <= MaxDaily

\* requireOriginalFundingSpendingStateTransition: one row added, or one moved.
Transition(a, b) ==
  /\ b.revision = a.revision + 1 /\ b.lastDay >= a.lastDay
  /\ \E p \in Payments :
       /\ \A q \in Payments \ {p} : b.rows[q] = a.rows[q]
       /\ \/ /\ a.rows[p] = NoRow
             /\ b.rows[p] = NewRow(b.rows[p].original, b.lastDay)
          \/ /\ a.rows[p] \notin {NoRow, b.rows[p]}
             /\ a.rows[p].status # "SPENT" /\ b.rows[p].status # "RESERVED"
             /\ b.rows[p].original = a.rows[p].original
             /\ b.rows[p].reservedDay = a.rows[p].reservedDay
             /\ b.rows[p].status = "SPENT" => b.rows[p].spentDay = b.lastDay
          \/ a.rows[p] = b.rows[p] /\ a.rows[p] # NoRow

-----------------------------------------------------------------------------
\* The store: every operation is one transaction that validates all of it.

Valid(j) ==
  /\ Decodes(j)
  /\ \A p \in Payments :
       /\ custody[p] # "none" => j.rows[p] # NoRow
       /\ j.rows[p].status = "SPENT" => custody[p] = "signed"

\* (A revision below the last one seen cannot occur: revisions only grow.)
Opens(s) ==
  ~session[s].stuck /\ session[s].epoch = epoch /\ Valid(journal)

\* Slip: the exchange does not compare the copy its owner decided on.
OverwrittenBy(s, next) ==
  /\ Transition(session[s].mem, next)
  /\ Opens(s)
  /\ journal' = next

\* compareAndSwap writes. (Its caller has decoded the next state already.)
ExchangedBy(s, next) ==
  /\ journal = session[s].mem
  /\ Transition(session[s].mem, next)
  /\ \A p \in Payments :
       next.rows[p].status = "SPENT" => custody[p] = "signed"
  /\ Opens(s)
  /\ journal' = next

\* compareAndSwap finds another copy, and returns null.
ConflictFor(s) ==
  journal # session[s].mem /\ Opens(s) /\ UNCHANGED journal

\* compareAndSwap throws: before it wrote, or after the commit.
UnknownTo(s, next) == ExchangedBy(s, next) \/ UNCHANGED journal

\* (What a session that is over remembers no longer matters, nor does what one
\* remembers that has reserved nothing and may not use its journal; and close
\* ends the use of the journal, and of the store unless the SDK is signing.)
Forgotten(r) ==
  CASE r.pc = "over" \/ (r.pc = "ready" /\ r.journalHeld) -> Over
    [] r.closed ->
         [r EXCEPT !.mem = Empty, !.journalHeld = TRUE,
                   !.stuck = @ \/ r.pc \notin {"attempt", "signed"}]
    [] OTHER -> r

Becomes(s, r) == session' = [session EXCEPT ![s] = Forgotten(r)]

-----------------------------------------------------------------------------
\* The journal of a session: reserve and observe.

WithRow(j, p, r, d) ==
  [revision |-> j.revision + 1, lastDay |-> d, rows |-> [j.rows EXCEPT ![p] = r]]

ReservedIn(j, p, o, d) == WithRow(j, p, NewRow(o, d), d)

ObservedIn(j, p, status, d) ==
  IF j.rows[p].status = "SPENT" THEN j
  ELSE WithRow(j, p, [j.rows[p] EXCEPT
                        !.status = status,
                        !.spentDay = IF status = "SPENT" THEN d ELSE NoDay], d)

\* Slip: in the single lane only a payment known to be uncertain is in the way.
InTheWayIfUnknown(j) ==
  {p \in Payments : j.rows[p].status = "UNKNOWN"}

InTheWay(j) == Unresolved(j.rows)

\* The limits reserve checks itself, before the journal is decoded as a whole.
Admits(j, p, o, d) ==
  LET next == ReservedIn(j, p, o, d) IN
  /\ j.rows[p] = NoRow
  /\ \A q \in Payments : j.rows[q].original # o
  /\ Cardinality(Reserved(j.rows)) < MaxRecords
  /\ Total(next.rows) <= MaxTotal
  /\ Daily(next.rows, d) <= MaxDaily

Recordable(j, p, status, d) ==
  /\ d >= j.lastDay
  /\ j.rows[p].status = "SPENT" => status = "SPENT"

\* observe: the session becomes ok where it returns and bad where it throws.
Observes(s, status, d, ok, bad) ==
  LET r == session[s]
      next == ObservedIn(r.mem, r.payment, status, d)
      usable == /\ ~r.journalHeld /\ ~r.closed
                /\ Recordable(r.mem, r.payment, status, d)
      writes == usable /\ next # r.mem /\ Decodes(next)
  IN
  \/ /\ writes /\ ExchangedBy(s, next)
     /\ Becomes(s, [ok EXCEPT !.mem = next])
  \/ /\ usable /\ next = r.mem
     /\ UNCHANGED journal /\ Becomes(s, ok)
  \/ /\ ~writes /\ ~(usable /\ next = r.mem)
     /\ UNCHANGED journal /\ Becomes(s, bad)
  \/ /\ writes /\ ConflictFor(s)
     /\ Becomes(s, [bad EXCEPT !.journalHeld = TRUE])
  \/ /\ writes /\ UnknownTo(s, next)
     /\ Becomes(s, [bad EXCEPT !.journalHeld = TRUE, !.stuck = TRUE])

-----------------------------------------------------------------------------
\* The client and its child.

\* A file owner opens the database with the current token, the journal reads
\* it, and the client is bound to one payment identifier.
Open(s, p) ==
  /\ session[s] = Down
  /\ Valid(journal)
  /\ Becomes(s, [Down EXCEPT !.pc = "ready", !.mem = journal,
                             !.epoch = epoch, !.payment = p])
  /\ UNCHANGED <<journal, custody, epoch, signed>>

\* prepareOriginalFunding reserves, and enters its child.
Reserve(s, o, d) ==
  LET r == session[s]
      next == ReservedIn(r.mem, r.payment, o, d)
      held == [r EXCEPT !.journalHeld = TRUE, !.held = s \in SingleLane]
  IN
  /\ r.pc = "ready" /\ ~r.held /\ ~r.journalHeld
  /\ d >= r.mem.lastDay /\ Amount[o] <= MaxPayment
  /\ IF s \in SingleLane /\ InTheWay(r.mem) # {}
     THEN UNCHANGED journal /\ Becomes(s, held)
     ELSE /\ Admits(r.mem, r.payment, o, d) /\ Decodes(next)
          /\ \/ /\ ExchangedBy(s, next)
                /\ Becomes(s, [r EXCEPT !.pc = "preparing", !.mem = next,
                                        !.original = o])
             \/ ConflictFor(s) /\ Becomes(s, held)
             \/ /\ UnknownTo(s, next)
                /\ Becomes(s, [held EXCEPT !.stuck = TRUE])
  /\ UNCHANGED <<custody, epoch, signed>>

\* The wallet stores its intent: it returns, or throws with or without it.
Attempt(s) ==
  LET r == session[s]
      begins == /\ journal.rows[r.payment].status = "RESERVED"
                /\ custody[r.payment] = "none"
                /\ Opens(s)
      written == custody' = [custody EXCEPT ![r.payment] = "intent"]
  IN
  /\ r.pc = "preparing" /\ ~r.closed
  /\ \/ /\ begins /\ written
        /\ Becomes(s, [r EXCEPT !.pc =
             IF journal.rows[r.payment].original = r.original
             THEN "attempt" ELSE "failing"])
     \/ /\ (begins /\ written) \/ UNCHANGED custody
        /\ Becomes(s, [r EXCEPT !.pc = "failing", !.stuck = TRUE])
  /\ UNCHANGED <<journal, epoch, signed>>

\* The owner is still current and the entry is young enough: the SDK signs.
Sign(s) ==
  /\ session[s].pc = "attempt"
  /\ Opens(s)
  /\ signed' = [signed EXCEPT ![session[s].original] = @ + 1]
  /\ Becomes(s, [session[s] EXCEPT !.pc = "signed"])
  /\ UNCHANGED <<journal, custody, epoch>>

\* The owner check throws, or the entry is too old.
SignRefused(s) ==
  /\ session[s].pc = "attempt"
  /\ \E stuck \in {session[s].stuck, TRUE} :
       Becomes(s, [session[s] EXCEPT !.pc = "failing", !.stuck = stuck])
  /\ UNCHANGED <<journal, custody, epoch, signed>>

StoredWith(r) ==
  custody[r.payment] = "intent"
    /\ custody' = [custody EXCEPT ![r.payment] = "signed"]

\* The signature is stored with the intent it belongs to, during close too.
Retain(s) ==
  LET r == session[s] IN
  /\ r.pc = "signed"
  /\ \/ /\ Opens(s) /\ StoredWith(r)
        /\ Becomes(s, [r EXCEPT !.pc = "retained"])
     \/ /\ (Opens(s) /\ StoredWith(r)) \/ UNCHANGED custody
        /\ Becomes(s, [r EXCEPT !.pc = "failing", !.stuck = TRUE])
  /\ UNCHANGED <<journal, epoch, signed>>

\* The child answers a preparation, or a call after it.
Answers(s) ==
  LET r == session[s] IN
  /\ r.pc \in {"retained", "calling"}
  /\ Becomes(s, IF r.closed \/ r.held THEN Over
                ELSE [r EXCEPT !.pc = "prepared"])
  /\ UNCHANGED <<journal, custody, epoch, signed>>

\* commitOriginalFunding, handoffToService, submitOriginal; and
\* submitOriginalFunding, which may be repeated.
Call(s) ==
  /\ session[s].pc = "prepared" /\ ~session[s].closed /\ ~session[s].held
  /\ \E next \in {"calling", "submitting"} :
       Becomes(s, [session[s] EXCEPT !.pc = next])
  /\ UNCHANGED <<journal, custody, epoch, signed>>

\* The child throws or rejects: uncertain() holds the client and notes it.
ChildFails(s, d) ==
  LET r == [session[s] EXCEPT !.held = TRUE, !.pc = "over"] IN
  /\ session[s].pc \in {"preparing", "failing", "retained", "calling",
                        "submitting"}
  /\ IF session[s].closed
     THEN UNCHANGED journal /\ Becomes(s, Over)
     ELSE Observes(s, "UNKNOWN", d, r, r)
  /\ UNCHANGED <<custody, epoch, signed>>

\* Slip: an outcome that is not BOUND leaves the client open.
AfterUnboundOpen(r) == [r EXCEPT !.pc = "prepared"]

AfterUnbound(r) == [r EXCEPT !.pc = "over", !.held = TRUE]

\* The funding POST is answered. Where the outcome cannot be noted, uncertain()
\* reads the day again and notes the original as unknown instead.
SubmitAnswered(s, bound, d, again) ==
  LET r == session[s]
      lost == [r EXCEPT !.pc = "over", !.held = TRUE]
      status == IF bound THEN "SPENT" ELSE "UNKNOWN"
  IN
  /\ r.pc = "submitting"
  /\ IF r.closed \/ r.held
     THEN UNCHANGED journal /\ Becomes(s, Over)
     ELSE IF ~Recordable(r.mem, r.payment, status, d)
     THEN Observes(s, "UNKNOWN", again, lost, lost)
     ELSE Observes(s, status, d, IF bound THEN [r EXCEPT !.pc = "prepared"]
                                 ELSE AfterUnbound(r), lost)
  /\ UNCHANGED <<custody, epoch, signed>>

\* close() revokes the client, and notes a call in flight as unknown.
Close(s, d) ==
  LET r == session[s]
      r1 == [r EXCEPT !.closed = TRUE, !.held = TRUE]
  IN
  /\ ~r.closed /\ r.pc \notin {"down", "attempt"}
  /\ IF r.pc \in {"ready", "prepared", "over"}
     THEN UNCHANGED journal /\ Becomes(s, Over)
     ELSE Observes(s, "UNKNOWN", d, r1, r1)
  /\ UNCHANGED <<custody, epoch, signed>>

\* After close the file owner revokes its store, whatever the child still does.
Revoke(s) ==
  /\ session[s].closed /\ ~session[s].stuck
  /\ Becomes(s, [session[s] EXCEPT !.stuck = TRUE])
  /\ UNCHANGED <<journal, custody, epoch, signed>>

\* The process of a session dies, or ends after close.
Crash(s) ==
  /\ session[s] # Down
  /\ Becomes(s, Down)
  /\ UNCHANGED <<journal, custody, epoch, signed>>

\* transferOwnership: the token of every open session is now an old one.
Transfer ==
  /\ epoch < MaxEpoch /\ Valid(journal)
  /\ epoch' = epoch + 1
  /\ UNCHANGED <<journal, custody, session, signed>>

Next ==
  \/ Transfer
  \/ \E s \in Sessions :
       \/ \E p \in Payments : Open(s, p)
       \/ \E o \in Originals, d \in Days : Reserve(s, o, d)
       \/ Attempt(s) \/ Sign(s) \/ SignRefused(s) \/ Retain(s)
       \/ Answers(s) \/ Call(s)
       \/ \E d \in Days : ChildFails(s, d) \/ Close(s, d)
       \/ \E bound \in BOOLEAN, d, again \in Days :
            SubmitAnswered(s, bound, d, again)
       \/ Revoke(s) \/ Crash(s)

Spec == Init /\ [][Next]_vars

-----------------------------------------------------------------------------
\* Properties.

Row ==
  [status : {None, "RESERVED", "UNKNOWN", "SPENT"},
   original : Originals \cup {None},
   reservedDay : Days \cup {NoDay}, spentDay : Days \cup {NoDay}]

Journal == [revision : Nat, lastDay : Days \cup {0}, rows : [Payments -> Row]]

\* The variables have their types.
TypeOK ==
  /\ journal \in Journal
  /\ custody \in [Payments -> {"none", "intent", "signed"}]
  /\ epoch \in 1 .. MaxEpoch
  /\ session \in [Sessions ->
       [pc : {"down", "ready", "preparing", "attempt", "signed", "retained",
              "prepared", "calling", "submitting", "failing", "over"},
        mem : Journal, epoch : 0 .. MaxEpoch,
        payment : Payments \cup {None}, original : Originals \cup {None},
        held : BOOLEAN, closed : BOOLEAN, journalHeld : BOOLEAN,
        stuck : BOOLEAN]]
  /\ signed \in [Originals -> Nat]

SignedValue == SumOver([o \in Originals |-> signed[o] * Amount[o]], Originals)

Outstanding(d) ==
  {p \in Payments : /\ journal.rows[p].reservedDay \in 0 .. d
                    /\ \/ journal.rows[p].spentDay = NoDay
                       \/ journal.rows[p].spentDay >= d}

\* What was ever signed stays within the total of the policy, and whatever was
\* reserved and not yet settled on a day stays within the day's limit: for
\* every day, also those on which nothing was reserved, and whoever reserved.
WithinBudget ==
  /\ SignedValue <= MaxTotal
  /\ \A d \in Days : Value(journal.rows, Outstanding(d)) <= MaxDaily

\* No original is signed twice, by whatever sessions and after whatever
\* restarts, and what is signed is on record: its row names it, and its
\* intent was stored before the SDK was entered.  A caller that was told its
\* payment is prepared has the signature in the store, whatever happens after.
SignedOnce ==
  /\ \A o \in Originals : signed[o] > 0 =>
       /\ signed[o] = 1
       /\ \E p \in Payments : /\ journal.rows[p].original = o
                              /\ custody[p] \in {"intent", "signed"}
  /\ \A s \in Sessions :
       session[s].pc \in {"retained", "prepared", "calling", "submitting"} =>
         /\ custody[session[s].payment] = "signed"
         /\ journal.rows[session[s].payment].original = session[s].original

\* Whatever the limits of reserve admit, and whatever outcome comes of it, the
\* journal's own reader accepts: no limit of the reader refuses a payment that
\* was admitted, and no settlement is refused for being settled late. (Every
\* session decides on a journal that was stored, and whatever was stored is
\* also met with every session down, since each may crash at any time.)
AdmittedIsReadable ==
  /\ TypeOK
  /\ (\A s \in Sessions : session[s] = Down) =>
       \A p \in Payments, d \in Days : d >= journal.lastDay =>
         /\ \A o \in Originals :
              Amount[o] <= MaxPayment /\ Admits(journal, p, o, d)
                => Decodes(ReservedIn(journal, p, o, d))
         /\ journal.rows[p] # NoRow => \A status \in {"UNKNOWN", "SPENT"} :
              Decodes(ObservedIn(journal, p, status, d))

\* What a step may do to the row of a payment.
RowIsKept(p) ==
  LET old == journal.rows[p]
      new == journal'.rows[p]
  IN /\ old = NoRow => new.status \in {None, "RESERVED"}
     /\ old # NoRow => new.original = old.original
     /\ old.status \in {"UNKNOWN", "SPENT"} => new.status = old.status
     /\ old.status = "RESERVED" => new # NoRow
     /\ (new.status = "SPENT" /\ new # old) =>
          \E s \in Sessions : /\ session[s].payment = p
                             /\ session[s].pc = "submitting"
                             /\ ~session[s].closed

\* The history is kept: a row only ever appears, leaves RESERVED once, and is
\* then final. An outcome noted as unknown is never upgraded by a late answer,
\* nor a settlement taken back; a session that was closed settles nothing.
HistoryKept == [][\A p \in Payments : RowIsKept(p)]_vars

\* A session of the single lane reserves only while no other payment of the
\* account is unresolved in the store, not merely in the copy it cached.
LaneAdmitsAlone ==
  [][\A s \in SingleLane :
       (session[s].pc = "ready" /\ session'[s].pc = "preparing") =>
         Unresolved(journal.rows) = {}]_vars

=============================================================================
