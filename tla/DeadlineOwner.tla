---------------------------- MODULE DeadlineOwner ----------------------------
(***************************************************************************)
(* The deadline owner of the native application                            *)
(* (src/service-credit-application-deadline-owner-core.js): it hands out   *)
(* tickets for timers, cancels them, reads the monotonic clock, and closes *)
(* once nothing it started can still run.                                  *)
(*                                                                         *)
(* The owner is synchronous, and everything it calls may call it back: the *)
(* capability that arms a timer, the one that cancels it, the clock, and   *)
(* the application's callback.  `stack' holds the calls it is inside of,   *)
(* the innermost last; whoever is called on top of it may schedule,        *)
(* cancel, close, read the clock or deliver a wake before it returns.      *)
(*                                                                         *)
(* External: the capabilities, which may throw, return nonsense or wake a  *)
(* timer at the wrong moment; the callback, which may throw.  A clock      *)
(* reading is good or not (thrown, no bigint, earlier than the last).      *)
(* Ingress and service tickets differ in what cancel returns, not here.    *)
(***************************************************************************)
EXTENDS Naturals, Sequences, FiniteSets

CONSTANTS
  MaxScheduleStarts,    \* configuration.maxScheduleStarts
  MaxConcurrentTimers,  \* configuration.maxConcurrentTimers
  MaxDepth              \* nesting of calls that is explored

ASSUME LimitsAssumption ==
  /\ MaxScheduleStarts \in Nat \ {0}
  /\ MaxConcurrentTimers \in 1 .. MaxScheduleStarts
  /\ MaxDepth \in Nat \ {0}

Tickets == 1 .. MaxScheduleStarts
RowStates == {"UNUSED", "ARMING", "ARMED", "ARM_UNKNOWN", "CANCELLING", "CANCEL_UNKNOWN",
              "CANCELLED", "DELIVERING", "FIRED"}
Frame(op, t) == [op |-> op, ticket |-> t]

VARIABLES
  owner,      \* [phase, unknown, failedControl, closeOutcome, active, delivering]
  row,        \* row[t]: the state of the ticket's row
  premature,  \* tickets woken while they were being armed
  starts,     \* tickets used up
  stack,      \* the calls in progress
  live,       \* timers the operating system may still fire (history)
  ran,        \* tickets whose callback was called (history)
  withdrawn   \* tickets whose cancellation was asked of the actuator (history)

vars == <<owner, row, premature, starts, stack, live, ran, withdrawn>>

Init ==
  /\ owner = [phase |-> "OPEN", unknown |-> FALSE, failedControl |-> FALSE,
              closeOutcome |-> "NOT_REQUESTED", active |-> {}, delivering |-> 0]
  /\ row = [t \in Tickets |-> "UNUSED"]
  /\ premature = {} /\ starts = 0 /\ stack = <<>>
  /\ live = {} /\ ran = {} /\ withdrawn = {}

----------------------------------------------------------------------------
(* What the owner's helpers make of its state.                             *)

MarkUnknown(o) ==
  [o EXCEPT !.unknown = TRUE,
            !.phase = IF @ = "CLOSED" THEN "CLOSE_UNKNOWN" ELSE @]
Uncertain(o) == [MarkUnknown(o) EXCEPT !.failedControl = TRUE]
Release(o, t) == [o EXCEPT !.active = @ \ {t}]

(* Slip for the mutants: a close that does not wait for a callback.        *)
MayFinishEarly(o) ==
  /\ o.closeOutcome = "PENDING"
  /\ o.active = {} \/ o.failedControl

(* Slip for the mutants: a close that waits for the rows it lost.          *)
MayFinishEmpty(o) ==
  /\ o.closeOutcome = "PENDING"
  /\ o.delivering = 0
  /\ o.active = {}

MayFinish(o) ==
  /\ o.closeOutcome = "PENDING"
  /\ o.delivering = 0
  /\ o.active = {} \/ o.failedControl

FinishClose(o) ==
  LET doubt == o.unknown \/ o.active # {}
      end == IF doubt THEN "CLOSE_UNKNOWN" ELSE "CLOSED"
  IN  IF MayFinish(o) THEN [o EXCEPT !.unknown = doubt, !.phase = end, !.closeOutcome = end]
      ELSE o

Healthy == owner.phase = "OPEN" /\ ~owner.unknown

----------------------------------------------------------------------------
(* The stack of calls.                                                     *)

Top == stack[Len(stack)]
Inside(op) == stack # <<>> /\ Top.op = op
Push(f) == Append(stack, f)
Pop == SubSeq(stack, 1, Len(stack) - 1)

(* Somebody outside the owner has control: the event loop, or whoever the  *)
(* owner called last; the loop of close() gives it to nobody.              *)
Outside == ~Inside("CLOSE") /\ Len(stack) < MaxDepth

(* schedule(), up to the call of armTimer.                                 *)
Schedule ==
  /\ Outside /\ Healthy
  /\ starts < MaxScheduleStarts /\ Cardinality(owner.active) < MaxConcurrentTimers
  /\ LET t == starts + 1
     IN  /\ row' = [row EXCEPT ![t] = "ARMING"]
         /\ owner' = [owner EXCEPT !.active = @ \cup {t}]
         /\ starts' = t
         /\ live' = live \cup {t}
         /\ stack' = Push(Frame("ARM", t))
  /\ UNCHANGED <<premature, ran, withdrawn>>

(* armTimer threw, or returned no handle; the timer may be set all the     *)
(* same.                                                                   *)
ArmFails ==
  /\ Inside("ARM")
  /\ row' = [row EXCEPT ![Top.ticket] = "ARM_UNKNOWN"]
  /\ owner' = FinishClose(Uncertain(owner))
  /\ \E set \in BOOLEAN : live' = IF set THEN live ELSE live \ {Top.ticket}
  /\ stack' = Pop
  /\ UNCHANGED <<premature, starts, ran, withdrawn>>

(* armTimer returned a handle.  A ticket woken too early, or an owner that *)
(* closed or lost its trust in the meantime, has it cancelled at once.     *)
Armed ==
  /\ Inside("ARM")
  /\ Healthy /\ Top.ticket \notin premature
  /\ row' = [row EXCEPT ![Top.ticket] = "ARMED"]
  /\ stack' = Pop
  /\ UNCHANGED <<owner, premature, starts, live, ran, withdrawn>>

ArmedTooLate ==
  /\ Inside("ARM")
  /\ ~Healthy \/ Top.ticket \in premature
  /\ owner' = Uncertain(owner)
  /\ row' = [row EXCEPT ![Top.ticket] = "CANCELLING"]
  /\ withdrawn' = withdrawn \cup {Top.ticket}
  /\ stack' = Append(Pop, Frame("CANCEL", Top.ticket))
  /\ UNCHANGED <<premature, starts, live, ran>>

(* cancelRow(): only an armed row reaches the actuator, and is claimed     *)
(* before it does; a row in doubt is never tried again.                    *)
InDoubt(t) == row[t] \in {"ARMING", "ARM_UNKNOWN", "CANCELLING", "CANCEL_UNKNOWN"}

CallActuator(t) ==
  /\ row[t] = "ARMED"
  /\ row' = [row EXCEPT ![t] = "CANCELLING"]
  /\ withdrawn' = withdrawn \cup {t}
  /\ stack' = Push(Frame("CANCEL", t))
  /\ UNCHANGED <<owner, premature, starts, live, ran>>

(* A caller cancels a ticket it was given; a ticket whose schedule() threw *)
(* was given to nobody.                                                    *)
Cancel(t) ==
  /\ Outside
  /\ \/ CallActuator(t)
     \/ /\ row[t] \in {"CANCELLING", "CANCEL_UNKNOWN"}
        /\ owner' = Uncertain(owner)
        /\ UNCHANGED <<row, premature, starts, stack, live, ran, withdrawn>>

(* cancelTimer returned nothing: the timer is gone.                        *)
Cancelled ==
  /\ Inside("CANCEL")
  /\ row' = [row EXCEPT ![Top.ticket] = "CANCELLED"]
  /\ owner' = FinishClose(Release(owner, Top.ticket))
  /\ live' = live \ {Top.ticket}
  /\ stack' = Pop
  /\ UNCHANGED <<premature, starts, ran, withdrawn>>

(* cancelTimer threw or returned something: the timer may fire yet.        *)
CancelFails ==
  /\ Inside("CANCEL")
  /\ row' = [row EXCEPT ![Top.ticket] = "CANCEL_UNKNOWN"]
  /\ owner' = FinishClose(Uncertain(owner))
  /\ stack' = Pop
  /\ UNCHANGED <<premature, starts, live, ran, withdrawn>>

(* wake(), by the event loop or by a capability out of turn.  A second     *)
(* wake of a row that ended or is delivering does nothing.                 *)
Suppressed(t) ==
  /\ row[t] \in {"ARMED", "ARM_UNKNOWN", "CANCELLING", "CANCEL_UNKNOWN"}
  /\ row[t] # "ARMED" \/ ~Healthy
  /\ row' = [row EXCEPT ![t] = "FIRED"]
  /\ LET o == Release(owner, t)
     IN  owner' = FinishClose(IF row[t] = "CANCELLING" THEN Uncertain(o) ELSE o)
  /\ UNCHANGED <<premature, stack, ran>>

Premature(t) ==
  /\ row[t] = "ARMING"
  /\ premature' = premature \cup {t}
  /\ owner' = Uncertain(owner)
  /\ UNCHANGED <<row, stack, ran>>

(* Slip for the mutants: the row is looked at, and the owner is not.       *)
DeliverAlways(t) ==
  /\ row[t] = "ARMED"
  /\ row' = [row EXCEPT ![t] = "DELIVERING"]
  /\ owner' = [Release(owner, t) EXCEPT !.delivering = @ + 1]
  /\ ran' = ran \cup {t}
  /\ stack' = Push(Frame("WORK", t))
  /\ UNCHANGED premature

Deliver(t) ==
  /\ row[t] = "ARMED" /\ Healthy
  /\ row' = [row EXCEPT ![t] = "DELIVERING"]
  /\ owner' = [Release(owner, t) EXCEPT !.delivering = @ + 1]
  /\ ran' = ran \cup {t}
  /\ stack' = Push(Frame("WORK", t))
  /\ UNCHANGED premature

Wake(t) ==
  /\ Outside
  /\ Premature(t) \/ Suppressed(t) \/ Deliver(t)
  /\ live' = live \ {t}
  /\ UNCHANGED <<starts, withdrawn>>

(* The callback returned nothing; or it threw, or returned something.      *)
WorkEnds ==
  /\ Inside("WORK")
  /\ \E good \in BOOLEAN :
       LET o == [owner EXCEPT !.delivering = @ - 1]
       IN  owner' = FinishClose(IF good THEN o ELSE MarkUnknown(o))
  /\ row' = [row EXCEPT ![Top.ticket] = "FIRED"]
  /\ stack' = Pop
  /\ UNCHANGED <<premature, starts, live, ran, withdrawn>>

(* monotonicNowNs(): what the reading is worth is decided after it.        *)
ReadClock ==
  /\ Outside /\ Healthy
  /\ stack' = Push(Frame("CLOCK", 0))
  /\ UNCHANGED <<owner, row, premature, starts, live, ran, withdrawn>>

ClockReturns ==
  /\ Inside("CLOCK")
  /\ \E good \in BOOLEAN : owner' = IF good /\ Healthy THEN owner ELSE MarkUnknown(owner)
  /\ stack' = Pop
  /\ UNCHANGED <<row, premature, starts, live, ran, withdrawn>>

(* close(): requested once; its loop takes the rows in the order of their  *)
(* tickets, and leaves one whose actuator is already at work to it.        *)
Close ==
  /\ Outside
  /\ owner.closeOutcome = "NOT_REQUESTED"
  /\ owner' = [owner EXCEPT !.phase = "CLOSING", !.closeOutcome = "PENDING"]
  /\ stack' = Push(Frame("CLOSE", 0))
  /\ UNCHANGED <<row, premature, starts, live, ran, withdrawn>>

ArmedRows == {t \in owner.active : row[t] = "ARMED"}
Passed(ts) == {t \in ts : row[t] # "CANCELLING" /\ InDoubt(t)}

CloseNext ==
  /\ Inside("CLOSE")
  /\ \E t \in ArmedRows :
       /\ \A s \in ArmedRows : t <= s
       /\ row' = [row EXCEPT ![t] = "CANCELLING"]
       /\ withdrawn' = withdrawn \cup {t}
       /\ stack' = Push(Frame("CANCEL", t))
       /\ owner' = IF Passed({s \in owner.active : s < t}) # {} THEN Uncertain(owner) ELSE owner
  /\ UNCHANGED <<premature, starts, live, ran>>

CloseLoopEnds ==
  /\ Inside("CLOSE") /\ ArmedRows = {}
  /\ owner' = FinishClose(IF Passed(owner.active) # {} THEN Uncertain(owner) ELSE owner)
  /\ stack' = Pop
  /\ UNCHANGED <<row, premature, starts, live, ran, withdrawn>>

(* The call on top of the stack comes to its end.                          *)
Returns ==
  \/ ArmFails \/ Armed \/ ArmedTooLate
  \/ Cancelled \/ CancelFails
  \/ WorkEnds \/ ClockReturns
  \/ CloseNext \/ CloseLoopEnds

Next ==
  \/ Schedule \/ ReadClock \/ Close
  \/ \E t \in Tickets : Cancel(t) \/ Wake(t)
  \/ Returns

(* A call into a capability or a callback returns or throws: JavaScript    *)
(* runs it to its end, and the capabilities are trusted to end.            *)
Spec == Init /\ [][Next]_vars /\ WF_vars(Returns)

----------------------------------------------------------------------------
TypeOK ==
  /\ owner \in [phase : {"OPEN", "CLOSING", "CLOSED", "CLOSE_UNKNOWN"},
                unknown : BOOLEAN, failedControl : BOOLEAN,
                closeOutcome : {"NOT_REQUESTED", "PENDING", "CLOSED", "CLOSE_UNKNOWN"},
                active : SUBSET Tickets, delivering : 0 .. MaxDepth]
  /\ row \in [Tickets -> RowStates]
  /\ premature \subseteq Tickets /\ starts \in 0 .. MaxScheduleStarts
  /\ Len(stack) <= MaxDepth + 1
  /\ \A i \in DOMAIN stack :
       stack[i] \in [op : {"ARM", "CANCEL", "WORK", "CLOCK", "CLOSE"}, ticket : 0 .. MaxScheduleStarts]
  /\ live \subseteq Tickets /\ ran \subseteq Tickets /\ withdrawn \subseteq Tickets

Doing(op) == {stack[i].ticket : i \in {j \in DOMAIN stack : stack[j].op = op}}

Begins(op, t) ==
  /\ stack' # stack /\ Len(stack') >= Len(stack)
  /\ stack'[Len(stack')] = Frame(op, t)

(* A timer that may still fire always has its row: it counts against the   *)
(* limit and close() knows of it.  So when close() resolves, no timer is   *)
(* left, no callback is running and no actuator or arming call is on its   *)
(* way, whatever was nested in what; a late wake does not undo that, and a *)
(* close that was rejected stays rejected (finishClose, lines 37 to 44).   *)
CleanCloseIsClean ==
  /\ TypeOK
  /\ live \subseteq owner.active
  /\ Cardinality(owner.active) <= MaxConcurrentTimers
  /\ owner.closeOutcome = "CLOSED" =>
       /\ owner.active = {} /\ ~owner.failedControl
       /\ Doing("WORK") \cup Doing("ARM") \cup Doing("CANCEL") = {}

(* A callback is called at most once, not from inside the schedule() that  *)
(* arms it, not once its cancellation was asked for, and never after       *)
(* close() was called or the owner lost its trust in a timer; and the      *)
(* actuator is called at most once for a ticket (lines 50 to 113).         *)
CalledInTime ==
  [][ \A t \in Tickets :
        /\ Begins("WORK", t) =>
             /\ t \notin ran \cup withdrawn \cup Doing("ARM")
             /\ owner.closeOutcome = "NOT_REQUESTED" /\ ~owner.failedControl
        /\ Begins("CANCEL", t) => t \notin withdrawn
    ]_vars

(* close() always settles, even when it was called from inside an arming,  *)
(* a cancellation or a callback, and even when a timer was lost: then with *)
(* a rejection (lines 146 to 158).                                         *)
CloseSettles == owner.closeOutcome = "PENDING" ~> owner.closeOutcome \in {"CLOSED", "CLOSE_UNKNOWN"}
=============================================================================
