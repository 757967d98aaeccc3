------------------------ MODULE DeadlineOwnerProofs ------------------------
(***************************************************************************)
(* Proofs about DeadlineOwner, for every limit and every depth of nesting. *)
(*                                                                         *)
(* The owner keeps no list of the calls it is inside of; what it knows of  *)
(* them are its rows, its set of active tickets and its count of running   *)
(* callbacks.  The invariant says what each call in progress has left      *)
(* there, so that a close which looks only at the set and the count cannot *)
(* overlook one: a ticket is in at most one call, the row names the call,  *)
(* and a row that a wake ended under its canceller has cost the owner its  *)
(* trust in the timers.                                                    *)
(***************************************************************************)
EXTENDS DeadlineOwner, FiniteSetTheorems, SequenceTheorems, TLAPS

Frames == [op : {"ARM", "CANCEL", "WORK", "CLOCK", "CLOSE"}, ticket : 0 .. MaxScheduleStarts]

\* The calls that are made for a ticket, one at a time.
Ticketed == {"ARM", "CANCEL", "WORK"}

\* What the owner's own record says of itself.
OwnerOK(o) ==
  /\ o \in [phase : {"OPEN", "CLOSING", "CLOSED", "CLOSE_UNKNOWN"},
            unknown : BOOLEAN, failedControl : BOOLEAN,
            closeOutcome : {"NOT_REQUESTED", "PENDING", "CLOSED", "CLOSE_UNKNOWN"},
            active : SUBSET Tickets, delivering : Nat]
  /\ o.phase = "OPEN" => o.closeOutcome = "NOT_REQUESTED"
  /\ o.failedControl => o.unknown
  /\ o.closeOutcome = "CLOSED" =>
       o.active = {} /\ ~o.failedControl /\ o.delivering = 0

\* What the calls in progress look like, the innermost last; beyond MaxDepth
\* only the actuator is called, by the loop of close().
StackOK ==
  /\ stack \in Seq(Frames)
  /\ Len(stack) <= MaxDepth + 1
  /\ \A i \in 1 .. Len(stack) :
       /\ i > MaxDepth => stack[i].op = "CANCEL"
       /\ stack[i].op \in Ticketed => stack[i].ticket \in Tickets
  /\ \A i, j \in 1 .. Len(stack) :
       /\ stack[i].op \in Ticketed /\ stack[j].op \in Ticketed
       /\ stack[i].ticket = stack[j].ticket
       => i = j

\* What a call in progress has left in the row of its ticket.
Witnessed(f) ==
  /\ f.op = "ARM" => row[f.ticket] = "ARMING"
  /\ f.op = "WORK" => row[f.ticket] = "DELIVERING"
  /\ f.op = "CANCEL" => \/ row[f.ticket] = "CANCELLING"
                        \/ row[f.ticket] = "FIRED" /\ owner.failedControl

WorkFrames == {i \in 1 .. Len(stack) : stack[i].op = "WORK"}

\* The row of a ticket against the owner's set of active tickets, the timers
\* of the operating system and what was done for the ticket before.
RowOK(t) ==
  /\ row[t] \in {"ARMING", "ARMED", "ARM_UNKNOWN", "CANCELLING"} => t \in owner.active
  /\ row[t] = "CANCEL_UNKNOWN" => owner.failedControl
  /\ t > starts => row[t] = "UNUSED" /\ t \notin owner.active
  /\ t \in live => t \in owner.active
  /\ t \in ran \cup withdrawn =>
       row[t] \in {"CANCELLING", "CANCEL_UNKNOWN", "CANCELLED", "DELIVERING", "FIRED"}

\* What is known of every call in progress.
Calls == StackOK /\ \A i \in 1 .. Len(stack) : Witnessed(stack[i])

DeadlineInv ==
  /\ OwnerOK(owner)
  /\ Calls
  /\ owner.delivering = Cardinality(WorkFrames)
  /\ Cardinality(owner.active) <= MaxConcurrentTimers
  /\ row \in [Tickets -> RowStates]
  /\ starts \in 0 .. MaxScheduleStarts
  /\ premature \subseteq Tickets /\ live \subseteq Tickets
  /\ ran \subseteq Tickets /\ withdrawn \subseteq Tickets
  /\ \A t \in Tickets : RowOK(t)

-----------------------------------------------------------------------------
(* The owner's helpers.                                                    *)

LEMMA MarkUnknownKeeps ==
  ASSUME NEW o, OwnerOK(o)
  PROVE  /\ OwnerOK(MarkUnknown(o))
         /\ MarkUnknown(o).active = o.active
         /\ MarkUnknown(o).delivering = o.delivering
         /\ MarkUnknown(o).failedControl = o.failedControl
         /\ MarkUnknown(o).closeOutcome = o.closeOutcome
         /\ MarkUnknown(o).unknown
BY DEF OwnerOK, MarkUnknown

(* Trust is lost only while something is under way, so not after a close.    *)
LEMMA UncertainKeeps ==
  ASSUME NEW o, OwnerOK(o), o.closeOutcome # "CLOSED"
  PROVE  /\ OwnerOK(Uncertain(o))
         /\ Uncertain(o).active = o.active
         /\ Uncertain(o).delivering = o.delivering
         /\ Uncertain(o).closeOutcome = o.closeOutcome
         /\ Uncertain(o).failedControl
<1>1. OwnerOK(MarkUnknown(o)) /\ MarkUnknown(o).closeOutcome # "CLOSED"
      /\ MarkUnknown(o).active = o.active /\ MarkUnknown(o).delivering = o.delivering
      /\ MarkUnknown(o).closeOutcome = o.closeOutcome /\ MarkUnknown(o).unknown
  BY MarkUnknownKeeps
<1> QED
  BY <1>1 DEF Uncertain, OwnerOK

LEMMA ReleaseKeeps ==
  ASSUME NEW o, OwnerOK(o), NEW t
  PROVE  /\ OwnerOK(Release(o, t))
         /\ Release(o, t).active = o.active \ {t}
         /\ Release(o, t).delivering = o.delivering
         /\ Release(o, t).closeOutcome = o.closeOutcome
         /\ Release(o, t).failedControl = o.failedControl
BY DEF Release, OwnerOK

(* A close ends cleanly only with nothing active and nothing running, and   *)
(* with the owner's trust intact, for a loss of it is a doubt.              *)
LEMMA FinishCloseKeeps ==
  ASSUME NEW o, OwnerOK(o)
  PROVE  /\ OwnerOK(FinishClose(o))
         /\ FinishClose(o).active = o.active
         /\ FinishClose(o).delivering = o.delivering
         /\ FinishClose(o).failedControl = o.failedControl
<1>1. CASE ~MayFinish(o)
  BY <1>1 DEF FinishClose
<1>2. CASE MayFinish(o)
  <2> DEFINE doubt == o.unknown \/ o.active # {}
             end == IF doubt THEN "CLOSE_UNKNOWN" ELSE "CLOSED"
             n == [o EXCEPT !.unknown = doubt, !.phase = end, !.closeOutcome = end]
  <2>1. FinishClose(o) = n
    BY <1>2 DEF FinishClose
  <2>2. /\ doubt \in BOOLEAN /\ end \in {"CLOSED", "CLOSE_UNKNOWN"}
        /\ o.failedControl => doubt
        /\ end = "CLOSED" => o.active = {} /\ ~o.failedControl /\ o.delivering = 0
    BY <1>2 DEF OwnerOK, MayFinish
  <2> HIDE DEF doubt, end
  <2>3. OwnerOK(n) /\ n.active = o.active /\ n.delivering = o.delivering
        /\ n.failedControl = o.failedControl
    BY <2>2 DEF OwnerOK
  <2> QED
    BY <2>1, <2>3
<1> QED
  BY <1>1, <1>2

-----------------------------------------------------------------------------
(* The stack of calls.                                                     *)

LEMMA FrameType ==
  ASSUME NEW t, t \in 0 .. MaxScheduleStarts, NEW op,
         op \in {"ARM", "CANCEL", "WORK", "CLOCK", "CLOSE"}
  PROVE  Frame(op, t) \in Frames /\ Frame(op, t).op = op /\ Frame(op, t).ticket = t
BY DEF Frame, Frames

LEMMA TicketFrame ==
  ASSUME NEW t \in Tickets
  PROVE  \E f \in Frames : f = Frame("CANCEL", t) /\ f.op = "CANCEL" /\ f.ticket = t
<1>1. t \in 0 .. MaxScheduleStarts
  BY LimitsAssumption DEF Tickets
<1> QED
  BY <1>1, FrameType

LEMMA PushEffect ==
  ASSUME stack \in Seq(Frames), NEW f \in Frames, stack' = Push(f)
  PROVE  /\ stack' \in Seq(Frames) /\ Len(stack') = Len(stack) + 1
         /\ \A i \in 1 .. Len(stack) : stack'[i] = stack[i]
         /\ stack'[Len(stack) + 1] = f
BY AppendProperties DEF Push

LEMMA PopShape ==
  ASSUME stack \in Seq(Frames), stack # <<>>
  PROVE  /\ Pop \in Seq(Frames) /\ Len(Pop) = Len(stack) - 1 /\ Len(stack) \in Nat \ {0}
         /\ \A i \in 1 .. Len(stack) - 1 : Pop[i] = stack[i]
         /\ Top \in Frames
<1>1. Len(stack) \in Nat \ {0} /\ \A i \in 1 .. Len(stack) : stack[i] \in Frames
  BY EmptySeq
<1>2. PICK n \in Nat : n = Len(stack) - 1
  BY <1>1
<1>3. /\ SubSeq(stack, 1, n) \in Seq(Frames)
      /\ Len(SubSeq(stack, 1, n)) = IF 1 <= n THEN n - 1 + 1 ELSE 0
      /\ \A i \in 1 .. n - 1 + 1 : SubSeq(stack, 1, n)[i] = stack[1 + i - 1]
  BY <1>1, <1>2, SubSeqProperties
<1>4. (IF 1 <= n THEN n - 1 + 1 ELSE 0) = n /\ n - 1 + 1 = n
  OBVIOUS
<1>5. \A i \in 1 .. n : stack[1 + i - 1] = stack[i]
  OBVIOUS
<1>6. Pop = SubSeq(stack, 1, n)
  BY <1>2 DEF Pop
<1>7. /\ Pop \in Seq(Frames) /\ Len(Pop) = n
      /\ \A i \in 1 .. n : Pop[i] = stack[i]
  BY <1>3, <1>4, <1>5, <1>6
<1>8. Top \in Frames
  BY <1>1 DEF Top
<1> QED
  BY <1>1, <1>2, <1>7, <1>8

LEMMA ReplaceEffect ==
  ASSUME stack \in Seq(Frames), stack # <<>>, NEW f \in Frames, stack' = Append(Pop, f)
  PROVE  /\ stack' \in Seq(Frames) /\ Len(stack') = Len(stack)
         /\ \A i \in 1 .. Len(stack) - 1 : stack'[i] = stack[i]
         /\ stack'[Len(stack)] = f
<1>1. /\ Pop \in Seq(Frames) /\ Len(Pop) = Len(stack) - 1 /\ Len(stack) \in Nat \ {0}
      /\ \A i \in 1 .. Len(stack) - 1 : Pop[i] = stack[i]
  BY PopShape
<1>2. PICK s : s = Pop
  OBVIOUS
<1>3. /\ Append(s, f) \in Seq(Frames) /\ Len(Append(s, f)) = Len(s) + 1
      /\ \A i \in 1 .. Len(s) : Append(s, f)[i] = s[i]
      /\ Append(s, f)[Len(s) + 1] = f
  BY <1>1, <1>2, AppendProperties
<1> QED
  BY <1>1, <1>2, <1>3

\* Calls on other tickets than t keep their witness.
KeepsWitnesses(t) ==
  \A g \in Frames : g.ticket \in Tickets \ {t} /\ Witnessed(g) => Witnessed(g)'

LEMMA WorkFramesFinite ==
  ASSUME StackOK
  PROVE  /\ IsFiniteSet(WorkFrames) /\ Cardinality(WorkFrames) \in 0 .. MaxDepth
         /\ Cardinality(WorkFrames) = 0 => WorkFrames = {}
<1>1. Len(stack) \in Nat
  BY DEF StackOK
<1>2. WorkFrames \subseteq 1 .. MaxDepth
  BY <1>1, LimitsAssumption DEF StackOK, WorkFrames
<1>3. IsFiniteSet(1 .. MaxDepth) /\ Cardinality(1 .. MaxDepth) = MaxDepth
  BY FS_Interval, LimitsAssumption
<1>4. IsFiniteSet(WorkFrames) /\ Cardinality(WorkFrames) <= MaxDepth
  BY <1>2, <1>3, FS_Subset
<1>5. Cardinality(WorkFrames) \in Nat
  BY <1>4, FS_CardinalityType
<1>6. Cardinality(WorkFrames) = 0 => WorkFrames = {}
  BY <1>4, FS_EmptySet
<1> QED
  BY <1>4, <1>5, <1>6, LimitsAssumption

LEMMA Untouched ==
  ASSUME NEW t, KeepsWitnesses(t), NEW g \in Frames, Witnessed(g),
         g.op \in Ticketed => g.ticket \in Tickets \ {t}
  PROVE  Witnessed(g)'
<1>1. CASE g.op \in Ticketed
  BY <1>1 DEF KeepsWitnesses
<1>2. CASE g.op \notin Ticketed
  BY <1>2 DEF Witnessed, Ticketed
<1> QED
  BY <1>1, <1>2

(* A call begins: on a ticket that is in no other call.                     *)
LEMMA PushKeeps ==
  ASSUME Calls, NEW f \in Frames, stack' = Push(f),
         Len(stack) < MaxDepth \/ (Len(stack) = MaxDepth /\ f.op = "CANCEL"),
         f.op \in Ticketed => f.ticket \in Tickets,
         \A i \in 1 .. Len(stack) :
           stack[i].op \in Ticketed => stack[i].ticket # f.ticket,
         KeepsWitnesses(f.ticket), Witnessed(f)'
  PROVE  /\ Calls'
         /\ WorkFrames' = IF f.op = "WORK" THEN WorkFrames \cup {Len(stack) + 1} ELSE WorkFrames
         /\ Len(stack) + 1 \notin WorkFrames
<1>1. /\ stack' \in Seq(Frames) /\ Len(stack') = Len(stack) + 1 /\ Len(stack) \in Nat
      /\ \A i \in 1 .. Len(stack) : stack'[i] = stack[i] /\ stack[i] \in Frames
      /\ stack'[Len(stack) + 1] = f
  BY PushEffect DEF Calls, StackOK
<1>2. StackOK'
  <2>1. Len(stack') <= MaxDepth + 1
    BY <1>1, LimitsAssumption
  <2>2. ASSUME NEW i \in 1 .. Len(stack')
        PROVE  /\ i > MaxDepth => stack'[i].op = "CANCEL"
               /\ stack'[i].op \in Ticketed => stack'[i].ticket \in Tickets
    <3>1. i \in 1 .. Len(stack) \/ i = Len(stack) + 1
      BY <1>1
    <3> QED
      BY <1>1, <3>1, LimitsAssumption DEF Calls, StackOK
  <2>3. ASSUME NEW i \in 1 .. Len(stack'), NEW j \in 1 .. Len(stack'),
               stack'[i].op \in Ticketed, stack'[j].op \in Ticketed,
               stack'[i].ticket = stack'[j].ticket
        PROVE  i = j
    <3>1. /\ i \in 1 .. Len(stack) \/ i = Len(stack) + 1
          /\ j \in 1 .. Len(stack) \/ j = Len(stack) + 1
      BY <1>1
    <3> QED
      BY <1>1, <2>3, <3>1 DEF Calls, StackOK
  <2> QED
    BY <1>1, <2>1, <2>2, <2>3 DEF StackOK
<1>3. ASSUME NEW i \in 1 .. Len(stack')
      PROVE  Witnessed(stack[i])'
  <2>1. CASE i \in 1 .. Len(stack)
    <3>1. PICK g \in Frames : g = stack[i]
      BY <1>1, <2>1
    <3>2. Witnessed(g)'
      BY <2>1, <3>1, Untouched DEF Calls, StackOK
    <3>3. g = stack'[i]
      BY <1>1, <2>1, <3>1
    <3> QED
      BY <3>2, <3>3 DEF Witnessed
  <2>2. CASE i = Len(stack) + 1
    BY <1>1, <2>2 DEF Witnessed
  <2> QED
    BY <1>1, <2>1, <2>2
<1>4. WorkFrames' = IF f.op = "WORK" THEN WorkFrames \cup {Len(stack) + 1} ELSE WorkFrames
  BY <1>1 DEF WorkFrames
<1>5. Len(stack) + 1 \notin WorkFrames
  BY <1>1 DEF WorkFrames
<1> QED
  BY <1>2, <1>3, <1>4, <1>5 DEF Calls

(* The calls under the innermost one are on other tickets.                  *)
LEMMA Below ==
  ASSUME Calls, stack # <<>>, NEW t,
         t = 0 \/ (Top.op \in Ticketed /\ t = Top.ticket)
  PROVE  \A i \in 1 .. Len(stack) - 1 :
           stack[i].op \in Ticketed => stack[i].ticket \in Tickets \ {t}
<1>1. Len(stack) \in Nat \ {0}
  BY EmptySeq DEF Calls, StackOK
<1>2. 0 \notin Tickets
  BY LimitsAssumption DEF Tickets
<1> QED
  BY <1>1, <1>2 DEF Calls, StackOK, Top

(* The innermost call ends, whatever becomes of its ticket.                 *)
LEMMA PopKeeps ==
  ASSUME Calls, stack # <<>>, stack' = Pop, NEW t, KeepsWitnesses(t),
         t = 0 \/ (Top.op \in Ticketed /\ t = Top.ticket)
  PROVE  /\ Calls'
         /\ Len(stack) \in WorkFrames <=> Top.op = "WORK"
         /\ WorkFrames' = WorkFrames \ {Len(stack)}
<1>1. /\ stack' \in Seq(Frames) /\ Len(stack') = Len(stack) - 1 /\ Len(stack) \in Nat \ {0}
      /\ \A i \in 1 .. Len(stack) - 1 : stack'[i] = stack[i]
      /\ \A i \in 1 .. Len(stack) : stack[i] \in Frames
  BY PopShape DEF Calls, StackOK
<1>2. StackOK'
  <2>1. 1 .. Len(stack') \subseteq 1 .. Len(stack) /\ Len(stack') <= MaxDepth + 1
    BY <1>1, LimitsAssumption DEF Calls, StackOK
  <2>2. \A i \in 1 .. Len(stack') : stack'[i] = stack[i]
    BY <1>1
  <2> QED
    BY <1>1, <2>1, <2>2 DEF Calls, StackOK
<1>3. ASSUME NEW i \in 1 .. Len(stack')
      PROVE  Witnessed(stack[i])'
  <2>1. i \in 1 .. Len(stack) - 1 /\ i \in 1 .. Len(stack)
    BY <1>1
  <2>2. PICK g \in Frames : g = stack[i]
    BY <1>1, <2>1
  <2>3. g.op \in Ticketed => g.ticket \in Tickets \ {t}
    BY <2>1, <2>2, Below
  <2>4. Witnessed(g)'
    BY <2>1, <2>2, <2>3, Untouched DEF Calls
  <2> QED
    BY <1>1, <2>1, <2>2, <2>4 DEF Witnessed
<1>4. Len(stack) \in WorkFrames <=> Top.op = "WORK"
  BY <1>1 DEF WorkFrames, Top
<1>5. WorkFrames' = WorkFrames \ {Len(stack)}
  BY <1>1 DEF WorkFrames
<1> QED
  BY <1>2, <1>3, <1>4, <1>5 DEF Calls

(* The arming of a timer goes over into its cancellation.                   *)
LEMMA ReplaceKeeps ==
  ASSUME Calls, stack # <<>>, Top.op = "ARM", NEW f \in Frames,
         f.op = "CANCEL", f.ticket = Top.ticket, stack' = Append(Pop, f),
         KeepsWitnesses(f.ticket), Witnessed(f)'
  PROVE  /\ Calls'
         /\ WorkFrames' = WorkFrames
<1>1. /\ stack' \in Seq(Frames) /\ Len(stack') = Len(stack) /\ Len(stack) \in Nat \ {0}
      /\ \A i \in 1 .. Len(stack) - 1 : stack'[i] = stack[i]
      /\ stack'[Len(stack)] = f
      /\ \A i \in 1 .. Len(stack) : stack[i] \in Frames
  BY PopShape, ReplaceEffect DEF Calls, StackOK
<1>2. /\ \A i \in 1 .. Len(stack) :
           stack'[i].ticket = stack[i].ticket
           /\ (stack'[i].op \in Ticketed <=> stack[i].op \in Ticketed)
           /\ (stack[i].op = "CANCEL" => stack'[i].op = "CANCEL")
  BY <1>1 DEF Top, Ticketed
<1>3. StackOK'
  <2>1. /\ Len(stack') <= MaxDepth + 1
        /\ \A i \in 1 .. Len(stack') : i > MaxDepth => stack'[i].op = "CANCEL"
    BY <1>1, <1>2 DEF Calls, StackOK
  <2>2. \A i \in 1 .. Len(stack') :
          stack'[i].op \in Ticketed => stack'[i].ticket \in Tickets
    BY <1>1, <1>2 DEF Calls, StackOK
  <2>3. \A i, j \in 1 .. Len(stack') :
          /\ stack'[i].op \in Ticketed /\ stack'[j].op \in Ticketed
          /\ stack'[i].ticket = stack'[j].ticket
          => i = j
    BY <1>1, <1>2 DEF Calls, StackOK
  <2> QED
    BY <1>1, <2>1, <2>2, <2>3 DEF StackOK
<1>4. ASSUME NEW i \in 1 .. Len(stack')
      PROVE  Witnessed(stack[i])'
  <2>1. CASE i \in 1 .. Len(stack) - 1
    <3>1. i \in 1 .. Len(stack)
      BY <1>1
    <3>2. PICK g \in Frames : g = stack[i]
      BY <1>1, <3>1
    <3>3. g.op \in Ticketed => g.ticket \in Tickets \ {f.ticket}
      BY <2>1, <3>2, Below DEF Ticketed
    <3>4. Witnessed(g)'
      BY <3>1, <3>2, <3>3, Untouched DEF Calls
    <3> QED
      BY <1>1, <2>1, <3>2, <3>4 DEF Witnessed
  <2>2. CASE i = Len(stack)
    BY <1>1, <2>2 DEF Witnessed
  <2> QED
    BY <1>1, <2>1, <2>2
<1>5. WorkFrames' = WorkFrames
  BY <1>1 DEF WorkFrames, Top
<1> QED
  BY <1>3, <1>4, <1>5 DEF Calls

(* A step inside the innermost call.                                        *)
LEMMA CallsKept ==
  ASSUME Calls, stack' = stack, KeepsWitnesses(0)
  PROVE  Calls' /\ WorkFrames' = WorkFrames
<1>1. \A i \in 1 .. Len(stack) :
        stack[i] \in Frames /\ (stack[i].op \in Ticketed => stack[i].ticket \in Tickets \ {0})
  BY LimitsAssumption DEF Calls, StackOK, Tickets
<1>2. ASSUME NEW i \in 1 .. Len(stack)
      PROVE  Witnessed(stack[i])'
  <2>1. PICK g \in Frames : g = stack[i]
    BY <1>1
  <2>2. Witnessed(g)'
    BY <1>1, <2>1, Untouched DEF Calls
  <2> QED
    BY <2>1, <2>2 DEF Witnessed
<1> QED
  BY <1>2 DEF Calls, StackOK, WorkFrames

-----------------------------------------------------------------------------
(* The parts of a step.                                                     *)

LEMMA ActiveFinite ==
  ASSUME NEW A, A \in SUBSET Tickets
  PROVE  IsFiniteSet(A) /\ Cardinality(A) \in Nat
<1>1. IsFiniteSet(Tickets)
  BY FS_Interval, LimitsAssumption DEF Tickets
<1> QED
  BY <1>1, FS_Subset, FS_CardinalityType

LEMMA FewerActive ==
  ASSUME NEW A, A \in SUBSET Tickets, NEW B, B \subseteq A,
         Cardinality(A) <= MaxConcurrentTimers
  PROVE  Cardinality(B) <= MaxConcurrentTimers
<1>1. IsFiniteSet(A) /\ Cardinality(A) \in Nat /\ Cardinality(B) \in Nat
  BY ActiveFinite
<1>2. Cardinality(B) <= Cardinality(A)
  BY <1>1, FS_Subset
<1> QED
  BY <1>1, <1>2, LimitsAssumption

(* A row moves; the owner does not regain its trust in the timers.          *)
LEMMA RowMoves ==
  ASSUME row \in [Tickets -> RowStates], NEW t \in Tickets, NEW v \in RowStates,
         row' = [row EXCEPT ![t] = v], owner.failedControl => owner'.failedControl
  PROVE  /\ row' \in [Tickets -> RowStates] /\ row'[t] = v
         /\ \A u \in Tickets \ {t} : row'[u] = row[u]
         /\ KeepsWitnesses(t)
<1>1. /\ row' \in [Tickets -> RowStates] /\ row'[t] = v
      /\ \A u \in Tickets \ {t} : row'[u] = row[u]
  OBVIOUS
<1>2. KeepsWitnesses(t)
  BY <1>1 DEF KeepsWitnesses, Witnessed
<1> QED
  BY <1>1, <1>2

LEMMA RowsStay ==
  ASSUME row' = row, owner.failedControl => owner'.failedControl
  PROVE  KeepsWitnesses(0)
BY DEF KeepsWitnesses, Witnessed

(* The innermost call, when it is made for a ticket: a close has not ended   *)
(* cleanly over it.                                                          *)
LEMMA TopFacts ==
  ASSUME DeadlineInv, stack # <<>>, Top.op \in Ticketed
  PROVE  /\ Top \in Frames /\ Top.ticket \in Tickets /\ Witnessed(Top)
         /\ owner.closeOutcome # "CLOSED"
         /\ Top.op = "WORK" => owner.delivering > 0
<1>1. /\ Len(stack) \in 1 .. Len(stack) /\ Top = stack[Len(stack)] /\ Top \in Frames
  BY EmptySeq DEF DeadlineInv, Calls, StackOK, Top
<1>2. Top.ticket \in Tickets /\ Witnessed(Top)
  BY <1>1 DEF DeadlineInv, Calls, StackOK
<1>3. Top.op = "WORK" => owner.delivering > 0
  <2>1. Top.op = "WORK" => WorkFrames # {}
    BY <1>1 DEF WorkFrames
  <2> QED
    BY <2>1, WorkFramesFinite DEF DeadlineInv, Calls
<1>4. owner.closeOutcome = "CLOSED" =>
        owner.active = {} /\ ~owner.failedControl /\ owner.delivering = 0
  BY DEF DeadlineInv, OwnerOK
<1>5. RowOK(Top.ticket)
  BY <1>2 DEF DeadlineInv
<1>6. owner.closeOutcome # "CLOSED"
  BY <1>2, <1>3, <1>4, <1>5 DEF Witnessed, RowOK, Ticketed
<1> QED
  BY <1>1, <1>2, <1>3, <1>6

(* A ticket whose row is armed, or was never used, is in no call.           *)
LEMMA Idle ==
  ASSUME DeadlineInv, NEW t \in Tickets, row[t] \in {"UNUSED", "ARMED"}
  PROVE  \A i \in 1 .. Len(stack) : stack[i].op \in Ticketed => stack[i].ticket # t
BY DEF DeadlineInv, Calls, Witnessed, Ticketed

-----------------------------------------------------------------------------
(* Every operation keeps the invariant.                                     *)

LEMMA ScheduleKeeps ==
  ASSUME DeadlineInv, Schedule
  PROVE  DeadlineInv'
<1>1. PICK t : t = starts + 1
  OBVIOUS
<1>2. /\ t \in Tickets /\ starts \in 0 .. MaxScheduleStarts /\ t > starts
  BY <1>1, LimitsAssumption DEF Schedule, DeadlineInv, Tickets
<1>3. /\ row' = [row EXCEPT ![t] = "ARMING"]
      /\ owner' = [owner EXCEPT !.active = @ \cup {t}]
      /\ starts' = t /\ live' = live \cup {t}
      /\ stack' = Push(Frame("ARM", t))
      /\ UNCHANGED <<premature, ran, withdrawn>>
      /\ Healthy /\ Cardinality(owner.active) < MaxConcurrentTimers
      /\ Len(stack) < MaxDepth
  BY <1>1 DEF Schedule, Outside
<1>4. /\ OwnerOK(owner') /\ owner'.active = owner.active \cup {t}
      /\ owner'.delivering = owner.delivering
      /\ owner'.failedControl = owner.failedControl
  BY <1>2, <1>3 DEF DeadlineInv, OwnerOK, Healthy
<1>5. /\ row' \in [Tickets -> RowStates] /\ row'[t] = "ARMING"
      /\ \A u \in Tickets \ {t} : row'[u] = row[u]
      /\ KeepsWitnesses(t)
  BY <1>2, <1>3, <1>4, RowMoves DEF DeadlineInv, RowStates
<1>6. row[t] = "UNUSED" /\ t \notin owner.active
  BY <1>2 DEF DeadlineInv, RowOK
<1>7. PICK f \in Frames : f = Frame("ARM", t) /\ f.op = "ARM" /\ f.ticket = t
  BY <1>2, FrameType DEF Tickets
<1>8. Witnessed(f)'
  BY <1>5, <1>7 DEF Witnessed
<1>9. Calls' /\ WorkFrames' = WorkFrames
  BY <1>2, <1>3, <1>5, <1>6, <1>7, <1>8, Idle, PushKeeps DEF DeadlineInv
<1>10. Cardinality(owner'.active) <= MaxConcurrentTimers
  <2>1. IsFiniteSet(owner.active) /\ Cardinality(owner.active) \in Nat
    BY ActiveFinite DEF DeadlineInv, OwnerOK
  <2>2. Cardinality(owner.active \cup {t}) = Cardinality(owner.active) + 1
    BY <1>6, <2>1, FS_AddElement
  <2> QED
    BY <1>3, <1>4, <2>1, <2>2, LimitsAssumption
<1>11. ASSUME NEW u \in Tickets
       PROVE  RowOK(u)'
  <2>1. RowOK(u) /\ RowOK(t)
    BY <1>2 DEF DeadlineInv
  <2>2. CASE u = t
    BY <1>1, <1>2, <1>3, <1>4, <1>5, <1>6, <2>1, <2>2 DEF RowOK
  <2>3. CASE u # t
    <3>1. u > starts' => u > starts
      BY <1>1, <1>2, <1>3 DEF Tickets
    <3> QED
      BY <1>3, <1>4, <1>5, <2>1, <2>3, <3>1 DEF RowOK
  <2> QED
    BY <2>2, <2>3
<1> QED
  BY <1>2, <1>3, <1>4, <1>5, <1>9, <1>10, <1>11 DEF DeadlineInv, Tickets

(* The steps that move the row of one active ticket, and start none.        *)
LEMMA RowsSound ==
  ASSUME DeadlineInv, NEW t \in Tickets, starts' = starts,
         \A u \in Tickets \ {t} :
           row'[u] = row[u] /\ (u \in owner'.active <=> u \in owner.active)
           /\ (u \in ran' \cup withdrawn' => u \in ran \cup withdrawn),
         live' \subseteq live, live' \subseteq owner'.active,
         owner.failedControl => owner'.failedControl,
         row[t] # "UNUSED", RowOK(t)'
  PROVE  \A u \in Tickets : RowOK(u)'
<1>1. ASSUME NEW u \in Tickets, u # t
      PROVE  RowOK(u)'
  BY <1>1 DEF DeadlineInv, RowOK
<1> QED
  BY <1>1

(* Every step that ends an arming, a cancellation or a callback.            *)
LEMMA EndKeeps ==
  ASSUME DeadlineInv, stack # <<>>, Top.op \in Ticketed, stack' = Pop,
         NEW v \in RowStates, row' = [row EXCEPT ![Top.ticket] = v],
         OwnerOK(owner'),
         \/ owner'.active = owner.active
         \/ owner'.active = owner.active \ {Top.ticket},
         owner'.delivering = IF Top.op = "WORK" THEN owner.delivering - 1
                             ELSE owner.delivering,
         owner.failedControl => owner'.failedControl,
         starts' = starts, premature' = premature, ran' = ran, withdrawn' = withdrawn,
         live' \subseteq live, live' \subseteq owner'.active,
         v \in {"ARMING", "ARMED", "ARM_UNKNOWN", "CANCELLING"} => Top.ticket \in owner'.active,
         v = "CANCEL_UNKNOWN" => owner'.failedControl,
         Top.op = "ARM" \/ v \in {"CANCEL_UNKNOWN", "CANCELLED", "FIRED"}
  PROVE  DeadlineInv'
<1>1. PICK t \in Tickets : t = Top.ticket
  BY TopFacts
<1>2. /\ row' \in [Tickets -> RowStates] /\ row'[t] = v
      /\ \A u \in Tickets \ {t} : row'[u] = row[u]
      /\ KeepsWitnesses(t)
  BY <1>1, RowMoves DEF DeadlineInv
<1>3. /\ Calls'
      /\ Len(stack) \in WorkFrames <=> Top.op = "WORK"
      /\ WorkFrames' = WorkFrames \ {Len(stack)}
  BY <1>1, <1>2, PopKeeps DEF DeadlineInv
<1>4. owner'.delivering = Cardinality(WorkFrames')
  <2>1. IsFiniteSet(WorkFrames) /\ owner.delivering = Cardinality(WorkFrames)
    BY WorkFramesFinite DEF DeadlineInv, Calls
  <2>2. Cardinality(WorkFrames \ {Len(stack)}) =
          IF Len(stack) \in WorkFrames THEN Cardinality(WorkFrames) - 1
          ELSE Cardinality(WorkFrames)
    BY <2>1, FS_RemoveElement
  <2> QED
    BY <1>3, <2>1, <2>2
<1>5. Cardinality(owner'.active) <= MaxConcurrentTimers
  BY FewerActive DEF DeadlineInv, OwnerOK
<1>6. row[t] # "UNUSED" /\ (Top.op = "ARM" => t \notin ran \cup withdrawn)
  <2>1. Witnessed(Top) /\ RowOK(t)
    BY <1>1, TopFacts DEF DeadlineInv
  <2> QED
    BY <1>1, <2>1 DEF Witnessed, RowOK, Ticketed
<1>7. RowOK(t)'
  BY <1>1, <1>2, <1>6 DEF RowOK, DeadlineInv
<1>8. \A u \in Tickets : RowOK(u)'
  BY <1>1, <1>2, <1>6, <1>7, RowsSound
<1> QED
  BY <1>2, <1>3, <1>4, <1>5, <1>8 DEF DeadlineInv

LEMMA ArmFailsKeeps ==
  ASSUME DeadlineInv, ArmFails
  PROVE  DeadlineInv'
<1>1. /\ stack # <<>> /\ Top.op = "ARM" /\ stack' = Pop
      /\ row' = [row EXCEPT ![Top.ticket] = "ARM_UNKNOWN"]
      /\ owner' = FinishClose(Uncertain(owner))
      /\ live' \subseteq live
      /\ UNCHANGED <<premature, starts, ran, withdrawn>>
  BY DEF ArmFails, Inside
<1>2. Top.ticket \in Tickets /\ Witnessed(Top) /\ owner.closeOutcome # "CLOSED"
  BY <1>1, TopFacts DEF Ticketed
<1>3. /\ OwnerOK(owner') /\ owner'.active = owner.active
      /\ owner'.delivering = owner.delivering /\ owner'.failedControl
  BY <1>1, <1>2, UncertainKeeps, FinishCloseKeeps DEF DeadlineInv
<1>4. Top.ticket \in owner.active /\ live \subseteq owner.active
  BY <1>1, <1>2 DEF DeadlineInv, RowOK, Witnessed
<1> QED
  BY <1>1, <1>3, <1>4, EndKeeps DEF Ticketed, RowStates

LEMMA ArmedKeeps ==
  ASSUME DeadlineInv, Armed
  PROVE  DeadlineInv'
<1>1. /\ stack # <<>> /\ Top.op = "ARM" /\ stack' = Pop
      /\ row' = [row EXCEPT ![Top.ticket] = "ARMED"]
      /\ UNCHANGED <<owner, premature, starts, live, ran, withdrawn>>
  BY DEF Armed, Inside
<1>2. Top.ticket \in Tickets /\ Witnessed(Top)
  BY <1>1, TopFacts DEF Ticketed
<1>3. Top.ticket \in owner.active /\ live \subseteq owner.active /\ OwnerOK(owner)
  BY <1>1, <1>2 DEF DeadlineInv, RowOK, Witnessed
<1> QED
  BY <1>1, <1>3, EndKeeps DEF Ticketed, RowStates

LEMMA CancelledKeeps ==
  ASSUME DeadlineInv, Cancelled
  PROVE  DeadlineInv'
<1>1. /\ stack # <<>> /\ Top.op = "CANCEL" /\ stack' = Pop
      /\ row' = [row EXCEPT ![Top.ticket] = "CANCELLED"]
      /\ owner' = FinishClose(Release(owner, Top.ticket))
      /\ live' = live \ {Top.ticket}
      /\ UNCHANGED <<premature, starts, ran, withdrawn>>
  BY DEF Cancelled, Inside
<1>2. /\ OwnerOK(owner') /\ owner'.active = owner.active \ {Top.ticket}
      /\ owner'.delivering = owner.delivering
      /\ owner'.failedControl = owner.failedControl
  BY <1>1, ReleaseKeeps, FinishCloseKeeps DEF DeadlineInv
<1>3. live \subseteq owner.active
  BY DEF DeadlineInv, RowOK
<1> QED
  BY <1>1, <1>2, <1>3, EndKeeps DEF Ticketed, RowStates

LEMMA CancelFailsKeeps ==
  ASSUME DeadlineInv, CancelFails
  PROVE  DeadlineInv'
<1>1. /\ stack # <<>> /\ Top.op = "CANCEL" /\ stack' = Pop
      /\ row' = [row EXCEPT ![Top.ticket] = "CANCEL_UNKNOWN"]
      /\ owner' = FinishClose(Uncertain(owner))
      /\ UNCHANGED <<premature, starts, live, ran, withdrawn>>
  BY DEF CancelFails, Inside
<1>2. owner.closeOutcome # "CLOSED"
  BY <1>1, TopFacts DEF Ticketed
<1>3. /\ OwnerOK(owner') /\ owner'.active = owner.active
      /\ owner'.delivering = owner.delivering /\ owner'.failedControl
  BY <1>1, <1>2, UncertainKeeps, FinishCloseKeeps DEF DeadlineInv
<1>4. live \subseteq owner.active
  BY DEF DeadlineInv, RowOK
<1> QED
  BY <1>1, <1>3, <1>4, EndKeeps DEF Ticketed, RowStates

LEMMA WorkEndsKeeps ==
  ASSUME DeadlineInv, WorkEnds
  PROVE  DeadlineInv'
<1> DEFINE o == [owner EXCEPT !.delivering = @ - 1]
<1>1. /\ stack # <<>> /\ Top.op = "WORK" /\ stack' = Pop
      /\ row' = [row EXCEPT ![Top.ticket] = "FIRED"]
      /\ owner' \in {FinishClose(o), FinishClose(MarkUnknown(o))}
      /\ UNCHANGED <<premature, starts, live, ran, withdrawn>>
  BY DEF WorkEnds, Inside
<1>2. owner.closeOutcome # "CLOSED" /\ owner.delivering > 0
  BY <1>1, TopFacts DEF Ticketed
<1>3. /\ OwnerOK(o) /\ o.active = owner.active
      /\ o.delivering = owner.delivering - 1
      /\ o.failedControl = owner.failedControl
  BY <1>2 DEF DeadlineInv, OwnerOK
<1> HIDE DEF o
<1>4. /\ OwnerOK(owner') /\ owner'.active = owner.active
      /\ owner'.delivering = owner.delivering - 1
      /\ owner'.failedControl = owner.failedControl
  BY <1>1, <1>3, MarkUnknownKeeps, FinishCloseKeeps
<1>5. live \subseteq owner.active
  BY DEF DeadlineInv, RowOK
<1> QED
  BY <1>1, <1>4, <1>5, EndKeeps DEF Ticketed, RowStates

LEMMA ArmedTooLateKeeps ==
  ASSUME DeadlineInv, ArmedTooLate
  PROVE  DeadlineInv'
<1>1. /\ stack # <<>> /\ Top.op = "ARM"
      /\ owner' = Uncertain(owner)
      /\ row' = [row EXCEPT ![Top.ticket] = "CANCELLING"]
      /\ withdrawn' = withdrawn \cup {Top.ticket}
      /\ stack' = Append(Pop, Frame("CANCEL", Top.ticket))
      /\ UNCHANGED <<premature, starts, live, ran>>
  BY DEF ArmedTooLate, Inside
<1>2. /\ Top.ticket \in Tickets /\ Witnessed(Top) /\ owner.closeOutcome # "CLOSED"
  BY <1>1, TopFacts DEF Ticketed
<1>3. PICK t \in Tickets : t = Top.ticket
  BY <1>2
<1>4. /\ OwnerOK(owner') /\ owner'.active = owner.active
      /\ owner'.delivering = owner.delivering /\ owner'.failedControl
  BY <1>1, <1>2, UncertainKeeps DEF DeadlineInv
<1>5. row[t] = "ARMING" /\ RowOK(t)
  BY <1>1, <1>2, <1>3 DEF Witnessed, DeadlineInv
<1>6. /\ row' \in [Tickets -> RowStates] /\ row'[t] = "CANCELLING"
      /\ \A u \in Tickets \ {t} : row'[u] = row[u]
      /\ KeepsWitnesses(t)
  BY <1>1, <1>3, <1>4, RowMoves DEF DeadlineInv, RowStates
<1>7. PICK f \in Frames : f = Frame("CANCEL", t) /\ f.op = "CANCEL" /\ f.ticket = t
  BY TicketFrame
<1>8. Witnessed(f)'
  BY <1>6, <1>7 DEF Witnessed
<1>9. Calls' /\ WorkFrames' = WorkFrames
  BY <1>1, <1>3, <1>6, <1>7, <1>8, ReplaceKeeps DEF DeadlineInv
<1>10. \A u \in Tickets : RowOK(u)'
  <2>1. RowOK(t)'
    BY <1>1, <1>3, <1>4, <1>5, <1>6 DEF RowOK
  <2>2. live' \subseteq live /\ live' \subseteq owner'.active
    BY <1>1, <1>4 DEF DeadlineInv, RowOK
  <2> QED
    BY <1>1, <1>3, <1>4, <1>5, <1>6, <2>1, <2>2, RowsSound
<1> QED
  BY <1>1, <1>3, <1>4, <1>6, <1>9, <1>10 DEF DeadlineInv

(* cancelRow() and the loop of close() claim an armed row before they enter  *)
(* the actuator.                                                             *)
LEMMA ActuatorKeeps ==
  ASSUME DeadlineInv, NEW t \in Tickets, row[t] = "ARMED",
         row' = [row EXCEPT ![t] = "CANCELLING"],
         withdrawn' = withdrawn \cup {t},
         stack' = Push(Frame("CANCEL", t)), Len(stack) <= MaxDepth,
         OwnerOK(owner'), owner'.active = owner.active,
         owner'.delivering = owner.delivering,
         owner.failedControl => owner'.failedControl,
         UNCHANGED <<premature, starts, live, ran>>
  PROVE  DeadlineInv'
<1>1. RowOK(t) /\ Len(stack) \in Nat
  BY DEF DeadlineInv, Calls, StackOK
<1>2. /\ row' \in [Tickets -> RowStates] /\ row'[t] = "CANCELLING"
      /\ \A u \in Tickets \ {t} : row'[u] = row[u]
      /\ KeepsWitnesses(t)
  BY RowMoves DEF DeadlineInv, RowStates
<1>3. PICK f \in Frames : f = Frame("CANCEL", t) /\ f.op = "CANCEL" /\ f.ticket = t
  BY TicketFrame
<1>4. Witnessed(f)'
  BY <1>2, <1>3 DEF Witnessed
<1>5. Calls' /\ WorkFrames' = WorkFrames
  <2>1. Len(stack) < MaxDepth \/ Len(stack) = MaxDepth
    BY <1>1, LimitsAssumption
  <2> QED
    BY <1>2, <1>3, <1>4, <2>1, Idle, PushKeeps DEF DeadlineInv
<1>6. \A u \in Tickets : RowOK(u)'
  <2>1. RowOK(t)'
    BY <1>1, <1>2 DEF RowOK
  <2>2. live' \subseteq live /\ live' \subseteq owner'.active
    BY DEF DeadlineInv, RowOK
  <2> QED
    BY <1>2, <2>1, <2>2, RowsSound
<1> QED
  BY <1>2, <1>5, <1>6 DEF DeadlineInv

(* A step that moves no row.                                                *)
LEMMA RowsRest ==
  ASSUME DeadlineInv, Calls', WorkFrames' = WorkFrames,
         OwnerOK(owner'), owner'.active = owner.active,
         owner'.delivering = owner.delivering,
         owner.failedControl => owner'.failedControl,
         UNCHANGED <<row, starts, ran, withdrawn>>,
         live' \subseteq live, premature' \subseteq Tickets
  PROVE  DeadlineInv'
<1>1. \A u \in Tickets : RowOK(u)'
  BY DEF DeadlineInv, RowOK
<1> QED
  BY <1>1 DEF DeadlineInv

LEMMA CancelKeeps ==
  ASSUME DeadlineInv, NEW t \in Tickets, Cancel(t)
  PROVE  DeadlineInv'
<1>1. CASE Outside /\ CallActuator(t)
  <2>1. Len(stack) <= MaxDepth
    BY <1>1, LimitsAssumption DEF Outside, DeadlineInv, Calls, StackOK
  <2>2. OwnerOK(owner)
    BY DEF DeadlineInv
  <2> QED
    BY <1>1, <2>1, <2>2, ActuatorKeeps DEF CallActuator
<1>2. CASE /\ row[t] \in {"CANCELLING", "CANCEL_UNKNOWN"}
           /\ owner' = Uncertain(owner)
           /\ UNCHANGED <<row, premature, starts, stack, live, ran, withdrawn>>
  <2>1. owner.closeOutcome # "CLOSED"
    BY <1>2 DEF DeadlineInv, OwnerOK, RowOK
  <2>2. /\ OwnerOK(owner') /\ owner'.active = owner.active
        /\ owner'.delivering = owner.delivering /\ owner'.failedControl
    BY <1>2, <2>1, UncertainKeeps DEF DeadlineInv
  <2>3. Calls' /\ WorkFrames' = WorkFrames
    BY <1>2, <2>2, RowsStay, CallsKept DEF DeadlineInv
  <2>4. live' \subseteq live /\ premature' \subseteq Tickets
    BY <1>2 DEF DeadlineInv
  <2> QED
    BY <1>2, <2>2, <2>3, <2>4, RowsRest
<1> QED
  BY <1>1, <1>2 DEF Cancel

LEMMA SuppressedKeeps ==
  ASSUME DeadlineInv, NEW t \in Tickets, Suppressed(t), live' = live \ {t},
         UNCHANGED <<starts, withdrawn>>
  PROVE  DeadlineInv'
<1> DEFINE o == Release(owner, t)
<1>1. /\ row[t] \in {"ARMED", "ARM_UNKNOWN", "CANCELLING", "CANCEL_UNKNOWN"}
      /\ row' = [row EXCEPT ![t] = "FIRED"]
      /\ owner' = FinishClose(IF row[t] = "CANCELLING" THEN Uncertain(o) ELSE o)
      /\ UNCHANGED <<premature, stack, ran>>
  BY DEF Suppressed
<1>2. /\ OwnerOK(o) /\ o.active = owner.active \ {t}
      /\ o.delivering = owner.delivering /\ o.closeOutcome = owner.closeOutcome
      /\ o.failedControl = owner.failedControl
  BY ReleaseKeeps DEF DeadlineInv
<1> HIDE DEF o
<1>3. row[t] = "CANCELLING" => owner.closeOutcome # "CLOSED"
  BY DEF DeadlineInv, OwnerOK, RowOK
<1>4. /\ OwnerOK(owner') /\ owner'.active = owner.active \ {t}
      /\ owner'.delivering = owner.delivering
      /\ owner.failedControl => owner'.failedControl
      /\ row[t] = "CANCELLING" => owner'.failedControl
  <2>1. CASE row[t] = "CANCELLING"
    <3>1. /\ OwnerOK(Uncertain(o)) /\ Uncertain(o).active = o.active
          /\ Uncertain(o).delivering = o.delivering /\ Uncertain(o).failedControl
      BY <1>2, <1>3, <2>1, UncertainKeeps
    <3>2. owner' = FinishClose(Uncertain(o))
      BY <1>1, <2>1
    <3> QED
      BY <1>2, <3>1, <3>2, FinishCloseKeeps
  <2>2. CASE row[t] # "CANCELLING"
    <3>1. owner' = FinishClose(o)
      BY <1>1, <2>2
    <3> QED
      BY <1>2, <2>2, <3>1, FinishCloseKeeps
  <2> QED
    BY <2>1, <2>2
<1>5. /\ row' \in [Tickets -> RowStates] /\ row'[t] = "FIRED"
      /\ \A u \in Tickets \ {t} : row'[u] = row[u]
      /\ KeepsWitnesses(t)
  BY <1>1, <1>4, RowMoves DEF DeadlineInv, RowStates
<1>6. KeepsWitnesses(0)
  BY <1>1, <1>4, <1>5 DEF KeepsWitnesses, Witnessed
<1>7. Calls' /\ WorkFrames' = WorkFrames
  BY <1>1, <1>6, CallsKept DEF DeadlineInv
<1>8. \A u \in Tickets : RowOK(u)'
  <2>1. RowOK(t)
    BY DEF DeadlineInv
  <2>2. RowOK(t)'
    BY <1>1, <1>4, <1>5, <2>1 DEF RowOK
  <2>3. live' \subseteq live /\ live' \subseteq owner'.active
    BY <1>4 DEF DeadlineInv, RowOK
  <2> QED
    BY <1>1, <1>4, <1>5, <2>2, <2>3, RowsSound
<1>9. Cardinality(owner'.active) <= MaxConcurrentTimers
  BY <1>4, FewerActive DEF DeadlineInv, OwnerOK
<1> QED
  BY <1>1, <1>4, <1>5, <1>7, <1>8, <1>9 DEF DeadlineInv

LEMMA PrematureKeeps ==
  ASSUME DeadlineInv, NEW t \in Tickets, Premature(t), live' = live \ {t},
         UNCHANGED <<starts, withdrawn>>
  PROVE  DeadlineInv'
<1>1. /\ row[t] = "ARMING" /\ premature' = premature \cup {t}
      /\ owner' = Uncertain(owner) /\ UNCHANGED <<row, stack, ran>>
  BY DEF Premature
<1>2. owner.closeOutcome # "CLOSED"
  BY <1>1 DEF DeadlineInv, OwnerOK, RowOK
<1>3. /\ OwnerOK(owner') /\ owner'.active = owner.active
      /\ owner'.delivering = owner.delivering /\ owner'.failedControl
  BY <1>1, <1>2, UncertainKeeps DEF DeadlineInv
<1>4. Calls' /\ WorkFrames' = WorkFrames
  BY <1>1, <1>3, RowsStay, CallsKept DEF DeadlineInv
<1>5. live' \subseteq live /\ premature' \subseteq Tickets
  BY <1>1 DEF DeadlineInv
<1> QED
  BY <1>1, <1>3, <1>4, <1>5, RowsRest

(* A callback is entered: one more running, and its row no longer active.   *)
LEMMA DeliverKeeps ==
  ASSUME DeadlineInv, NEW t \in Tickets, Outside, Deliver(t), live' = live \ {t},
         UNCHANGED <<starts, withdrawn>>
  PROVE  DeadlineInv'
<1>1. /\ row[t] = "ARMED" /\ Healthy /\ Len(stack) < MaxDepth
      /\ row' = [row EXCEPT ![t] = "DELIVERING"]
      /\ owner' = [Release(owner, t) EXCEPT !.delivering = @ + 1]
      /\ ran' = ran \cup {t}
      /\ stack' = Push(Frame("WORK", t))
      /\ UNCHANGED premature
  BY DEF Deliver, Outside
<1>2. owner.closeOutcome # "CLOSED"
  BY <1>1 DEF DeadlineInv, OwnerOK, Healthy
<1>3. /\ OwnerOK(owner') /\ owner'.active = owner.active \ {t}
      /\ owner'.delivering = owner.delivering + 1
      /\ owner'.failedControl = owner.failedControl
  BY <1>1, <1>2, ReleaseKeeps DEF DeadlineInv, OwnerOK
<1>4. /\ row' \in [Tickets -> RowStates] /\ row'[t] = "DELIVERING"
      /\ \A u \in Tickets \ {t} : row'[u] = row[u]
      /\ KeepsWitnesses(t)
  BY <1>1, <1>3, RowMoves DEF DeadlineInv, RowStates
<1>5. PICK f \in Frames : f = Frame("WORK", t) /\ f.op = "WORK" /\ f.ticket = t
  <2>1. t \in 0 .. MaxScheduleStarts
    BY LimitsAssumption DEF Tickets
  <2> QED
    BY <2>1, FrameType
<1>6. Witnessed(f)'
  BY <1>4, <1>5 DEF Witnessed
<1>7. /\ Calls'
      /\ WorkFrames' = WorkFrames \cup {Len(stack) + 1}
      /\ Len(stack) + 1 \notin WorkFrames
  BY <1>1, <1>4, <1>5, <1>6, Idle, PushKeeps DEF DeadlineInv
<1>8. owner'.delivering = Cardinality(WorkFrames')
  <2>1. IsFiniteSet(WorkFrames) /\ owner.delivering = Cardinality(WorkFrames)
    BY WorkFramesFinite DEF DeadlineInv, Calls
  <2>2. Cardinality(WorkFrames \cup {Len(stack) + 1}) = Cardinality(WorkFrames) + 1
    BY <1>7, <2>1, FS_AddElement
  <2> QED
    BY <1>3, <1>7, <2>1, <2>2
<1>9. \A u \in Tickets : RowOK(u)'
  <2>1. RowOK(t)
    BY DEF DeadlineInv
  <2>2. RowOK(t)'
    BY <1>1, <1>3, <1>4, <2>1 DEF RowOK
  <2>3. live' \subseteq live /\ live' \subseteq owner'.active
    BY <1>3 DEF DeadlineInv, RowOK
  <2> QED
    BY <1>1, <1>3, <1>4, <2>2, <2>3, RowsSound
<1>10. Cardinality(owner'.active) <= MaxConcurrentTimers
  BY <1>3, FewerActive DEF DeadlineInv, OwnerOK
<1> QED
  BY <1>1, <1>3, <1>4, <1>7, <1>8, <1>9, <1>10 DEF DeadlineInv

(* The clock and the loop of close() are on no ticket.                      *)
LEMMA BarePush ==
  ASSUME Calls, NEW op, op \in {"CLOCK", "CLOSE"}, stack' = Push(Frame(op, 0)),
         Len(stack) < MaxDepth, KeepsWitnesses(0)
  PROVE  Calls' /\ WorkFrames' = WorkFrames
<1>1. PICK f \in Frames : f = Frame(op, 0) /\ f.op = op /\ f.ticket = 0
  <2>1. 0 \in 0 .. MaxScheduleStarts
    BY LimitsAssumption
  <2> QED
    BY <2>1, FrameType
<1>2. f.op \notin Ticketed /\ f.op # "WORK"
  BY <1>1 DEF Ticketed
<1>3. Witnessed(f)'
  BY <1>2 DEF Witnessed, Ticketed
<1>4. \A i \in 1 .. Len(stack) : stack[i].op \in Ticketed => stack[i].ticket # 0
  BY LimitsAssumption DEF Calls, StackOK, Tickets
<1> QED
  BY <1>1, <1>2, <1>3, <1>4, PushKeeps

LEMMA BarePop ==
  ASSUME Calls, stack # <<>>, Top.op \in {"CLOCK", "CLOSE"}, stack' = Pop, KeepsWitnesses(0)
  PROVE  Calls' /\ WorkFrames' = WorkFrames
<1>1. /\ Calls'
      /\ Len(stack) \in WorkFrames <=> Top.op = "WORK"
      /\ WorkFrames' = WorkFrames \ {Len(stack)}
  BY PopKeeps
<1> QED
  BY <1>1

LEMMA ClockKeeps ==
  ASSUME DeadlineInv, ReadClock \/ ClockReturns
  PROVE  DeadlineInv'
<1>1. CASE ReadClock
  <2>1. /\ Len(stack) < MaxDepth /\ stack' = Push(Frame("CLOCK", 0))
        /\ UNCHANGED <<owner, row, premature, starts, live, ran, withdrawn>>
    BY <1>1 DEF ReadClock, Outside
  <2>2. Calls' /\ WorkFrames' = WorkFrames
    BY <2>1, RowsStay, BarePush DEF DeadlineInv
  <2>3. OwnerOK(owner') /\ live' \subseteq live /\ premature' \subseteq Tickets
    BY <2>1 DEF DeadlineInv
  <2> QED
    BY <2>1, <2>2, <2>3, RowsRest
<1>2. CASE ClockReturns
  <2>1. /\ stack # <<>> /\ Top.op = "CLOCK" /\ stack' = Pop
        /\ owner' \in {owner, MarkUnknown(owner)}
        /\ UNCHANGED <<row, premature, starts, live, ran, withdrawn>>
    BY <1>2 DEF ClockReturns, Inside
  <2>2. /\ OwnerOK(owner') /\ owner'.active = owner.active
        /\ owner'.delivering = owner.delivering
        /\ owner'.failedControl = owner.failedControl
    BY <2>1, MarkUnknownKeeps DEF DeadlineInv
  <2>3. Calls' /\ WorkFrames' = WorkFrames
    BY <2>1, <2>2, RowsStay, BarePop DEF DeadlineInv
  <2>4. live' \subseteq live /\ premature' \subseteq Tickets
    BY <2>1 DEF DeadlineInv
  <2> QED
    BY <2>1, <2>2, <2>3, <2>4, RowsRest
<1> QED
  BY <1>1, <1>2

LEMMA CloseKeeps ==
  ASSUME DeadlineInv, Close
  PROVE  DeadlineInv'
<1>1. /\ Len(stack) < MaxDepth /\ stack' = Push(Frame("CLOSE", 0))
      /\ owner' = [owner EXCEPT !.phase = "CLOSING", !.closeOutcome = "PENDING"]
      /\ UNCHANGED <<row, premature, starts, live, ran, withdrawn>>
  BY DEF Close, Outside
<1>2. /\ OwnerOK(owner') /\ owner'.active = owner.active
      /\ owner'.delivering = owner.delivering
      /\ owner'.failedControl = owner.failedControl
  BY <1>1 DEF DeadlineInv, OwnerOK
<1>3. Calls' /\ WorkFrames' = WorkFrames
  BY <1>1, <1>2, RowsStay, BarePush DEF DeadlineInv
<1>4. live' \subseteq live /\ premature' \subseteq Tickets
  BY <1>1 DEF DeadlineInv
<1> QED
  BY <1>1, <1>2, <1>3, <1>4, RowsRest

(* What the loop of close() does with rows it finds in doubt.               *)
LEMMA LoopKeeps ==
  ASSUME DeadlineInv, NEW ts, ts \subseteq owner.active
  PROVE  LET o == IF Passed(ts) # {} THEN Uncertain(owner) ELSE owner
         IN  /\ OwnerOK(o) /\ o.active = owner.active
             /\ o.delivering = owner.delivering
             /\ owner.failedControl => o.failedControl
<1>1. CASE Passed(ts) # {}
  <2>1. owner.closeOutcome # "CLOSED"
    BY <1>1 DEF DeadlineInv, OwnerOK, Passed
  <2> QED
    BY <1>1, <2>1, UncertainKeeps DEF DeadlineInv
<1>2. CASE Passed(ts) = {}
  BY <1>2 DEF DeadlineInv
<1> QED
  BY <1>1, <1>2

LEMMA CloseLoopKeeps ==
  ASSUME DeadlineInv, CloseNext \/ CloseLoopEnds
  PROVE  DeadlineInv'
<1>1. CASE CloseNext
  <2>1. PICK t \in ArmedRows :
          /\ row' = [row EXCEPT ![t] = "CANCELLING"]
          /\ withdrawn' = withdrawn \cup {t}
          /\ stack' = Push(Frame("CANCEL", t))
          /\ owner' = IF Passed({s \in owner.active : s < t}) # {} THEN Uncertain(owner)
                      ELSE owner
    BY <1>1 DEF CloseNext
  <2>2. /\ t \in Tickets /\ row[t] = "ARMED"
        /\ UNCHANGED <<premature, starts, live, ran>>
        /\ stack # <<>> /\ Top.op = "CLOSE"
    BY <1>1 DEF CloseNext, ArmedRows, Inside, DeadlineInv, OwnerOK
  <2>3. Len(stack) <= MaxDepth
    BY <2>2, EmptySeq, LimitsAssumption DEF DeadlineInv, Calls, StackOK, Top
  <2>4. /\ OwnerOK(owner') /\ owner'.active = owner.active
        /\ owner'.delivering = owner.delivering
        /\ owner.failedControl => owner'.failedControl
    <3>1. PICK ts : ts = {s \in owner.active : s < t}
      OBVIOUS
    <3> QED
      BY <2>1, <3>1, LoopKeeps
  <2> QED
    BY <2>1, <2>2, <2>3, <2>4, ActuatorKeeps
<1>2. CASE CloseLoopEnds
  <2> DEFINE o == IF Passed(owner.active) # {} THEN Uncertain(owner) ELSE owner
  <2>1. /\ stack # <<>> /\ Top.op = "CLOSE" /\ stack' = Pop
        /\ owner' = FinishClose(o)
        /\ UNCHANGED <<row, premature, starts, live, ran, withdrawn>>
    BY <1>2 DEF CloseLoopEnds, Inside
  <2>2. /\ OwnerOK(o) /\ o.active = owner.active
        /\ o.delivering = owner.delivering
        /\ owner.failedControl => o.failedControl
    BY LoopKeeps
  <2> HIDE DEF o
  <2>3. /\ OwnerOK(owner') /\ owner'.active = owner.active
        /\ owner'.delivering = owner.delivering
        /\ owner.failedControl => owner'.failedControl
    BY <2>1, <2>2, FinishCloseKeeps
  <2>4. Calls' /\ WorkFrames' = WorkFrames
    BY <2>1, <2>3, RowsStay, BarePop DEF DeadlineInv
  <2>5. live' \subseteq live /\ premature' \subseteq Tickets
    BY <2>1 DEF DeadlineInv
  <2> QED
    BY <2>1, <2>3, <2>4, <2>5, RowsRest
<1> QED
  BY <1>1, <1>2

LEMMA InitDeadlineInv == Init => DeadlineInv
<1> SUFFICES ASSUME Init PROVE DeadlineInv
  OBVIOUS
<1>1. OwnerOK(owner) /\ owner.active = {} /\ owner.delivering = 0
  BY DEF Init, OwnerOK
<1>2. stack \in Seq(Frames) /\ Len(stack) = 0
  BY EmptySeq DEF Init
<1>3. Calls /\ WorkFrames = {}
  BY <1>2, LimitsAssumption DEF Calls, StackOK, WorkFrames
<1>4. Cardinality({}) = 0
  BY FS_EmptySet
<1>5. /\ row \in [Tickets -> RowStates] /\ starts \in 0 .. MaxScheduleStarts
      /\ premature = {} /\ live = {} /\ ran = {} /\ withdrawn = {}
      /\ \A t \in Tickets : row[t] = "UNUSED"
  BY LimitsAssumption DEF Init, RowStates
<1>6. \A t \in Tickets : RowOK(t)
  BY <1>1, <1>5 DEF RowOK
<1> QED
  BY <1>1, <1>3, <1>4, <1>5, <1>6, LimitsAssumption DEF DeadlineInv

LEMMA StepDeadlineInv ==
  ASSUME DeadlineInv, [Next]_vars
  PROVE  DeadlineInv'
<1>1. CASE Schedule
  BY <1>1, ScheduleKeeps
<1>2. CASE ReadClock
  BY <1>2, ClockKeeps
<1>3. CASE Close
  BY <1>3, CloseKeeps
<1>4. ASSUME NEW t \in Tickets, Cancel(t)
      PROVE  DeadlineInv'
  BY <1>4, CancelKeeps
<1>5. ASSUME NEW t \in Tickets, Wake(t)
      PROVE  DeadlineInv'
  BY <1>5, PrematureKeeps, SuppressedKeeps, DeliverKeeps DEF Wake
<1>6. CASE Returns
  BY <1>6, ArmFailsKeeps, ArmedKeeps, ArmedTooLateKeeps, CancelledKeeps,
     CancelFailsKeeps, WorkEndsKeeps, ClockKeeps, CloseLoopKeeps DEF Returns
<1>7. CASE UNCHANGED vars
  BY <1>7 DEF vars, DeadlineInv, Calls, StackOK, Witnessed, WorkFrames, RowOK
<1> QED
  BY <1>1, <1>2, <1>3, <1>4, <1>5, <1>6, <1>7 DEF Next

(* The invariant holds, whatever is nested in what.                         *)
THEOREM DeadlineInvHolds == Spec => []DeadlineInv
BY InitDeadlineInv, StepDeadlineInv, PTL DEF Spec

-----------------------------------------------------------------------------
(* What follows from it.                                                    *)

LEMMA InvTypeOK == DeadlineInv => TypeOK
<1> SUFFICES ASSUME DeadlineInv PROVE TypeOK
  OBVIOUS
<1>1. owner.delivering \in 0 .. MaxDepth
  BY WorkFramesFinite DEF DeadlineInv, Calls
<1>2. owner \in [phase : {"OPEN", "CLOSING", "CLOSED", "CLOSE_UNKNOWN"},
                 unknown : BOOLEAN, failedControl : BOOLEAN,
                 closeOutcome : {"NOT_REQUESTED", "PENDING", "CLOSED", "CLOSE_UNKNOWN"},
                 active : SUBSET Tickets, delivering : 0 .. MaxDepth]
  BY <1>1 DEF DeadlineInv, OwnerOK
<1>3. /\ Len(stack) <= MaxDepth + 1
      /\ \A i \in DOMAIN stack : stack[i] \in Frames
  BY DEF DeadlineInv, Calls, StackOK
<1> QED
  BY <1>2, <1>3 DEF TypeOK, DeadlineInv, Frames

(* The variables have their types.                                          *)
THEOREM TypeCorrect == Spec => []TypeOK
BY DeadlineInvHolds, InvTypeOK, PTL

LEMMA CallsFindDoubt ==
  ASSUME DeadlineInv, owner.closeOutcome = "CLOSED"
  PROVE  Doing("WORK") \cup Doing("ARM") \cup Doing("CANCEL") = {}
<1>1. owner.active = {} /\ ~owner.failedControl /\ owner.delivering = 0
  BY DEF DeadlineInv, OwnerOK
<1>2. WorkFrames = {}
  BY <1>1, WorkFramesFinite DEF DeadlineInv, Calls
<1>3. ASSUME NEW i \in 1 .. Len(stack)
      PROVE  stack[i].op \notin Ticketed
  <2>1. SUFFICES ASSUME stack[i].op \in Ticketed PROVE FALSE
    OBVIOUS
  <2>2. /\ stack[i].ticket \in Tickets
        /\ Witnessed(stack[i]) /\ RowOK(stack[i].ticket)
    BY <2>1 DEF DeadlineInv, Calls, StackOK
  <2>3. stack[i].op # "WORK"
    BY <1>2 DEF WorkFrames
  <2> QED
    BY <1>1, <2>1, <2>2, <2>3 DEF Witnessed, RowOK, Ticketed
<1>4. DOMAIN stack = 1 .. Len(stack)
  BY DEF DeadlineInv, Calls, StackOK
<1> QED
  BY <1>3, <1>4 DEF Doing, Ticketed

(* close() resolves only when no timer can fire any more and no call for a   *)
(* ticket is on its way, and what comes after does not undo that; a timer    *)
(* that may still fire keeps its place under the limit (finishClose).        *)
THEOREM CleanCloseIsCleanHolds == Spec => []CleanCloseIsClean
<1>1. DeadlineInv => CleanCloseIsClean
  <2> SUFFICES ASSUME DeadlineInv PROVE CleanCloseIsClean
    OBVIOUS
  <2>1. live \subseteq owner.active
    BY DEF DeadlineInv, RowOK
  <2>2. owner.closeOutcome = "CLOSED" => owner.active = {} /\ ~owner.failedControl
    BY DEF DeadlineInv, OwnerOK
  <2> QED
    BY <2>1, <2>2, InvTypeOK, CallsFindDoubt DEF CleanCloseIsClean, DeadlineInv
<1> QED
  BY <1>1, DeadlineInvHolds, PTL

(* A callback or the actuator is entered only from an armed row, or the      *)
(* actuator from the arming it ends.                                         *)
LEMMA Beginnings ==
  ASSUME DeadlineInv, [Next]_vars, NEW t \in Tickets
  PROVE  /\ Begins("WORK", t) => row[t] = "ARMED" /\ Healthy
         /\ Begins("CANCEL", t) => row[t] \in {"ARMED", "ARMING"}
<1>0. stack \in Seq(Frames) /\ Len(stack) \in Nat
  BY DEF DeadlineInv, Calls, StackOK
<1>1. ASSUME NEW f \in Frames, stack' = Push(f), NEW op, Begins(op, t)
      PROVE  f.op = op /\ f.ticket = t
  <2>1. Len(stack') = Len(stack) + 1 /\ stack'[Len(stack) + 1] = f
    BY <1>0, <1>1, PushEffect
  <2> QED
    BY <1>1, <2>1 DEF Begins, Frame
<1>2. ASSUME UNCHANGED stack \/ (stack # <<>> /\ stack' = Pop), NEW op
      PROVE  ~Begins(op, t)
  BY <1>0, <1>2, PopShape DEF Begins
<1>3. ASSUME NEW op, op \in {"ARM", "CLOCK", "CLOSE"}, NEW u, u \in 0 .. MaxScheduleStarts,
             stack' = Push(Frame(op, u))
      PROVE  ~Begins("WORK", t) /\ ~Begins("CANCEL", t)
  BY <1>1, <1>3, FrameType
<1>4. 0 \in 0 .. MaxScheduleStarts /\ \A u \in Tickets : u \in 0 .. MaxScheduleStarts
  BY LimitsAssumption DEF Tickets
<1>5. CASE Schedule
  <2>1. starts + 1 \in 0 .. MaxScheduleStarts
    BY <1>5, LimitsAssumption DEF Schedule, DeadlineInv
  <2>2. stack' = Push(Frame("ARM", starts + 1))
    BY <1>5 DEF Schedule
  <2> QED
    BY <1>3, <2>1, <2>2
<1>6. CASE ReadClock \/ Close
  <2>1. stack' = Push(Frame("CLOCK", 0)) \/ stack' = Push(Frame("CLOSE", 0))
    BY <1>6 DEF ReadClock, Close
  <2> QED
    BY <1>3, <1>4, <2>1
<1>7. ASSUME NEW u \in Tickets, row[u] = "ARMED", stack' = Push(Frame("CANCEL", u))
      PROVE  /\ ~Begins("WORK", t)
             /\ Begins("CANCEL", t) => row[t] = "ARMED"
  BY <1>1, <1>4, <1>7, FrameType
<1>8. ASSUME NEW u \in Tickets, Cancel(u)
      PROVE  /\ ~Begins("WORK", t)
             /\ Begins("CANCEL", t) => row[t] = "ARMED"
  BY <1>2, <1>7, <1>8 DEF Cancel, CallActuator
<1>9. ASSUME NEW u \in Tickets, Deliver(u)
      PROVE  /\ Begins("WORK", t) => row[t] = "ARMED" /\ Healthy
             /\ ~Begins("CANCEL", t)
  <2>1. row[u] = "ARMED" /\ Healthy /\ stack' = Push(Frame("WORK", u))
    BY <1>9 DEF Deliver
  <2> QED
    BY <1>1, <1>4, <2>1, FrameType
<1>10. ASSUME NEW u \in Tickets, Premature(u) \/ Suppressed(u)
       PROVE  ~Begins("WORK", t) /\ ~Begins("CANCEL", t)
  BY <1>2, <1>10 DEF Premature, Suppressed
<1>11. CASE ArmedTooLate
  <2>1. /\ stack # <<>> /\ Top.op = "ARM"
        /\ stack' = Append(Pop, Frame("CANCEL", Top.ticket))
    BY <1>11 DEF ArmedTooLate, Inside
  <2>2. /\ Top.ticket \in Tickets /\ row[Top.ticket] = "ARMING"
    BY <2>1, TopFacts DEF Ticketed, Witnessed
  <2>3. PICK f \in Frames : f = Frame("CANCEL", Top.ticket) /\ f.op = "CANCEL" /\ f.ticket = Top.ticket
    BY <2>2, TicketFrame
  <2>4. Len(stack') = Len(stack) /\ stack'[Len(stack)] = f
    BY <1>0, <2>1, <2>3, ReplaceEffect
  <2> QED
    BY <2>2, <2>3, <2>4 DEF Begins, Frame
<1>12. CASE CloseNext
  <2>1. PICK u \in ArmedRows : stack' = Push(Frame("CANCEL", u))
    BY <1>12 DEF CloseNext
  <2>2. u \in Tickets /\ row[u] = "ARMED"
    BY DEF ArmedRows, DeadlineInv, OwnerOK
  <2> QED
    BY <1>7, <2>1, <2>2
<1>13. CASE ArmFails \/ Armed \/ Cancelled \/ CancelFails \/ WorkEnds \/ ClockReturns \/ CloseLoopEnds
  <2>1. stack # <<>> /\ stack' = Pop
    BY <1>13 DEF ArmFails, Armed, Cancelled, CancelFails, WorkEnds, ClockReturns,
                 CloseLoopEnds, Inside
  <2> QED
    BY <1>2, <2>1
<1>14. CASE UNCHANGED vars
  BY <1>2, <1>14 DEF vars
<1> QED
  BY <1>5, <1>6, <1>8, <1>9, <1>10, <1>11, <1>12, <1>13, <1>14 DEF Next, Wake, Returns

\* One step of CalledInTime.
CallsInTime ==
  \A t \in Tickets :
    /\ Begins("WORK", t) =>
         /\ t \notin ran \cup withdrawn \cup Doing("ARM")
         /\ owner.closeOutcome = "NOT_REQUESTED" /\ ~owner.failedControl
    /\ Begins("CANCEL", t) => t \notin withdrawn

(* wake() calls a callback at most once, never from inside its own arming,   *)
(* after its cancellation was asked for, after close() or once the owner     *)
(* lost its trust in a timer; and a ticket is cancelled at most once.        *)
THEOREM CalledInTimeHolds == Spec => CalledInTime
<1>1. DeadlineInv /\ [Next]_vars => [CallsInTime]_vars
  <2> SUFFICES ASSUME DeadlineInv, [Next]_vars, NEW t \in Tickets
               PROVE  /\ Begins("WORK", t) =>
                           /\ t \notin ran \cup withdrawn \cup Doing("ARM")
                           /\ owner.closeOutcome = "NOT_REQUESTED" /\ ~owner.failedControl
                      /\ Begins("CANCEL", t) => t \notin withdrawn
    BY DEF CallsInTime
  <2>1. row[t] \in {"ARMED", "ARMING"} => t \notin ran \cup withdrawn
    BY DEF DeadlineInv, RowOK
  <2>2. Healthy => owner.closeOutcome = "NOT_REQUESTED" /\ ~owner.failedControl
    BY DEF Healthy, DeadlineInv, OwnerOK
  <2>3. row[t] = "ARMED" => t \notin Doing("ARM")
    <3>1. DOMAIN stack = 1 .. Len(stack)
      BY DEF DeadlineInv, Calls, StackOK
    <3> QED
      BY <3>1, Idle DEF Doing, Ticketed
  <2> QED
    BY <2>1, <2>2, <2>3, Beginnings
<1> QED
  BY <1>1, DeadlineInvHolds, PTL DEF Spec, CalledInTime, CallsInTime
=============================================================================
