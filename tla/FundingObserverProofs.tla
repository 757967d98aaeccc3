------------------------ MODULE FundingObserverProofs ------------------------
(***************************************************************************)
(* Proofs about FundingObserver, for any histories of the chain, any       *)
(* number of producers and signers, and every limit.                       *)
(*                                                                         *)
(* What the record claims rests on the page it applied last: the receipt's *)
(* member is a Momentum above the page's start that holds the transaction  *)
(* and that the checkpoint was built on.  Producers hold bundles that were *)
(* read for another checkpoint, perhaps, but every page is a run of        *)
(* Momentums of one branch, so that the one comparison of its first        *)
(* parent with the checkpoint joins all of it.                             *)
(***************************************************************************)
EXTENDS FundingObserver, SequenceTheorems, WellFoundedInduction, TLAPS

-----------------------------------------------------------------------------
(* The inductive invariant. *)

Records ==
  [revision : Nat, checkpoint : Reached, inclusion : Reached \cup {None},
   status : {"AWAITING_INCLUSION", "INCLUDED_BELOW_THRESHOLD",
             "THRESHOLD_OBSERVED", "QUARANTINED"},
   receipt : Receipts \cup {NoReceipt}, first : Receipts \cup {NoReceipt},
   maxV1 : 0 .. Height, minV2 : 2 .. Height + 1]

StatusAgrees(r) ==
  r.status # "QUARANTINED" =>
    /\ r.inclusion = None => r.status = "AWAITING_INCLUSION"
    /\ r.inclusion # None =>
         r.status = IF Enough(r.inclusion, r.checkpoint)
                    THEN "THRESHOLD_OBSERVED" ELSE "INCLUDED_BELOW_THRESHOLD"

\* The receipt is of a page that ends at the checkpoint, and its member is
\* where the transaction is on the checkpoint's branch.
ReceiptAgrees(r) ==
  r.receipt # NoReceipt =>
    /\ r.receipt.end = r.checkpoint
    /\ r.receipt.threshold <=>
         IF r.first = NoReceipt
         THEN Enough(IF r.inclusion = None THEN r.receipt.member ELSE r.inclusion,
                     r.checkpoint)
         ELSE r.receipt = r.first
    /\ r.receipt.member # None =>
         /\ Includes(r.receipt.member)
         /\ Descends(r.receipt.member, r.checkpoint)
         /\ r.receipt.start.height < r.receipt.member.height

\* What is claimed of the inclusion and of the first threshold.
ClaimAgrees(r) ==
  /\ r.inclusion # None =>
       /\ Includes(r.inclusion) /\ Descends(r.inclusion, r.checkpoint)
       /\ Enough(r.inclusion, r.checkpoint) <=> r.first # NoReceipt
  /\ r.first # NoReceipt =>
       /\ r.first.threshold /\ r.inclusion # None
       /\ Descends(r.inclusion, r.first.end)
       /\ Enough(r.inclusion, r.first.end)
       /\ Confirmations(r.inclusion, r.first.start) < MinimumConfirmations
       /\ Descends(r.first.end, r.checkpoint)

RecordOK(r) ==
  /\ r \in Records /\ r.maxV1 < r.minV2
  /\ StatusAgrees(r) /\ ReceiptAgrees(r) /\ ClaimAgrees(r)

\* The outbox counts its own transitions.
Prepared(o) ==
  /\ o.status = "PREPARED" /\ o.revision = 1
  /\ o.envelope = "none" /\ o.conflicting = "none" /\ o.prior = "NONE"
Signed(o) ==
  /\ o.status = "READY" /\ o.revision = 2
  /\ o.envelope \in Envelopes /\ o.conflicting = "none" /\ o.prior = "NONE"
Invalidated(o) ==
  /\ o.status = "INVALIDATED" /\ o.conflicting = "none"
  /\ \/ o.prior = "PREPARED" /\ o.revision = 2 /\ o.envelope = "none"
     \/ o.prior = "READY" /\ o.revision = 3 /\ o.envelope \in Envelopes
Equivocated(o) ==
  /\ o.status = "EQUIVOCATED" /\ o.revision = 3 /\ o.prior = "READY"
  /\ o.envelope \in Envelopes /\ o.conflicting \in Envelopes \ {o.envelope}

Outboxes ==
  [status : {"NONE", "PREPARED", "READY", "INVALIDATED", "EQUIVOCATED"},
   revision : Nat, request : [inclusion : Reached \cup {None},
                              first : Receipts \cup {NoReceipt}],
   envelope : Envelopes \cup {"none"}, conflicting : Envelopes \cup {"none"},
   prior : {"NONE", "PREPARED", "READY"}]

OutboxOK(r, o) ==
  /\ o \in Outboxes
  /\ IF r.first = NoReceipt THEN o = EmptyOutbox
     ELSE /\ o.request.inclusion = r.inclusion /\ o.request.first = r.first
          /\ Prepared(o) \/ Signed(o) \/ Invalidated(o) \/ Equivocated(o)
          /\ o.status \in {"PREPARED", "READY"} => r.status = "THRESHOLD_OBSERVED"
          /\ o.status = "INVALIDATED" => r.status = "QUARANTINED"

\* A producer holds a run of Momentums of one branch, and where the account
\* block is confirmed on some branch.
Idle == [step |-> "idle"]
Page(b, h, n) == [i \in 1 .. n |-> At(b, h + i)]
Pages ==
  UNION {{Page(b, h, n) : n \in 0 .. (Height - h)} : b \in Branches, h \in 1 .. Height}
Places ==
  {None} \cup {At(b, history.target[b]) : b \in {c \in Branches : history.target[c] # 0}}
Runs ==
  [step : {"pending", "page", "settle"}, frontier : Reached, page : Pages,
   confirmed : Places]

RunOK(run) == run = Idle \/ run \in Runs

SignerOK(signing) ==
  signing \in {Idle} \cup [step : {"dispatched"}, revision : Nat]
               \cup [step : {"answered"}, revision : Nat, envelope : Envelopes]

ObserverInv ==
  /\ history \in Histories
  /\ RecordOK(record) /\ OutboxOK(record, outbox)
  /\ producer = [p \in Producers |-> producer[p]]
  /\ \A p \in Producers : RunOK(producer[p])
  /\ signer = [s \in Signers |-> signer[s]]
  /\ \A s \in Signers : SignerOK(signer[s])

-----------------------------------------------------------------------------
(* Momentums. *)

LEMMA Names ==
  /\ Height \in Nat /\ Height >= 1 /\ MaximumPageEntries \in Nat
  /\ MaximumPageEntries >= 1 /\ MinimumConfirmations \in Nat
  /\ MinimumConfirmations >= 1 /\ "none" \notin Envelopes
  /\ None.height = 0 /\ NoReceipt.start = None /\ NoReceipt.member = None
  /\ NoReceipt.threshold = FALSE
BY LimitsAssumption, EnvelopesAssumption DEF None, NoReceipt

\* A set of heights has a least and a greatest one.
LEMMA Least ==
  ASSUME NEW T, T \subseteq Nat, T # {}
  PROVE  \E x \in T : \A y \in T : x <= y
<1> DEFINE R == {ss \in Nat \X Nat : ss[1] < ss[2]}
<1>1. IsWellFoundedOn(R, Nat)
  BY NatLessThanWellFounded, Zenon DEF OpToRel
<1>2. PICK x \in T : \A y \in T : ~ (<<y, x>> \in R)
  <2> HIDE DEF R
  <2> QED
    BY <1>1, WFMin
<1>3. \A y \in T : x <= y
  <2> TAKE y \in T
  <2>1. x \in Nat /\ y \in Nat /\ <<y, x>> \in Nat \X Nat
    OBVIOUS
  <2>2. <<y, x>>[1] = y /\ <<y, x>>[2] = x
    OBVIOUS
  <2>3. ~ (y < x)
    BY <1>2, <2>1, <2>2
  <2> QED
    BY <2>1, <2>3
<1> QED
  BY <1>3

LEMMA Extremes ==
  ASSUME NEW n \in Nat, NEW T, T \subseteq 0 .. n, T # {}
  PROVE  /\ Min(T) \in T /\ \A y \in T : Min(T) <= y
         /\ Max(T) \in T /\ \A y \in T : y <= Max(T)
<1>0. T \subseteq Nat /\ \A x \in T : x <= n
  OBVIOUS
<1>1. \E x \in T : \A y \in T : x <= y
  BY <1>0, Least
<1>2. Min(T) \in T /\ \A y \in T : Min(T) <= y
  BY <1>1 DEF Min
<1> DEFINE U == {n - x : x \in T}
<1>3. PICK u \in U : \A y \in U : u <= y
  <2>0. \A x \in T : n - x \in Nat
    BY <1>0
  <2>1. U \subseteq Nat /\ U # {}
    BY <2>0
  <2> HIDE DEF U
  <2> QED
    BY <2>1, Least
<1>4. PICK x \in T : u = n - x
  OBVIOUS
<1>5. \A y \in T : x >= y
  <2> TAKE y \in T
  <2>1. n - y \in U
    OBVIOUS
  <2>2. u <= n - y
    BY <1>3, <2>1
  <2> HIDE DEF U
  <2> QED
    BY <1>4, <2>2
<1>6. Max(T) \in T /\ \A y \in T : Max(T) >= y
  BY <1>5 DEF Max
<1> QED
  BY <1>0, <1>2, <1>6

LEMMA HistoryNow ==
  ASSUME history \in Histories
  PROVE  /\ history.fork \in 1 .. Height
         /\ history.target \in [Branches -> 0 .. Height]
         /\ history.v2 \in [Branches -> 2 .. Height + 1]
BY HistoriesAssumption

LEMMA AtIs ==
  ASSUME history \in Histories, NEW b \in Branches, NEW h \in 1 .. Height
  PROVE  /\ At(b, h) \in Reached /\ At(b, h).height = h
         /\ At(b, h).branch = IF h <= history.fork THEN "main" ELSE b
         /\ On(At(b, h), b)
BY DEF At, Reached, On

LEMMA ReachedIs ==
  ASSUME history \in Histories, NEW m \in Reached
  PROVE  /\ m.height \in 1 .. Height /\ m # None /\ m.height \in Nat
         /\ \E b \in Branches : m = At(b, m.height)
         /\ m.branch \in Branches \cup {"main"}
         /\ m = [height |-> m.height, branch |-> m.branch]
<1>1. PICK b \in Branches, h \in 1 .. Height : m = At(b, h)
  BY DEF Reached
<1>2. m.height = h /\ m.branch \in {b, "main"}
  BY <1>1, AtIs
<1>3. m # None
  BY <1>2, Names
<1>4. m = [height |-> m.height, branch |-> m.branch]
  BY <1>1 DEF At
<1> QED
  BY <1>1, <1>2, <1>3, <1>4, Names

LEMMA PlacesAre ==
  ASSUME history \in Histories, NEW m \in Places, m # None
  PROVE  m \in Reached /\ Includes(m)
<1>1. PICK b \in Branches : history.target[b] # 0 /\ m = At(b, history.target[b])
  BY DEF Places
<1>2. history.target[b] \in 1 .. Height
  BY <1>1, HistoryNow
<1>3. m \in Reached /\ m.height = history.target[b] /\ On(m, b)
  BY <1>1, <1>2, AtIs
<1> QED
  BY <1>3 DEF Includes

LEMMA DescendsTransitive ==
  ASSUME history \in Histories,
         NEW l \in Reached, NEW m \in Reached, NEW n \in Reached,
         Descends(l, m), Descends(m, n)
  PROVE  Descends(l, n)
BY ReachedIs DEF Descends, On

LEMMA DescendsFromItself ==
  ASSUME history \in Histories, NEW m \in Reached
  PROVE  Descends(m, m)
BY ReachedIs DEF Descends, On

LEMMA PageIs ==
  ASSUME history \in Histories, NEW b \in Branches, NEW h \in 1 .. Height,
         NEW n \in 0 .. Height, h + n <= Height
  PROVE  /\ Page(b, h, n) \in Seq(Reached) /\ Len(Page(b, h, n)) = n
         /\ DOMAIN Page(b, h, n) = 1 .. n
         /\ \A i \in 1 .. n : /\ Page(b, h, n)[i] = At(b, h + i)
                              /\ h + i \in 1 .. Height
<1>1. n \in Nat /\ \A i \in 1 .. n : h + i \in 1 .. Height
  BY Names
<1>2. \A i \in 1 .. n : At(b, h + i) \in Reached
  BY <1>1, AtIs
<1>3. Page(b, h, n) \in [1 .. n -> Reached]
  BY <1>2 DEF Page
<1>4. Page(b, h, n) \in Seq(Reached) /\ DOMAIN Page(b, h, n) = 1 .. n
  BY <1>1, <1>3
<1>5. Len(Page(b, h, n)) = n
  BY <1>1, <1>4, LenProperties
<1> QED
  BY <1>1, <1>4, <1>5 DEF Page

\* A page joins the checkpoint when its first Momentum does.
LEMMA PageJoins ==
  ASSUME history \in Histories, NEW c \in Reached,
         NEW b \in Branches, NEW h \in 1 .. Height, NEW n \in 1 .. Height,
         h + n <= Height, At(b, h + 1).height = c.height + 1,
         Parent(At(b, h + 1)) = c
  PROVE  /\ h = c.height
         /\ \A i \in 1 .. n :
              /\ At(b, h + i) \in Reached /\ At(b, h + i).height = c.height + i
              /\ Descends(c, At(b, h + i)) /\ Descends(At(b, h + i), At(b, h + n))
<1>1. /\ h \in Nat /\ n \in Nat /\ Height \in Nat /\ h + 1 \in 1 .. Height
      /\ history.fork \in Nat /\ h + n \in 1 .. Height
  BY Names, HistoryNow
<1>2. h = c.height /\ c.height \in Nat
  <2>1. At(b, h + 1).height = h + 1
    BY <1>1, AtIs
  <2>2. c.height \in Nat
    BY ReachedIs
  <2> QED
    BY <1>1, <2>1, <2>2
<1>3. c = At(b, h)
  <2>1. c = At(At(b, h + 1).branch, h)
    BY <1>1, AtIs DEF Parent
  <2>2. At(b, h + 1).branch = IF h + 1 <= history.fork THEN "main" ELSE b
    BY <1>1, AtIs
  <2> QED
    BY <1>1, <2>1, <2>2 DEF At
<1>4. /\ At(b, h + n).height = h + n
      /\ At(b, h + n).branch = IF h + n <= history.fork THEN "main" ELSE b
  BY <1>1, AtIs
<1>5. ASSUME NEW i \in 1 .. n
      PROVE  /\ At(b, h + i) \in Reached /\ At(b, h + i).height = c.height + i
             /\ Descends(c, At(b, h + i)) /\ Descends(At(b, h + i), At(b, h + n))
  <2>1. h + i \in 1 .. Height /\ i \in Nat
    BY <1>1
  <2>2. /\ At(b, h + i) \in Reached /\ At(b, h + i).height = h + i
        /\ At(b, h + i).branch = IF h + i <= history.fork THEN "main" ELSE b
    BY <2>1, AtIs
  <2>3. /\ At(b, h).height = h
        /\ At(b, h).branch = IF h <= history.fork THEN "main" ELSE b
    BY AtIs
  <2> QED
    BY <1>1, <1>2, <1>3, <1>4, <2>1, <2>2, <2>3 DEF Descends, On
<1> QED
  BY <1>2, <1>5

-----------------------------------------------------------------------------
(* What may be written over a record, and over an outbox.                  *)

\* Where the transaction was found and the first threshold stay, and a
\* quarantine learns neither.
Follows(r, s) ==
  /\ r.inclusion # None => s.inclusion = r.inclusion
  /\ r.first # NoReceipt => s.first = r.first
  /\ s.status = "QUARANTINED" => s.first = r.first /\ s.inclusion = r.inclusion

\* What was requested and what was signed stay, and so does what was revoked.
Succeeds(o, q) ==
  /\ o.request # NoRequest => q.request = o.request
  /\ o.envelope # "none" => q.envelope = o.envelope
  /\ o.status \in {"INVALIDATED", "EQUIVOCATED"} => q = o

LEMMA RecordIs ==
  ASSUME history \in Histories, NEW r, RecordOK(r)
  PROVE  /\ r.revision \in Nat /\ r.checkpoint \in Reached
         /\ r.inclusion \in Reached \cup {None}
         /\ r.receipt \in Receipts \cup {NoReceipt}
         /\ r.first \in Receipts \cup {NoReceipt}
         /\ r.checkpoint.height \in 1 .. Height /\ r.checkpoint.height \in Nat
         /\ r.first # NoReceipt => r.first.start \in Reached /\ r.first.end \in Reached
         /\ r.receipt # NoReceipt =>
              /\ r.receipt.start \in Reached
              /\ r.receipt.start.height \in Nat
              /\ r.receipt.member \in Reached \cup {None}
         /\ r.inclusion = None => r.first = NoReceipt
<1>1. r \in Records /\ ClaimAgrees(r)
  BY DEF RecordOK
<1>2. /\ r.revision \in Nat /\ r.checkpoint \in Reached
      /\ r.inclusion \in Reached \cup {None}
      /\ r.receipt \in Receipts \cup {NoReceipt}
      /\ r.first \in Receipts \cup {NoReceipt}
  BY <1>1 DEF Records
<1>3. \A x \in Receipts : /\ x.start \in Reached /\ x.end \in Reached
                          /\ x.member \in Reached \cup {None}
  BY DEF Receipts
<1>4. \A m \in Reached : m.height \in 1 .. Height /\ m.height \in Nat
  BY ReachedIs
<1>5. r.inclusion = None => r.first = NoReceipt
  BY <1>1 DEF ClaimAgrees
<1> QED
  BY <1>2, <1>3, <1>4, <1>5

LEMMA QuarantineGood ==
  ASSUME history \in Histories, NEW r, RecordOK(r)
  PROVE  /\ RecordOK(Quarantine(r)) /\ Follows(r, Quarantine(r))
         /\ Quarantine(r).status = "QUARANTINED"
<1> DEFINE s == Quarantine(r)
<1>1. r \in Records /\ r.maxV1 < r.minV2 /\ ReceiptAgrees(r) /\ ClaimAgrees(r)
  BY DEF RecordOK
<1>2. s \in Records
  <2>1. r.revision + 1 \in Nat
    BY RecordIs
  <2>2. [r EXCEPT !.revision = r.revision + 1] \in Records
    BY <1>1, <2>1 DEF Records
  <2> QED
    BY <2>2 DEF Quarantine, Records
<1>3. /\ s.status = "QUARANTINED" /\ s.checkpoint = r.checkpoint
      /\ s.inclusion = r.inclusion /\ s.receipt = r.receipt /\ s.first = r.first
      /\ s.maxV1 = r.maxV1 /\ s.minV2 = r.minV2
  BY <1>1 DEF Quarantine, Records
<1> HIDE DEF s
<1>4. RecordOK(s) /\ Follows(r, s)
  BY <1>1, <1>2, <1>3 DEF RecordOK, StatusAgrees, ReceiptAgrees, ClaimAgrees, Follows
<1> QED
  BY <1>3, <1>4 DEF s

\* Versions are learnt of Momentums, whose heights have bounds.
LEMMA LearntGood ==
  ASSUME history \in Histories, NEW r, RecordOK(r), NEW ms, ms \subseteq Reached
  PROVE  RecordOK(Learnt(r, ms)) /\ Follows(r, Learnt(r, ms))
<1> DEFINE T1 == {r.maxV1} \cup {m.height : m \in {n \in ms : ~IsV2(n)}}
           T2 == {r.minV2} \cup {m.height : m \in {n \in ms : IsV2(n)}}
           v1 == Max(T1)
           v2 == Min(T2)
           s == [r EXCEPT !.revision = @ + 1, !.maxV1 = v1, !.minV2 = v2]
<1>1. r \in Records /\ r.maxV1 < r.minV2
  BY DEF RecordOK
<1>2. r.maxV1 \in 0 .. Height /\ r.minV2 \in 2 .. Height + 1 /\ r.revision \in Nat
  BY <1>1 DEF Records
<1>3. \A m \in ms : m.height \in 1 .. Height
  BY ReachedIs
<1>4. \A m \in ms : IsV2(m) => m.height >= 2
  <2> SUFFICES ASSUME NEW m \in ms, IsV2(m) PROVE m.height >= 2
    OBVIOUS
  <2>1. PICK b \in Branches : history.v2[b] <= m.height
    BY DEF IsV2
  <2>2. history.v2[b] \in 2 .. Height + 1
    BY HistoryNow
  <2> QED
    BY <2>1, <2>2, <1>3, Names
<1>5. T1 \subseteq 0 .. Height /\ T1 # {}
  BY <1>2, <1>3, Names
<1>6. \A x \in T2 : x \in 2 .. Height + 1
  BY <1>2, <1>3, <1>4, Names
<1>7. v1 \in 0 .. Height
  <2> HIDE DEF T1
  <2>1. v1 \in T1
    BY <1>5, Extremes, Names
  <2> QED
    BY <2>1, <1>5
<1>8. v2 \in 2 .. Height + 1
  <2>1. T2 # {}
    OBVIOUS
  <2> HIDE DEF T2
  <2>2. T2 \subseteq 0 .. Height + 1 /\ Height + 1 \in Nat
    BY <1>6, Names
  <2>3. v2 \in T2
    BY <2>1, <2>2, Extremes
  <2> QED
    BY <2>3, <1>6
<1>9. Learnt(r, ms) = IF v1 >= v2 THEN Quarantine(r)
                      ELSE IF v1 = r.maxV1 /\ v2 = r.minV2 THEN r ELSE s
  BY DEF Learnt
<1> HIDE DEF v1, v2
<1>10. s \in Records
  <2>1. r.revision + 1 \in Nat
    BY <1>2
  <2>2. [r EXCEPT !.revision = r.revision + 1] \in Records
    BY <1>1, <2>1 DEF Records
  <2>3. [r EXCEPT !.revision = r.revision + 1, !.maxV1 = v1] \in Records
    BY <2>2, <1>7 DEF Records
  <2> QED
    BY <2>3, <1>8 DEF Records
<1>11. /\ s.status = r.status /\ s.checkpoint = r.checkpoint
       /\ s.inclusion = r.inclusion /\ s.receipt = r.receipt /\ s.first = r.first
       /\ s.maxV1 = v1 /\ s.minV2 = v2
  BY <1>1 DEF Records
<1> HIDE DEF s
<1>12. CASE v1 >= v2
  BY <1>9, <1>12, QuarantineGood
<1>13. CASE ~ (v1 >= v2)
  <2>1. v1 < v2
    BY <1>7, <1>8, <1>13, Names
  <2>2. RecordOK(s) /\ Follows(r, s)
    BY <1>10, <1>11, <2>1
       DEF RecordOK, StatusAgrees, ReceiptAgrees, ClaimAgrees, Follows
  <2>3. Follows(r, r)
    BY DEF Follows
  <2> QED
    BY <1>9, <1>13, <2>2, <2>3
<1> QED
  BY <1>12, <1>13

\* Counting from a later Momentum finds no fewer confirmations.
LEMMA EnoughIs ==
  ASSUME history \in Histories, NEW m \in Reached, NEW n \in Reached
  PROVE  /\ Enough(m, n) <=> n.height - m.height + 1 >= MinimumConfirmations
         /\ Confirmations(m, n) = n.height - m.height + 1
         /\ ~Enough(m, n) <=> Confirmations(m, n) < MinimumConfirmations
         /\ n.height < m.height => Confirmations(m, n) < MinimumConfirmations
         /\ m.height \in Nat /\ n.height \in Nat
BY ReachedIs, Names DEF Enough, Confirmations

\* The receipt's member becomes the inclusion.
LEMMA IncludedGood ==
  ASSUME history \in Histories, NEW r, RecordOK(r), r.status # "QUARANTINED",
         r.inclusion = None, r.receipt.member # None,
         NEW m, m = r.receipt.member, NEW s,
         \/ /\ ~Enough(m, r.checkpoint)
            /\ s = [r EXCEPT !.revision = @ + 1,
                             !.status = "INCLUDED_BELOW_THRESHOLD", !.inclusion = m]
         \/ /\ Enough(m, r.checkpoint) /\ r.receipt.threshold
            /\ s = [r EXCEPT !.revision = @ + 1, !.status = "THRESHOLD_OBSERVED",
                             !.inclusion = m, !.first = r.receipt]
  PROVE  RecordOK(s) /\ Follows(r, s)
<1>1. /\ r \in Records /\ r.maxV1 < r.minV2
      /\ StatusAgrees(r) /\ ReceiptAgrees(r) /\ ClaimAgrees(r)
  BY DEF RecordOK
<1>2. r.receipt # NoReceipt /\ r.first = NoReceipt
  BY RecordIs, Names
<1>3. /\ r.receipt \in Receipts /\ m \in Reached
      /\ r.revision + 1 \in Nat /\ r.checkpoint \in Reached
      /\ r.receipt.start \in Reached
  BY <1>2, RecordIs
<1>4. /\ r.receipt.end = r.checkpoint
      /\ r.receipt.threshold <=> Enough(m, r.checkpoint)
      /\ Includes(m) /\ Descends(m, r.checkpoint)
      /\ r.receipt.start.height < m.height
  BY <1>1, <1>2 DEF ReceiptAgrees
<1>5. [r EXCEPT !.revision = r.revision + 1] \in Records
  BY <1>1, <1>3 DEF Records
<1>6. m # None
  BY <1>3, ReachedIs
<1>7. CASE /\ ~Enough(m, r.checkpoint)
           /\ s = [r EXCEPT !.revision = @ + 1,
                            !.status = "INCLUDED_BELOW_THRESHOLD", !.inclusion = m]
  <2>1. [r EXCEPT !.revision = r.revision + 1, !.status = "INCLUDED_BELOW_THRESHOLD"]
          \in Records
    BY <1>5 DEF Records
  <2>2. s \in Records
    BY <2>1, <1>3, <1>7 DEF Records
  <2>3. /\ s.status = "INCLUDED_BELOW_THRESHOLD" /\ s.checkpoint = r.checkpoint
        /\ s.inclusion = m /\ s.receipt = r.receipt /\ s.first = NoReceipt
        /\ s.maxV1 = r.maxV1 /\ s.minV2 = r.minV2
    BY <1>1, <1>2, <1>7 DEF Records
  <2>4. StatusAgrees(s)
    BY <2>3, <1>6, <1>7 DEF StatusAgrees
  <2>5. ReceiptAgrees(s)
    BY <2>3, <1>4, <1>6 DEF ReceiptAgrees
  <2>6. ClaimAgrees(s)
    BY <2>3, <1>4, <1>6, <1>7 DEF ClaimAgrees
  <2>7. Follows(r, s)
    BY <2>3, <1>2 DEF Follows
  <2> QED
    BY <2>2, <2>3, <2>4, <2>5, <2>6, <2>7, <1>1 DEF RecordOK
<1>8. CASE /\ Enough(m, r.checkpoint) /\ r.receipt.threshold
           /\ s = [r EXCEPT !.revision = @ + 1, !.status = "THRESHOLD_OBSERVED",
                            !.inclusion = m, !.first = r.receipt]
  <2>1. [r EXCEPT !.revision = r.revision + 1, !.status = "THRESHOLD_OBSERVED"]
          \in Records
    BY <1>5 DEF Records
  <2>2. [r EXCEPT !.revision = r.revision + 1, !.status = "THRESHOLD_OBSERVED",
                  !.inclusion = m] \in Records
    BY <2>1, <1>3 DEF Records
  <2>3. s \in Records
    BY <2>2, <1>3, <1>8 DEF Records
  <2>4. /\ s.status = "THRESHOLD_OBSERVED" /\ s.checkpoint = r.checkpoint
        /\ s.inclusion = m /\ s.receipt = r.receipt /\ s.first = r.receipt
        /\ s.maxV1 = r.maxV1 /\ s.minV2 = r.minV2
    BY <1>1, <1>8 DEF Records
  <2>5. StatusAgrees(s)
    BY <2>4, <1>6, <1>8 DEF StatusAgrees
  <2>6. ReceiptAgrees(s)
    BY <2>4, <1>2, <1>4, <1>8 DEF ReceiptAgrees
  <2>7. Confirmations(m, r.receipt.start) < MinimumConfirmations
    BY <1>3, <1>4, EnoughIs
  <2>8. Descends(r.checkpoint, r.checkpoint)
    BY <1>3, DescendsFromItself
  <2>9. ClaimAgrees(s)
    BY <2>4, <1>2, <1>4, <1>6, <1>8, <2>7, <2>8 DEF ClaimAgrees
  <2>10. Follows(r, s)
    BY <2>4, <1>2 DEF Follows
  <2> QED
    BY <2>3, <2>4, <2>5, <2>6, <2>9, <2>10, <1>1 DEF RecordOK
<1> QED
  BY <1>7, <1>8

\* An observation includes what the receipt shows, changes nothing, or ends
\* in quarantine.
LEMMA ObservedGood ==
  ASSUME history \in Histories, NEW r, RecordOK(r), r.status # "QUARANTINED", NEW m
  PROVE  RecordOK(Observed(r, m)) /\ Follows(r, Observed(r, m))
<1> DEFINE below == [r EXCEPT !.revision = @ + 1,
                              !.status = "INCLUDED_BELOW_THRESHOLD", !.inclusion = m]
           reached == [r EXCEPT !.revision = @ + 1, !.status = "THRESHOLD_OBSERVED",
                                !.inclusion = m, !.first = r.receipt]
<1>1. RecordOK(r) /\ Follows(r, r)
  BY DEF Follows
<1>2. RecordOK(Quarantine(r)) /\ Follows(r, Quarantine(r))
  BY QuarantineGood
<1>3. CASE \/ m = None
           \/ r.inclusion = m
           \/ r.inclusion # m /\ (r.inclusion # None \/ r.receipt.member # m)
  <2>1. Observed(r, m) \in {r, Quarantine(r)}
    BY <1>3 DEF Observed, NotFound, Found
  <2> QED
    BY <2>1, <1>1, <1>2
<1>4. CASE m # None /\ r.inclusion # m /\ r.inclusion = None /\ r.receipt.member = m
  <2>1. Observed(r, m) = IF ~Enough(m, r.checkpoint) THEN below
                         ELSE IF r.receipt.threshold THEN reached ELSE Quarantine(r)
    BY <1>4 DEF Observed, Found
  <2>2. ~Enough(m, r.checkpoint) => RecordOK(below) /\ Follows(r, below)
    BY <1>4, IncludedGood
  <2>3. Enough(m, r.checkpoint) /\ r.receipt.threshold
          => RecordOK(reached) /\ Follows(r, reached)
    BY <1>4, IncludedGood
  <2> HIDE DEF below, reached
  <2> QED
    BY <2>1, <2>2, <2>3, <1>2
<1> QED
  BY <1>3, <1>4

-----------------------------------------------------------------------------
(* A page. *)

\* What a page that does not conflict shows of the checkpoint it replaces.
LEMMA PageShows ==
  ASSUME history \in Histories, NEW r, RecordOK(r),
         NEW bundle, NEW b \in Branches, NEW h \in 1 .. Height, NEW n \in 1 .. Height,
         h + n <= Height, bundle.page = Page(b, h, n), ~PageConflicts(r, bundle),
         NEW end, end = bundle.page[Len(bundle.page)]
  PROVE  /\ end \in Reached /\ end.height > r.checkpoint.height
         /\ Descends(r.checkpoint, end)
         /\ \A m \in Entries(bundle) :
              /\ m \in Reached /\ m.height > r.checkpoint.height /\ Descends(m, end)
<1>1. /\ Len(bundle.page) = n /\ DOMAIN bundle.page = 1 .. n /\ n \in Nat /\ n >= 1
      /\ \A i \in 1 .. n : bundle.page[i] = At(b, h + i)
  <2>1. n \in 0 .. Height /\ n \in Nat /\ n >= 1
    BY Names
  <2>2. /\ Len(Page(b, h, n)) = n /\ DOMAIN Page(b, h, n) = 1 .. n
        /\ \A i \in 1 .. n : Page(b, h, n)[i] = At(b, h + i)
    BY <2>1, PageIs
  <2> QED
    BY <2>1, <2>2
<1>2. 1 \in 1 .. n /\ n \in 1 .. n
  BY <1>1
<1>3. At(b, h + 1).height = r.checkpoint.height + 1
  BY <1>1, <1>2 DEF PageConflicts
<1>4. Parent(At(b, h + 1)) = r.checkpoint
  BY <1>1, <1>2 DEF PageConflicts, LinkedTo
<1>5. r.checkpoint \in Reached /\ r.checkpoint.height \in Nat
  BY RecordIs
<1>6. \A i \in 1 .. n :
        /\ At(b, h + i) \in Reached /\ At(b, h + i).height = r.checkpoint.height + i
        /\ Descends(r.checkpoint, At(b, h + i)) /\ Descends(At(b, h + i), At(b, h + n))
  BY <1>3, <1>4, <1>5, PageJoins
<1>7. \A i \in 1 .. n : r.checkpoint.height + i > r.checkpoint.height
  BY <1>1, <1>5
<1>8. end = At(b, h + n)
  BY <1>1, <1>2
<1>9. \A m \in Entries(bundle) : \E i \in 1 .. n : m = At(b, h + i)
  BY <1>1 DEF Entries
<1> QED
  BY <1>2, <1>6, <1>7, <1>8, <1>9

LEMMA PagedGood ==
  ASSUME history \in Histories, NEW r, RecordOK(r), r.status # "QUARANTINED",
         r.inclusion = None => r.receipt.member = None,
         NEW bundle, NEW b \in Branches, NEW h \in 1 .. Height, NEW n \in 1 .. Height,
         h + n <= Height, bundle.page = Page(b, h, n), ~PageConflicts(r, bundle)
  PROVE  RecordOK(Paged(r, bundle)) /\ Follows(r, Paged(r, bundle))
<1> DEFINE members == {m \in Entries(bundle) : Includes(m)}
           member == IF members = {} THEN None ELSE CHOOSE m \in members : TRUE
           found == IF r.inclusion = None THEN member ELSE r.inclusion
           end == bundle.page[Len(bundle.page)]
           receipt == [start |-> r.checkpoint, end |-> end, member |-> member,
                       threshold |-> r.first = NoReceipt /\ Enough(found, end)]
           first == IF r.inclusion # None /\ receipt.threshold THEN receipt ELSE r.first
           status == IF first # NoReceipt THEN "THRESHOLD_OBSERVED" ELSE r.status
           s == [r EXCEPT !.revision = @ + 1, !.checkpoint = end, !.receipt = receipt,
                          !.first = first, !.status = status]
<1>1. Paged(r, bundle) = s
  <2>1. r.status = r.status
    OBVIOUS
  <2> QED
    BY Zenon DEF Paged
<1> SUFFICES RecordOK(s) /\ Follows(r, s)
  BY <1>1
<1>2. /\ r \in Records /\ r.maxV1 < r.minV2
      /\ StatusAgrees(r) /\ ReceiptAgrees(r) /\ ClaimAgrees(r)
  BY DEF RecordOK
<1>3. /\ end \in Reached /\ end.height > r.checkpoint.height
      /\ Descends(r.checkpoint, end)
      /\ \A m \in Entries(bundle) :
           /\ m \in Reached /\ m.height > r.checkpoint.height /\ Descends(m, end)
  BY PageShows
<1>4. /\ member \in Reached \cup {None}
      /\ member # None => /\ Includes(member) /\ Descends(member, end)
                          /\ r.checkpoint.height < member.height
  <2>1. members = {} => member = None
    OBVIOUS
  <2>2. members # {} => member \in members
    OBVIOUS
  <2>3. r.checkpoint.height \in Nat
    BY RecordIs
  <2>4. \A m \in members : /\ m \in Reached /\ m.height \in Nat
                           /\ Includes(m) /\ Descends(m, end)
                           /\ m.height > r.checkpoint.height
    BY <1>3, ReachedIs
  <2> HIDE DEF members, member, end
  <2> QED
    BY <2>1, <2>2, <2>3, <2>4
<1> HIDE DEF end, member
<1>5. (r.first = NoReceipt /\ Enough(found, end)) \in BOOLEAN
  OBVIOUS
<1>6. /\ receipt \in Receipts /\ receipt.start = r.checkpoint /\ receipt.end = end
      /\ receipt.member = member
      /\ receipt.threshold = (r.first = NoReceipt /\ Enough(found, end))
      /\ receipt # NoReceipt
  <2>1. r.checkpoint \in Reached
    BY RecordIs
  <2>2. receipt \in Receipts
    BY <1>3, <1>4, <1>5, <2>1 DEF Receipts
  <2>3. receipt.start = r.checkpoint
    OBVIOUS
  <2>4. receipt # NoReceipt
    BY <2>1, <2>3, ReachedIs, Names
  <2> QED
    BY <2>2, <2>4
<1> HIDE DEF receipt
<1>7. first \in Receipts \cup {NoReceipt}
  BY <1>2, <1>6 DEF Records
<1>8. status \in {"AWAITING_INCLUSION", "INCLUDED_BELOW_THRESHOLD",
                  "THRESHOLD_OBSERVED", "QUARANTINED"}
  BY <1>2 DEF Records
<1> HIDE DEF first, status
<1>9. s \in Records
  <2>1. r.revision + 1 \in Nat
    BY RecordIs
  <2>2. [r EXCEPT !.revision = r.revision + 1] \in Records
    BY <1>2, <2>1 DEF Records
  <2>3. [r EXCEPT !.revision = r.revision + 1, !.checkpoint = end] \in Records
    BY <2>2, <1>3 DEF Records
  <2>4. [r EXCEPT !.revision = r.revision + 1, !.checkpoint = end, !.receipt = receipt]
          \in Records
    BY <2>3, <1>6 DEF Records
  <2>5. [r EXCEPT !.revision = r.revision + 1, !.checkpoint = end, !.receipt = receipt,
                  !.first = first] \in Records
    BY <2>4, <1>7 DEF Records
  <2> QED
    BY <2>5, <1>8 DEF Records
<1>10. /\ s.checkpoint = end /\ s.receipt = receipt /\ s.first = first
       /\ s.status = status /\ s.inclusion = r.inclusion
       /\ s.maxV1 = r.maxV1 /\ s.minV2 = r.minV2
  BY <1>2 DEF Records
<1> HIDE DEF s
<1>11. CASE r.inclusion = None
  <2>1. /\ r.first = NoReceipt /\ first = NoReceipt /\ status = "AWAITING_INCLUSION"
        /\ found = member
    BY <1>2, <1>11 DEF ClaimAgrees, StatusAgrees, first, status
  <2>2. StatusAgrees(s) /\ ClaimAgrees(s) /\ Follows(r, s)
    BY <2>1, <1>10, <1>11 DEF StatusAgrees, ClaimAgrees, Follows
  <2>3. ReceiptAgrees(s)
    BY <2>1, <1>4, <1>6, <1>10, <1>11 DEF ReceiptAgrees
  <2> QED
    BY <2>2, <2>3, <1>2, <1>9, <1>10 DEF RecordOK
<1>12. CASE r.inclusion # None
  <2>1. /\ found = r.inclusion /\ r.inclusion \in Reached /\ r.checkpoint \in Reached
        /\ Includes(r.inclusion) /\ Descends(r.inclusion, r.checkpoint)
        /\ Enough(r.inclusion, r.checkpoint) <=> r.first # NoReceipt
    BY <1>2, <1>12, RecordIs DEF ClaimAgrees
  <2>2. Descends(r.inclusion, end)
    BY <2>1, <1>3, DescendsTransitive
  <2>3. Enough(r.inclusion, r.checkpoint) => Enough(r.inclusion, end)
    BY <2>1, <1>3, EnoughIs, Names
  <2>4. first # NoReceipt <=> Enough(r.inclusion, end)
    BY <2>1, <2>3, <1>6, <1>12 DEF first
  <2>5. status = IF Enough(r.inclusion, end)
                 THEN "THRESHOLD_OBSERVED" ELSE "INCLUDED_BELOW_THRESHOLD"
    BY <2>1, <2>3, <2>4, <1>2, <1>12 DEF status, StatusAgrees
  <2>6. StatusAgrees(s)
    BY <2>5, <1>10, <1>12 DEF StatusAgrees
  <2>7. Follows(r, s)
    BY <2>5, <1>6, <1>10, <1>12 DEF Follows, first
  <2>8. CASE r.first = NoReceipt
    <3>1. /\ receipt.threshold <=> Enough(r.inclusion, end)
          /\ first = IF receipt.threshold THEN receipt ELSE NoReceipt
      BY <2>1, <2>8, <1>6, <1>12 DEF first
    <3>2. ReceiptAgrees(s)
      BY <3>1, <1>4, <1>6, <1>10, <1>12 DEF ReceiptAgrees
    <3>3. Confirmations(r.inclusion, r.checkpoint) < MinimumConfirmations
      BY <2>1, <2>8, EnoughIs
    <3>4. Descends(end, end)
      BY <1>3, DescendsFromItself
    <3>5. ClaimAgrees(s)
      BY <3>1, <3>3, <3>4, <2>1, <2>2, <2>4, <1>6, <1>10, <1>12 DEF ClaimAgrees
    <3> QED
      BY <3>2, <3>5, <2>6, <2>7, <1>2, <1>9, <1>10 DEF RecordOK
  <2>9. CASE r.first # NoReceipt
    <3>1. first = r.first /\ r.first.threshold /\ ~receipt.threshold
      BY <2>9, <1>2, <1>6 DEF first, ClaimAgrees
    <3>2. ReceiptAgrees(s)
      BY <3>1, <2>9, <1>4, <1>6, <1>10, <1>12 DEF ReceiptAgrees
    <3>3. Descends(r.first.end, r.checkpoint) /\ r.first.end \in Reached
      BY <2>9, <1>2, RecordIs DEF ClaimAgrees
    <3>4. Descends(r.first.end, end)
      BY <3>3, <2>1, <1>3, DescendsTransitive
    <3>5. ClaimAgrees(s)
      BY <3>1, <3>4, <2>1, <2>2, <2>4, <2>9, <1>2, <1>10, <1>12 DEF ClaimAgrees
    <3> QED
      BY <3>2, <3>5, <2>6, <2>7, <1>2, <1>9, <1>10 DEF RecordOK
  <2> QED
    BY <2>8, <2>9
<1> QED
  BY <1>11, <1>12

-----------------------------------------------------------------------------
(* What a write does to the outbox. *)

\* The outbox that goes with a record that follows this one.
LEMMA ReconciledGood ==
  ASSUME history \in Histories, RecordOK(record), OutboxOK(record, outbox),
         record.status # "QUARANTINED", NEW s, RecordOK(s), Follows(record, s)
  PROVE  OutboxOK(s, Reconciled(s)) /\ Succeeds(outbox, Reconciled(s))
<1>1. /\ outbox \in Outboxes
      /\ s.inclusion \in Reached \cup {None} /\ s.first \in Receipts \cup {NoReceipt}
  BY RecordIs DEF OutboxOK
<1>2. CASE record.first = NoReceipt
  <2>1. /\ outbox = EmptyOutbox /\ outbox.status = "NONE" /\ outbox.request = NoRequest
        /\ outbox.envelope = "none"
    BY <1>2 DEF OutboxOK, EmptyOutbox
  <2>2. CASE s.first = NoReceipt
    <3>1. StatusAgrees(s) /\ ClaimAgrees(s)
      BY DEF RecordOK
    <3>2. ~ (s.inclusion # None /\ Enough(s.inclusion, s.checkpoint))
      BY <2>2, <3>1 DEF ClaimAgrees
    <3>3. s.status # "THRESHOLD_OBSERVED"
      <4>1. CASE s.status = "QUARANTINED"
        BY <4>1
      <4>2. CASE s.status # "QUARANTINED" /\ s.inclusion = None
        BY <3>1, <4>2 DEF StatusAgrees
      <4>3. CASE s.status # "QUARANTINED" /\ s.inclusion # None
        BY <3>1, <3>2, <4>3 DEF StatusAgrees
      <4> QED
        BY <4>1, <4>2, <4>3
    <3>4. Reconciled(s) = outbox
      BY <2>1, <3>3 DEF Reconciled
    <3> QED
      BY <1>1, <2>1, <2>2, <3>4 DEF OutboxOK, Succeeds
  <2>3. CASE s.first # NoReceipt
    <3>1. s.status = "THRESHOLD_OBSERVED"
      BY <1>2, <2>3 DEF RecordOK, StatusAgrees, ClaimAgrees, Follows
    <3> DEFINE q == [EmptyOutbox EXCEPT !.status = "PREPARED", !.revision = 1,
                       !.request = [inclusion |-> s.inclusion, first |-> s.first]]
    <3>2. Reconciled(s) = q
      BY <2>1, <3>1 DEF Reconciled
    <3>3. /\ q.status = "PREPARED" /\ q.revision = 1
          /\ q.request = [inclusion |-> s.inclusion, first |-> s.first]
          /\ q.envelope = "none" /\ q.conflicting = "none" /\ q.prior = "NONE"
      BY DEF EmptyOutbox
    <3>4. q \in Outboxes
      <4>1. EmptyOutbox \in Outboxes
        BY <1>1, <2>1
      <4>2. [EmptyOutbox EXCEPT !.status = "PREPARED"] \in Outboxes
        BY <4>1 DEF Outboxes
      <4>3. [EmptyOutbox EXCEPT !.status = "PREPARED", !.revision = 1] \in Outboxes
        BY <4>2 DEF Outboxes
      <4>4. [inclusion |-> s.inclusion, first |-> s.first]
              \in [inclusion : Reached \cup {None}, first : Receipts \cup {NoReceipt}]
        BY <1>1
      <4> QED
        BY <4>3, <4>4 DEF Outboxes
    <3> HIDE DEF q
    <3>5. /\ Prepared(q) /\ q.request.inclusion = s.inclusion
          /\ q.request.first = s.first /\ q.status = "PREPARED"
      BY <3>3 DEF Prepared
    <3>6. OutboxOK(s, q)
      BY <2>3, <3>1, <3>4, <3>5 DEF OutboxOK
    <3> QED
      BY <2>1, <3>2, <3>6 DEF Succeeds
  <2> QED
    BY <2>2, <2>3
<1>3. CASE record.first # NoReceipt
  <2>1. /\ s.first = record.first /\ s.inclusion = record.inclusion
        /\ record.inclusion # None
    BY <1>3 DEF Follows, RecordOK, ClaimAgrees
  <2>2. /\ outbox.request.inclusion = s.inclusion /\ outbox.request.first = s.first
        /\ Prepared(outbox) \/ Signed(outbox) \/ Equivocated(outbox)
    BY <1>3, <2>1 DEF OutboxOK, Invalidated
  <2>3. outbox.status \in {"PREPARED", "READY", "EQUIVOCATED"}
    BY <2>2 DEF Prepared, Signed, Equivocated
  <2>4. CASE s.status = "QUARANTINED" /\ outbox.status \in {"PREPARED", "READY"}
    <3> DEFINE q == [outbox EXCEPT !.status = "INVALIDATED", !.revision = @ + 1,
                                   !.prior = outbox.status]
    <3>1. Reconciled(s) = q
      BY <2>4 DEF Reconciled
    <3>2. Prepared(outbox) \/ Signed(outbox)
      BY <2>2, <2>4 DEF Equivocated
    <3>3. outbox.revision + 1 \in Nat /\ outbox.revision \in {1, 2}
      BY <3>2 DEF Prepared, Signed
    <3>4. [outbox EXCEPT !.status = "INVALIDATED", !.revision = outbox.revision + 1]
            \in Outboxes
      BY <1>1, <3>3 DEF Outboxes
    <3>5. q \in Outboxes
      BY <2>4, <3>4 DEF Outboxes
    <3>6. /\ q.status = "INVALIDATED" /\ q.revision = outbox.revision + 1
          /\ q.prior = outbox.status /\ q.request = outbox.request
          /\ q.envelope = outbox.envelope /\ q.conflicting = outbox.conflicting
      BY <1>1 DEF Outboxes
    <3> HIDE DEF q
    <3>7. Invalidated(q)
      BY <3>2, <3>6 DEF Prepared, Signed, Invalidated
    <3>8. OutboxOK(s, q)
      BY <1>3, <2>1, <2>2, <2>4, <3>5, <3>6, <3>7 DEF OutboxOK
    <3> QED
      BY <2>4, <3>1, <3>6, <3>8 DEF Succeeds
  <2>5. CASE s.status # "QUARANTINED" \/ outbox.status = "EQUIVOCATED"
    <3>1. Reconciled(s) = outbox
      BY <2>3, <2>5 DEF Reconciled
    <3>2. s.status # "QUARANTINED" => s.status = "THRESHOLD_OBSERVED"
      BY <1>3, <2>1 DEF RecordOK, StatusAgrees, ClaimAgrees
    <3>3. OutboxOK(s, outbox)
      BY <1>1, <1>3, <2>1, <2>2, <2>3, <2>5, <3>2 DEF OutboxOK
    <3> QED
      BY <3>1, <3>3 DEF Succeeds
  <2> QED
    BY <2>3, <2>4, <2>5
<1> QED
  BY <1>2, <1>3

\* The outbox that goes with the same record once an envelope is committed.
LEMMA CommittedGood ==
  ASSUME history \in Histories, RecordOK(record), OutboxOK(record, outbox),
         NEW e, e \in Envelopes, outbox.status \in {"PREPARED", "READY"}
  PROVE  OutboxOK(record, Committed(e)) /\ Succeeds(outbox, Committed(e))
<1>1. /\ outbox \in Outboxes /\ record.first # NoReceipt
      /\ outbox.request.inclusion = record.inclusion
      /\ outbox.request.first = record.first
      /\ record.status = "THRESHOLD_OBSERVED"
  BY DEF OutboxOK, EmptyOutbox
<1>2. Prepared(outbox) \/ Signed(outbox)
  BY <1>1 DEF OutboxOK, Invalidated, Equivocated
<1>3. outbox.revision + 1 \in Nat /\ outbox.revision \in {1, 2}
  BY <1>2 DEF Prepared, Signed
<1>4. [outbox EXCEPT !.revision = outbox.revision + 1] \in Outboxes
  BY <1>1, <1>3 DEF Outboxes
<1>5. CASE outbox.status = "PREPARED"
  <2> DEFINE q == [outbox EXCEPT !.status = "READY", !.revision = @ + 1, !.envelope = e]
  <2>1. Committed(e) = q
    BY <1>5 DEF Committed
  <2>2. [outbox EXCEPT !.status = "READY", !.revision = outbox.revision + 1] \in Outboxes
    BY <1>4 DEF Outboxes
  <2>3. q \in Outboxes
    BY <2>2 DEF Outboxes
  <2>4. /\ q.status = "READY" /\ q.revision = outbox.revision + 1 /\ q.envelope = e
        /\ q.request = outbox.request /\ q.conflicting = outbox.conflicting
        /\ q.prior = outbox.prior
    BY <1>1 DEF Outboxes
  <2> HIDE DEF q
  <2>5. Signed(q) /\ outbox.envelope = "none"
    BY <1>2, <1>5, <2>4 DEF Prepared, Signed
  <2>6. OutboxOK(record, q)
    BY <1>1, <2>3, <2>4, <2>5 DEF OutboxOK
  <2> QED
    BY <1>5, <2>1, <2>4, <2>5, <2>6 DEF Succeeds
<1>6. CASE outbox.status = "READY" /\ outbox.envelope = e
  BY <1>6 DEF Committed, Succeeds
<1>7. CASE outbox.status = "READY" /\ outbox.envelope # e
  <2> DEFINE q == [outbox EXCEPT !.status = "EQUIVOCATED", !.revision = @ + 1,
                                 !.conflicting = e, !.prior = "READY"]
  <2>1. Committed(e) = q
    BY <1>7 DEF Committed
  <2>2. [outbox EXCEPT !.status = "EQUIVOCATED", !.revision = outbox.revision + 1]
          \in Outboxes
    BY <1>4 DEF Outboxes
  <2>3. [outbox EXCEPT !.status = "EQUIVOCATED", !.revision = outbox.revision + 1,
                       !.conflicting = e] \in Outboxes
    BY <2>2 DEF Outboxes
  <2>4. q \in Outboxes
    BY <2>3 DEF Outboxes
  <2>5. /\ q.status = "EQUIVOCATED" /\ q.revision = outbox.revision + 1
        /\ q.envelope = outbox.envelope /\ q.request = outbox.request
        /\ q.conflicting = e /\ q.prior = "READY"
    BY <1>1 DEF Outboxes
  <2> HIDE DEF q
  <2>6. Equivocated(q)
    BY <1>2, <1>7, <2>5 DEF Prepared, Signed, Equivocated
  <2>7. OutboxOK(record, q)
    BY <1>1, <2>4, <2>5, <2>6 DEF OutboxOK
  <2> QED
    BY <1>7, <2>1, <2>5, <2>7 DEF Succeeds
<1> QED
  BY <1>5, <1>6, <1>7

-----------------------------------------------------------------------------
(* Steps.  The chain's history never changes, so that what held of it      *)
(* before a step holds after.                                              *)

LEMMA Steady ==
  ASSUME history' = history
  PROVE  /\ \A b, h : At(b, h)' = At(b, h)
         /\ Reached' = Reached /\ Receipts' = Receipts /\ Records' = Records
         /\ Outboxes' = Outboxes /\ Pages' = Pages /\ Places' = Places
         /\ Runs' = Runs
<1>1. \A b, h : At(b, h)' = At(b, h)
  BY DEF At
<1>2. Reached' = Reached
  BY <1>1 DEF Reached, At
<1>3. Receipts' = Receipts
  BY <1>2 DEF Receipts
<1>4. Records' = Records
  BY <1>2, <1>3 DEF Records
<1>5. Outboxes' = Outboxes
  BY <1>2, <1>3 DEF Outboxes
<1>6. Pages' = Pages
  <2>1. \A b, h, n : Page(b, h, n)' = Page(b, h, n)
    BY DEF Page, At
  <2> QED
    BY <2>1 DEF Pages
<1>7. Places' = Places
  BY <1>1 DEF Places, At
<1>8. Runs' = Runs
  BY <1>2, <1>6, <1>7 DEF Runs
<1> QED
  BY <1>1, <1>2, <1>3, <1>4, <1>5, <1>6, <1>7, <1>8

LEMMA RecordCarries ==
  ASSUME history' = history, NEW s, RecordOK(s), record' = s,
         NEW o, OutboxOK(s, o), outbox' = o
  PROVE  RecordOK(record)' /\ OutboxOK(record, outbox)'
<1>1. record' \in Records' /\ outbox' \in Outboxes'
  BY Steady DEF RecordOK, OutboxOK
<1>2. /\ StatusAgrees(record)' /\ (record.maxV1 < record.minV2)'
  BY DEF RecordOK, StatusAgrees, Enough, Confirmations
<1>3. ReceiptAgrees(record)'
  BY DEF RecordOK, ReceiptAgrees, Includes
<1>4. ClaimAgrees(record)'
  BY DEF RecordOK, ClaimAgrees, Includes
<1>5. RecordOK(record)'
  BY <1>1, <1>2, <1>3, <1>4 DEF RecordOK
<1>6. OutboxOK(record, outbox)'
  BY <1>1 DEF OutboxOK
<1> QED
  BY <1>5, <1>6

LEMMA RunCarries ==
  ASSUME history' = history, NEW p \in Producers, RunOK(producer'[p])
  PROVE  RunOK(producer[p])'
BY Steady DEF RunOK

\* What RevokedForGood asks of a step.
Revokes ==
  /\ record.inclusion # None => record'.inclusion = record.inclusion
  /\ record.first # NoReceipt => record'.first = record.first
  /\ outbox.request # NoRequest => outbox'.request = outbox.request
  /\ outbox.envelope # "none" => outbox'.envelope = outbox.envelope
  /\ Quarantined => record' = record
  /\ outbox.status \in {"INVALIDATED", "EQUIVOCATED"} => outbox' = outbox

LEMMA ProducersCarry ==
  ASSUME ObserverInv, NEW p \in Producers, NEW x, RunOK(x),
         producer' = [producer EXCEPT ![p] = x]
  PROVE  /\ producer' = [q \in Producers |-> producer'[q]]
         /\ \A q \in Producers : RunOK(producer'[q])
<1>1. /\ producer = [q \in Producers |-> producer[q]]
      /\ \A q \in Producers : RunOK(producer[q])
  BY DEF ObserverInv
<1>2. DOMAIN producer = Producers
  BY <1>1
<1>3. \A q \in Producers : producer'[q] = IF q = p THEN x ELSE producer[q]
  BY <1>2
<1>4. producer' = [q \in Producers |-> producer'[q]]
  BY <1>2
<1> QED
  BY <1>1, <1>3, <1>4

LEMMA RunIs ==
  ASSUME ObserverInv, NEW p \in Producers, producer[p].step # "idle"
  PROVE  producer[p] \in Runs
BY DEF ObserverInv, RunOK, Idle

LEMMA ContinuesGood ==
  ASSUME ObserverInv, NEW p \in Producers, producer[p].step # "idle", NEW r,
         NEW step, step \in {"page", "settle", "idle"}, Continues(p, r, step)
  PROVE  /\ producer' = [q \in Producers |-> producer'[q]]
         /\ \A q \in Producers : RunOK(producer'[q])
<1> DEFINE x == IF r.status = "QUARANTINED" \/ step = "idle" THEN Idle
                ELSE [producer[p] EXCEPT !.step = step]
<1>1. DOMAIN producer = Producers /\ producer[p] \in Runs
  BY RunIs DEF ObserverInv
<1>2. producer' = [producer EXCEPT ![p] = x]
  BY <1>1 DEF Continues, Idle
<1>3. RunOK(x)
  <2>1. step # "idle" => [producer[p] EXCEPT !.step = step] \in Runs
    BY <1>1 DEF Runs
  <2> QED
    BY <2>1 DEF RunOK
<1> HIDE DEF x
<1> QED
  BY <1>2, <1>3, ProducersCarry

\* A step that writes a record that follows this one.
LEMMA Writes ==
  ASSUME ObserverInv, ~Quarantined, NEW s, RecordOK(s), Follows(record, s),
         record' = s, outbox' = Reconciled(s), UNCHANGED <<history, signer>>,
         producer' = [q \in Producers |-> producer'[q]],
         \A q \in Producers : RunOK(producer'[q])
  PROVE  ObserverInv' /\ Revokes
<1>1. /\ history \in Histories /\ RecordOK(record) /\ OutboxOK(record, outbox)
      /\ signer = [t \in Signers |-> signer[t]]
      /\ \A t \in Signers : SignerOK(signer[t])
  BY DEF ObserverInv
<1>2. history' = history /\ signer' = signer /\ record.status # "QUARANTINED"
  BY DEF Quarantined
<1>3. OutboxOK(s, outbox') /\ Succeeds(outbox, outbox')
  BY <1>1, <1>2, ReconciledGood
<1>4. RecordOK(record)' /\ OutboxOK(record, outbox)'
  <2> DEFINE o == Reconciled(s)
  <2>1. OutboxOK(s, o) /\ outbox' = o
    BY <1>3
  <2> HIDE DEF o
  <2> QED
    BY <2>1, <1>2, RecordCarries
<1>5. \A q \in Producers : RunOK(producer[q])'
  BY <1>2, RunCarries
<1>6. (\A t \in Signers : SignerOK(signer[t]))'
  BY <1>1, <1>2 DEF SignerOK
<1>7. ObserverInv'
  BY <1>1, <1>2, <1>4, <1>5, <1>6 DEF ObserverInv
<1>8. Revokes
  BY <1>2, <1>3 DEF Revokes, Follows, Succeeds, Quarantined
<1> QED
  BY <1>7, <1>8

\* A step of a signer, or of a producer that stops.
LEMMA Spares ==
  ASSUME ObserverInv, history' = history, record' = record,
         \/ outbox' = outbox
         \/ OutboxOK(record, outbox') /\ Succeeds(outbox, outbox'),
         producer' = [q \in Producers |-> producer'[q]],
         \A q \in Producers : RunOK(producer'[q]),
         signer' = [t \in Signers |-> signer'[t]],
         \A t \in Signers : SignerOK(signer'[t])
  PROVE  ObserverInv' /\ Revokes
<1>1. /\ history \in Histories /\ RecordOK(record) /\ OutboxOK(record, outbox)
  BY DEF ObserverInv
<1>2. history' = history /\ record' = record
  OBVIOUS
<1>3. OutboxOK(record, outbox') /\ Succeeds(outbox, outbox')
  BY <1>1 DEF Succeeds
<1>4. RecordOK(record)' /\ OutboxOK(record, outbox)'
  <2>1. ASSUME NEW s, RecordOK(s), record' = s, NEW o, OutboxOK(s, o), outbox' = o
        PROVE  RecordOK(record)' /\ OutboxOK(record, outbox)'
    BY <2>1, <1>2, RecordCarries
  <2> QED
    BY <2>1, <1>1, <1>2, <1>3
<1>5. \A q \in Producers : RunOK(producer[q])'
  BY <1>2, RunCarries
<1>6. (\A t \in Signers : SignerOK(signer[t]))'
  BY <1>1, <1>2 DEF SignerOK
<1>7. ObserverInv'
  BY <1>1, <1>2, <1>4, <1>5, <1>6 DEF ObserverInv
<1>8. Revokes
  BY <1>2, <1>3 DEF Revokes, Succeeds
<1> QED
  BY <1>7, <1>8

LEMMA SignersCarry ==
  ASSUME ObserverInv, NEW t \in Signers, NEW x, SignerOK(x),
         signer' = [signer EXCEPT ![t] = x]
  PROVE  /\ signer' = [u \in Signers |-> signer'[u]]
         /\ \A u \in Signers : SignerOK(signer'[u])
<1>1. /\ signer = [u \in Signers |-> signer[u]]
      /\ \A u \in Signers : SignerOK(signer[u])
  BY DEF ObserverInv
<1>2. DOMAIN signer = Signers
  BY <1>1
<1>3. \A u \in Signers : signer'[u] = IF u = t THEN x ELSE signer[u]
  BY <1>2
<1>4. signer' = [u \in Signers |-> signer'[u]]
  BY <1>2
<1> QED
  BY <1>1, <1>3, <1>4

\* Everybody else's part of a step that leaves it alone.
LEMMA Same ==
  ASSUME ObserverInv
  PROVE  /\ producer' = producer =>
              /\ producer' = [q \in Producers |-> producer'[q]]
              /\ \A q \in Producers : RunOK(producer'[q])
         /\ signer' = signer =>
              /\ signer' = [u \in Signers |-> signer'[u]]
              /\ \A u \in Signers : SignerOK(signer'[u])
BY DEF ObserverInv

-----------------------------------------------------------------------------
(* One lemma per action. *)

LEMMA InvIs ==
  ASSUME ObserverInv
  PROVE  /\ history \in Histories /\ RecordOK(record) /\ OutboxOK(record, outbox)
         /\ record.checkpoint \in Reached /\ record.checkpoint.height \in 1 .. Height
BY RecordIs DEF ObserverInv

LEMMA LengthIs ==
  ASSUME history \in Histories, NEW c \in Reached, NEW f \in Reached,
         f.height >= c.height
  PROVE  /\ PageLength(c, f) \in 0 .. Height
         /\ c.height + PageLength(c, f) <= Height
         /\ f.height > c.height => PageLength(c, f) >= 1
<1> DEFINE T == {f.height - c.height, MaximumPageEntries}
<1>1. /\ f.height \in 1 .. Height /\ c.height \in 1 .. Height
      /\ Height \in Nat /\ MaximumPageEntries \in Nat /\ MaximumPageEntries >= 1
  BY ReachedIs, Names
<1>2. f.height - c.height \in Nat /\ f.height - c.height <= Height
  BY <1>1
<1>3. T \subseteq 0 .. (Height + MaximumPageEntries) /\ T # {}
      /\ Height + MaximumPageEntries \in Nat
  BY <1>1, <1>2
<1>4. Min(T) \in T /\ \A y \in T : Min(T) <= y
  <2> HIDE DEF T
  <2> QED
    BY <1>3, Extremes
<1>5. PageLength(c, f) = Min(T)
  BY DEF PageLength
<1>6. /\ Min(T) = f.height - c.height \/ Min(T) = MaximumPageEntries
      /\ Min(T) <= f.height - c.height
  BY <1>4
<1>7. Min(T) \in Nat /\ (f.height > c.height => Min(T) >= 1)
  BY <1>1, <1>2, <1>6
<1> HIDE DEF T
<1> QED
  BY <1>1, <1>2, <1>5, <1>6, <1>7

LEMMA BeginsGood ==
  ASSUME ObserverInv, NEW p \in Producers, Begins(p)
  PROVE  ObserverInv' /\ Revokes
<1>1. PICK b \in Branches, c \in Branches, d \in Branches,
           h \in record.checkpoint.height .. Height,
           confirmed \in {None} \cup {At(e, history.target[e]) :
                                      e \in {x \in Branches : history.target[x] # 0}} :
        LET bundle == Bundle(record.checkpoint, At(b, h),
                             At(c, record.checkpoint.height), d, confirmed)
            learnt == Learnt(record, Momentums(bundle))
        IN  /\ Admitted(bundle)
            /\ Write(learnt)
            /\ producer' = [producer EXCEPT ![p] =
                 IF learnt.status = "QUARANTINED" THEN [step |-> "idle"]
                 ELSE [step |-> IF Pending(record) THEN "pending" ELSE "page",
                       frontier |-> bundle.frontier, page |-> bundle.page,
                       confirmed |-> bundle.confirmed]]
  BY Zenon DEF Begins
<1> DEFINE f == At(b, h)
           k == At(c, record.checkpoint.height)
           n == PageLength(record.checkpoint, f)
           bundle == Bundle(record.checkpoint, f, k, d, confirmed)
           s == Learnt(record, Momentums(bundle))
           run == [step |-> IF Pending(record) THEN "pending" ELSE "page",
                   frontier |-> bundle.frontier, page |-> bundle.page,
                   confirmed |-> bundle.confirmed]
           x == IF s.status = "QUARANTINED" THEN Idle ELSE run
<1>2. /\ history \in Histories /\ RecordOK(record)
      /\ record.checkpoint \in Reached /\ record.checkpoint.height \in 1 .. Height
  BY InvIs
<1>3. h \in 1 .. Height /\ h >= record.checkpoint.height
  BY <1>2, Names
<1>4. f \in Reached /\ f.height = h /\ k \in Reached
  BY <1>2, <1>3, AtIs
<1>5. confirmed \in Places
  BY DEF Places
<1>6. confirmed = None \/ confirmed \in Reached
  BY <1>2, <1>5, PlacesAre
<1>7. n \in 0 .. Height /\ record.checkpoint.height + n <= Height
  BY <1>2, <1>3, <1>4, LengthIs
<1>8. /\ bundle.frontier = f /\ bundle.checked = k /\ bundle.confirmed = confirmed
      /\ bundle.page = Page(d, record.checkpoint.height, n)
  BY DEF Bundle, Page
<1> HIDE DEF f, k, n
<1>9. bundle.page \in Pages /\ \A i \in DOMAIN bundle.page : bundle.page[i] \in Reached
  <2>1. n \in 0 .. (Height - record.checkpoint.height)
    BY <1>2, <1>7, Names
  <2>2. bundle.page \in Pages
    <3> DEFINE runs(e, g) == {Page(e, g, j) : j \in 0 .. (Height - g)}
               all == {runs(e, g) : e \in Branches, g \in 1 .. Height}
    <3>1. bundle.page \in runs(d, record.checkpoint.height)
      BY <1>8, <2>1
    <3>2. runs(d, record.checkpoint.height) \in all
      BY <1>2
    <3>3. Pages = UNION all
      BY DEF Pages
    <3> HIDE DEF runs, all
    <3> QED
      BY <3>1, <3>2, <3>3
  <2>3. /\ DOMAIN Page(d, record.checkpoint.height, n) = 1 .. n
        /\ \A i \in 1 .. n : Page(d, record.checkpoint.height, n)[i] \in Reached
    <3>1. ASSUME NEW g \in 1 .. Height, NEW j \in 0 .. Height, g + j <= Height
          PROVE  /\ DOMAIN Page(d, g, j) = 1 .. j
                 /\ \A i \in 1 .. j : Page(d, g, j)[i] \in Reached
      <4>1. /\ DOMAIN Page(d, g, j) = 1 .. j
            /\ \A i \in 1 .. j : Page(d, g, j)[i] = At(d, g + i) /\ g + i \in 1 .. Height
        BY <1>2, <3>1, PageIs
      <4> QED
        BY <1>2, <4>1, AtIs
    <3> QED
      BY <3>1, <1>2, <1>7
  <2> QED
    BY <1>8, <2>2, <2>3
<1> HIDE DEF bundle
<1>10. Momentums(bundle) \subseteq Reached
  BY <1>4, <1>6, <1>8, <1>9 DEF Momentums, Entries
<1>11. RecordOK(s) /\ Follows(record, s)
  BY <1>2, <1>10, LearntGood
<1>12. run \in Runs
  BY <1>4, <1>5, <1>8, <1>9 DEF Runs
<1>13. record' = s /\ outbox' = Reconciled(s) /\ producer' = [producer EXCEPT ![p] = x]
  BY <1>1 DEF Write, Idle, bundle, f, k
<1> HIDE DEF s, run
<1>14. RunOK(x)
  BY <1>12 DEF RunOK
<1> HIDE DEF x
<1>15. /\ producer' = [q \in Producers |-> producer'[q]]
       /\ \A q \in Producers : RunOK(producer'[q])
  BY <1>13, <1>14, ProducersCarry
<1>16. ~Quarantined /\ UNCHANGED <<history, signer>>
  BY DEF Begins
<1> QED
  BY <1>11, <1>13, <1>15, <1>16, Writes

LEMMA ClassifiesReceiptGood ==
  ASSUME ObserverInv, NEW p \in Producers, ClassifiesReceipt(p)
  PROVE  ObserverInv' /\ Revokes
<1> DEFINE s == Observed(record, producer[p].confirmed)
<1>1. /\ ~Quarantined /\ producer[p].step = "pending" /\ UNCHANGED <<history, signer>>
      /\ record' = s /\ outbox' = Reconciled(s) /\ Continues(p, s, "page")
  BY DEF ClassifiesReceipt, Write
<1>2. RecordOK(s) /\ Follows(record, s)
  BY <1>1, InvIs, ObservedGood DEF Quarantined
<1> HIDE DEF s
<1>3. /\ producer' = [q \in Producers |-> producer'[q]]
      /\ \A q \in Producers : RunOK(producer'[q])
  BY <1>1, ContinuesGood
<1> QED
  BY <1>1, <1>2, <1>3, Writes

LEMMA FrontierReplacedGood ==
  ASSUME ObserverInv, NEW p \in Producers, FrontierReplaced(p)
  PROVE  ObserverInv' /\ Revokes
<1> DEFINE s == Quarantine(record)
<1>1. /\ ~Quarantined /\ producer[p].step = "page" /\ UNCHANGED <<history, signer>>
      /\ record' = s /\ outbox' = Reconciled(s) /\ Continues(p, s, "idle")
  BY DEF FrontierReplaced, Write
<1>2. RecordOK(s) /\ Follows(record, s)
  BY <1>1, InvIs, QuarantineGood
<1> HIDE DEF s
<1>3. /\ producer' = [q \in Producers |-> producer'[q]]
      /\ \A q \in Producers : RunOK(producer'[q])
  BY <1>1, ContinuesGood
<1> QED
  BY <1>1, <1>2, <1>3, Writes

LEMMA AppliesPageGood ==
  ASSUME ObserverInv, NEW p \in Producers, AppliesPage(p)
  PROVE  ObserverInv' /\ Revokes
<1> DEFINE s == IF PageConflicts(record, producer[p]) THEN Quarantine(record)
                ELSE Paged(record, producer[p])
<1>1. /\ ~Quarantined /\ producer[p].step = "page" /\ UNCHANGED <<history, signer>>
      /\ record' = s /\ outbox' = Reconciled(s) /\ Continues(p, s, "settle")
      /\ ~Pending(record)
      /\ producer[p].frontier.height > record.checkpoint.height
      /\ Len(producer[p].page) = PageLength(record.checkpoint, producer[p].frontier)
  BY DEF AppliesPage, Write
<1>2. /\ history \in Histories /\ RecordOK(record) /\ record.checkpoint \in Reached
      /\ record.status # "QUARANTINED"
  BY <1>1, InvIs DEF Quarantined
<1>3. producer[p] \in Runs
  BY <1>1, RunIs
<1>4. producer[p].frontier \in Reached /\ producer[p].page \in Pages
  BY <1>3 DEF Runs
<1>5. PICK b \in Branches, h \in 1 .. Height : \E n \in 0 .. (Height - h) :
        producer[p].page = Page(b, h, n)
  BY <1>4 DEF Pages
<1>6. PICK n \in 0 .. (Height - h) : producer[p].page = Page(b, h, n)
  BY <1>5
<1>7. n \in 0 .. Height /\ h + n <= Height
  BY <1>6, Names
<1>8. Len(producer[p].page) = n
  BY <1>2, <1>6, <1>7, PageIs
<1>9. n \in 1 .. Height
  <2>1. record.checkpoint.height \in Nat /\ producer[p].frontier.height \in Nat
    BY <1>2, <1>4, ReachedIs
  <2>2. PageLength(record.checkpoint, producer[p].frontier) >= 1
    BY <1>1, <1>2, <1>4, <2>1, LengthIs
  <2> QED
    BY <1>1, <1>7, <1>8, <2>2, Names
<1>10. record.inclusion = None => record.receipt.member = None
  BY <1>1 DEF Pending
<1>11. RecordOK(s) /\ Follows(record, s)
  <2>1. CASE PageConflicts(record, producer[p])
    BY <1>2, <2>1, QuarantineGood
  <2>2. CASE ~PageConflicts(record, producer[p])
    <3>1. /\ RecordOK(Paged(record, producer[p]))
          /\ Follows(record, Paged(record, producer[p]))
      BY <1>2, <1>6, <1>7, <1>9, <1>10, <2>2, PagedGood
    <3> QED
      BY <2>2, <3>1
  <2> QED
    BY <2>1, <2>2
<1> HIDE DEF s
<1>12. /\ producer' = [q \in Producers |-> producer'[q]]
       /\ \A q \in Producers : RunOK(producer'[q])
  BY <1>1, ContinuesGood
<1> QED
  BY <1>1, <1>11, <1>12, Writes

LEMMA SettlesGood ==
  ASSUME ObserverInv, NEW p \in Producers, Settles(p)
  PROVE  ObserverInv' /\ Revokes
<1> DEFINE m == producer[p].confirmed
           s == IF m.height > record.checkpoint.height THEN record
                ELSE Observed(record, m)
<1>1. /\ ~Quarantined /\ producer[p].step # "idle" /\ UNCHANGED <<history, signer>>
      /\ record' = s /\ outbox' = Reconciled(s) /\ Continues(p, s, "idle")
  BY DEF Settles, Write, NoPlan
<1>2. history \in Histories /\ RecordOK(record) /\ record.status # "QUARANTINED"
  BY <1>1, InvIs DEF Quarantined
<1>3. Follows(record, record)
  BY DEF Follows
<1>4. RecordOK(Observed(record, m)) /\ Follows(record, Observed(record, m))
  BY <1>2, ObservedGood
<1>5. RecordOK(s) /\ Follows(record, s)
  BY <1>2, <1>3, <1>4
<1> HIDE DEF s
<1>6. /\ producer' = [q \in Producers |-> producer'[q]]
      /\ \A q \in Producers : RunOK(producer'[q])
  BY <1>1, ContinuesGood
<1> QED
  BY <1>1, <1>5, <1>6, Writes

LEMMA StopsGood ==
  ASSUME ObserverInv, NEW p \in Producers, Stops(p)
  PROVE  ObserverInv' /\ Revokes
<1>1. /\ producer[p].step # "idle" /\ Continues(p, record, "idle")
      /\ history' = history /\ record' = record /\ outbox' = outbox
      /\ signer' = signer
  BY DEF Stops
<1>2. /\ producer' = [q \in Producers |-> producer'[q]]
      /\ \A q \in Producers : RunOK(producer'[q])
  BY <1>1, ContinuesGood
<1>3. /\ signer' = [u \in Signers |-> signer'[u]]
      /\ \A u \in Signers : SignerOK(signer'[u])
  BY <1>1, Same
<1> QED
  BY <1>1, <1>2, <1>3, Spares

\* Where a signer stands is its own.
LEMMA SignerStepGood ==
  ASSUME ObserverInv, NEW t \in Signers, NEW x, SignerOK(x),
         signer' = [signer EXCEPT ![t] = x],
         history' = history, record' = record, producer' = producer,
         \/ outbox' = outbox
         \/ OutboxOK(record, outbox') /\ Succeeds(outbox, outbox')
  PROVE  ObserverInv' /\ Revokes
<1>1. /\ signer' = [u \in Signers |-> signer'[u]]
      /\ \A u \in Signers : SignerOK(signer'[u])
  BY SignersCarry
<1>2. /\ producer' = [q \in Producers |-> producer'[q]]
      /\ \A q \in Producers : RunOK(producer'[q])
  BY Same
<1> QED
  BY <1>1, <1>2, Spares

LEMMA DispatchesGood ==
  ASSUME ObserverInv, NEW t \in Signers, Dispatches(t)
  PROVE  ObserverInv' /\ Revokes
<1> DEFINE x == [step |-> "dispatched", revision |-> record.revision]
<1>1. SignerOK(x)
  BY InvIs, RecordIs DEF SignerOK
<1>2. /\ signer' = [signer EXCEPT ![t] = x]
      /\ history' = history /\ record' = record /\ outbox' = outbox
      /\ producer' = producer
  BY DEF Dispatches
<1> HIDE DEF x
<1> QED
  BY <1>1, <1>2, SignerStepGood

LEMMA AnsweredGood ==
  ASSUME ObserverInv, NEW t \in Signers, Answered(t)
  PROVE  ObserverInv' /\ Revokes
<1>1. PICK e \in Envelopes :
        signer' = [signer EXCEPT ![t] =
          [step |-> "answered", revision |-> record.revision, envelope |-> e]]
  BY DEF Answered
<1> DEFINE x == [step |-> "answered", revision |-> record.revision, envelope |-> e]
<1>2. SignerOK(x)
  BY InvIs, RecordIs DEF SignerOK
<1>3. /\ history' = history /\ record' = record /\ outbox' = outbox
      /\ producer' = producer
  BY DEF Answered
<1>4. signer' = [signer EXCEPT ![t] = x]
  BY <1>1
<1> HIDE DEF x
<1> QED
  BY <1>2, <1>3, <1>4, SignerStepGood

LEMMA CommitsGood ==
  ASSUME ObserverInv, NEW t \in Signers, Commits(t)
  PROVE  ObserverInv' /\ Revokes
<1>1. /\ signer[t].step = "answered" /\ outbox.status \in {"PREPARED", "READY"}
      /\ outbox' = Committed(signer[t].envelope)
      /\ signer' = [signer EXCEPT ![t] = Idle]
      /\ history' = history /\ record' = record /\ producer' = producer
  BY DEF Commits, Idle
<1>2. signer[t].envelope \in Envelopes
  BY <1>1 DEF ObserverInv, SignerOK, Idle
<1>3. OutboxOK(record, outbox') /\ Succeeds(outbox, outbox')
  BY <1>1, <1>2, InvIs, CommittedGood
<1>4. SignerOK(Idle)
  BY DEF SignerOK
<1> QED
  BY <1>1, <1>3, <1>4, SignerStepGood

LEMMA GivesUpGood ==
  ASSUME ObserverInv, NEW t \in Signers, GivesUp(t)
  PROVE  ObserverInv' /\ Revokes
<1>1. /\ signer' = [signer EXCEPT ![t] = Idle]
      /\ history' = history /\ record' = record /\ outbox' = outbox
      /\ producer' = producer
  BY DEF GivesUp, Idle
<1>2. SignerOK(Idle)
  BY DEF SignerOK
<1> QED
  BY <1>1, <1>2, SignerStepGood

LEMMA InitGood == Init => ObserverInv
<1> SUFFICES ASSUME Init PROVE ObserverInv
  OBVIOUS
<1>1. history \in Histories /\ outbox = EmptyOutbox
  BY DEF Init
<1>2. At("a", 1) \in Reached
  BY <1>1, Names, AtIs DEF Branches
<1>3. /\ record.revision = 0 /\ record.status = "AWAITING_INCLUSION"
      /\ record.checkpoint = At("a", 1) /\ record.receipt = NoReceipt
      /\ record.maxV1 = 0 /\ record.minV2 = Height + 1
      /\ record.inclusion = None /\ record.first = NoReceipt
  BY DEF Init
<1>4. record \in Records
  <2>1. 0 \in 0 .. Height /\ Height + 1 \in 2 .. Height + 1
    BY Names
  <2> QED
    BY <1>2, <2>1 DEF Init, Records
<1>5. RecordOK(record)
  BY <1>3, <1>4, Names DEF RecordOK, StatusAgrees, ReceiptAgrees, ClaimAgrees
<1>6. OutboxOK(record, outbox)
  <2>1. outbox \in Outboxes
    BY <1>1 DEF EmptyOutbox, NoRequest, Outboxes
  <2> QED
    BY <1>1, <1>3, <2>1 DEF OutboxOK
<1>7. /\ producer = [p \in Producers |-> Idle] /\ signer = [t \in Signers |-> Idle]
  BY DEF Init, Idle
<1>8. /\ producer = [p \in Producers |-> producer[p]]
      /\ signer = [t \in Signers |-> signer[t]]
      /\ \A p \in Producers : RunOK(producer[p])
      /\ \A t \in Signers : SignerOK(signer[t])
  BY <1>7 DEF RunOK, SignerOK
<1> QED
  BY <1>1, <1>5, <1>6, <1>8 DEF ObserverInv

LEMMA StepGood ==
  ObserverInv /\ [Next]_vars => ObserverInv' /\ (Revokes \/ UNCHANGED vars)
<1> SUFFICES ASSUME ObserverInv, [Next]_vars
             PROVE  ObserverInv' /\ (Revokes \/ UNCHANGED vars)
  OBVIOUS
<1>1. CASE UNCHANGED vars
  <2>1. /\ history' = history /\ record' = record /\ outbox' = outbox
        /\ producer' = producer /\ signer' = signer
    BY <1>1 DEF vars
  <2> QED
    BY <1>1, <2>1, Same, Spares
<1>2. ASSUME NEW p \in Producers,
             \/ Begins(p) \/ ClassifiesReceipt(p) \/ FrontierReplaced(p)
             \/ AppliesPage(p) \/ Settles(p) \/ Stops(p)
      PROVE  ObserverInv' /\ Revokes
  BY <1>2, BeginsGood, ClassifiesReceiptGood, FrontierReplacedGood, AppliesPageGood,
     SettlesGood, StopsGood
<1>3. ASSUME NEW t \in Signers,
             Dispatches(t) \/ Answered(t) \/ Commits(t) \/ GivesUp(t)
      PROVE  ObserverInv' /\ Revokes
  BY <1>3, DispatchesGood, AnsweredGood, CommitsGood, GivesUpGood
<1> QED
  BY <1>1, <1>2, <1>3 DEF Next

LEMMA InvEvident == ObserverInv => EvidenceHolds
<1> SUFFICES ASSUME ObserverInv PROVE EvidenceHolds
  OBVIOUS
<1>1. RecordOK(record) /\ OutboxOK(record, outbox)
  BY DEF ObserverInv
<1>2. /\ record \in Records /\ record.maxV1 < record.minV2
      /\ StatusAgrees(record) /\ ReceiptAgrees(record) /\ ClaimAgrees(record)
  BY <1>1 DEF RecordOK
<1>3. outbox \in Outboxes
  BY <1>1 DEF OutboxOK
<1>4. TypeOK
  <2>1. outbox.status \in {"NONE", "PREPARED", "READY", "INVALIDATED", "EQUIVOCATED"}
    BY <1>3 DEF Outboxes
  <2> QED
    BY <1>2, <2>1 DEF Records, TypeOK
<1>5. StateAgrees
  <2>1. record.receipt # NoReceipt =>
          /\ record.receipt.end = record.checkpoint
          /\ record.receipt.threshold <=>
               IF record.first = NoReceipt
                 THEN Enough(IF record.inclusion = None THEN record.receipt.member
                             ELSE record.inclusion, record.checkpoint)
                 ELSE record.receipt = record.first
    BY <1>2 DEF ReceiptAgrees
  <2>2. record.first # NoReceipt => record.first.threshold /\ record.inclusion # None
    BY <1>2 DEF ClaimAgrees
  <2>3. record.inclusion # None =>
          (Enough(record.inclusion, record.checkpoint) <=> record.first # NoReceipt)
    BY <1>2 DEF ClaimAgrees
  <2>4. ~Quarantined =>
          record.status =
            CASE record.inclusion = None -> "AWAITING_INCLUSION"
              [] Enough(record.inclusion, record.checkpoint) -> "THRESHOLD_OBSERVED"
              [] OTHER -> "INCLUDED_BELOW_THRESHOLD"
    <3>1. CASE record.inclusion = None
      <4>1. ~Enough(record.inclusion, record.checkpoint)
        BY <3>1 DEF Enough
      <4> QED
        BY <1>2, <3>1, <4>1 DEF StatusAgrees, Quarantined
    <3>2. CASE record.inclusion # None
      BY <1>2, <3>2 DEF StatusAgrees, Quarantined
    <3> QED
      BY <3>1, <3>2
  <2> QED
    BY <1>2, <2>1, <2>2, <2>3, <2>4 DEF StateAgrees
<1>6. OutboxAgrees
  <2>1. CASE record.first = NoReceipt
    <3>1. /\ outbox.status = "NONE" /\ outbox.revision = 0 /\ outbox.envelope = "none"
          /\ outbox.conflicting = "none" /\ outbox.prior = "NONE"
      BY <1>1, <2>1 DEF OutboxOK, EmptyOutbox
    <3> QED
      BY <2>1, <3>1 DEF OutboxAgrees
  <2>2. CASE record.first # NoReceipt
    <3>1. /\ outbox.request.inclusion = record.inclusion
          /\ outbox.request.first = record.first
          /\ Prepared(outbox) \/ Signed(outbox) \/ Invalidated(outbox) \/ Equivocated(outbox)
          /\ outbox.status \in {"PREPARED", "READY"} => record.status = "THRESHOLD_OBSERVED"
          /\ outbox.status = "INVALIDATED" => record.status = "QUARANTINED"
      BY <1>1, <2>2 DEF OutboxOK
    <3>2. outbox.request = [inclusion |-> record.inclusion, first |-> record.first]
      <4>1. outbox.request \in [inclusion : Reached \cup {None},
                                first : Receipts \cup {NoReceipt}]
        BY <1>3 DEF Outboxes
      <4> QED
        BY <3>1, <4>1
    <3>3. CASE Prepared(outbox)
      BY <2>2, <3>1, <3>2, <3>3 DEF Prepared, OutboxAgrees, Quarantined
    <3>4. CASE Signed(outbox)
      BY <2>2, <3>1, <3>2, <3>4, Names DEF Signed, OutboxAgrees, Quarantined
    <3>5. CASE Invalidated(outbox)
      BY <2>2, <3>1, <3>2, <3>5, Names DEF Invalidated, OutboxAgrees, Quarantined
    <3>6. CASE Equivocated(outbox)
      BY <2>2, <3>1, <3>2, <3>6, Names DEF Equivocated, OutboxAgrees, Quarantined
    <3> QED
      BY <3>1, <3>3, <3>4, <3>5, <3>6
  <2> QED
    BY <2>1, <2>2
<1>7. ClaimsAreTrue
  BY <1>2 DEF ClaimAgrees, ClaimsAreTrue
<1> QED
  BY <1>4, <1>5, <1>6, <1>7 DEF EvidenceHolds

-----------------------------------------------------------------------------
(* The record's and the outbox's fields always are of their kinds, a       *)
(* record agrees with its receipt and with the chain, an outbox with its   *)
(* record, and a producer holds a run of one branch: what every write of   *)
(* #mutate() starts from.                                                  *)
THEOREM ObserverInvHolds == Spec => []ObserverInv
<1>1. Init => ObserverInv
  BY InitGood
<1>2. ObserverInv /\ [Next]_vars => ObserverInv'
  BY StepGood
<1> QED
  BY <1>1, <1>2, PTL DEF Spec

(* After every write the state module would serialise the row again        *)
(* (normalizeStateSnapshot(), normalizeOutbox()), and the inclusion and    *)
(* the first threshold it claims are true of one branch of the chain,      *)
(* whatever branches the node answered from.                               *)
THEOREM EvidenceHoldsAlways == Spec => []EvidenceHolds
<1>1. ObserverInv => EvidenceHolds
  BY InvEvident
<1> QED
  BY <1>1, ObserverInvHolds, PTL

(* No write replaces an inclusion, a first threshold, a request or an      *)
(* envelope, and nothing that was quarantined, invalidated or equivocated  *)
(* is written again.                                                       *)
THEOREM RevokedForGoodHolds == Spec => RevokedForGood
<1>1. ObserverInv /\ [Next]_vars =>
        [/\ record.inclusion # None => record'.inclusion = record.inclusion
         /\ record.first # NoReceipt => record'.first = record.first
         /\ outbox.request # NoRequest => outbox'.request = outbox.request
         /\ outbox.envelope # "none" => outbox'.envelope = outbox.envelope
         /\ Quarantined => record' = record
         /\ outbox.status \in {"INVALIDATED", "EQUIVOCATED"} => outbox' = outbox]_vars
  BY StepGood DEF Revokes
<1> QED
  BY <1>1, ObserverInvHolds, PTL DEF Spec, RevokedForGood
=============================================================================
