------------------------- MODULE CustomerReadsProof -------------------------
(***************************************************************************)
(* Theorems about what customers read while the shop writes, for every set *)
(* of rows, page sizes and numbers, and every bound.                       *)
(*                                                                         *)
(* The orders of OrderHistory: the page that GetOrders answers lies within *)
(* the pages it counts, and thirteen statements without a transaction do   *)
(* what OrderAnswer promises.                                              *)
(*                                                                         *)
(* The answers of CustomAttributes: nothing that stood is dropped, and     *)
(* only selected options are answered.                                     *)
(*                                                                         *)
(* The walks of Pages: what moves rows behind or ahead of a walk is all    *)
(* that makes it show a row twice or miss one.                             *)
(*                                                                         *)
(* OrderHistory shares nothing with the other two, which CustomerReads     *)
(* composes; their names are kept apart.                                   *)
(***************************************************************************)
EXTENDS OrderHistory, CustomerReads, FunctionTheorems, SequenceTheorems,
        FiniteSetTheorems, TLAPS

----------------------------------------------------------------------------
(* The orders of a customer: the inductive invariant.                      *)

RowTable == [OrderIds -> [Parts -> Nat]]

Typed ==
  /\ matching \in Seq(OrderIds) /\ IsInjective(matching)
  /\ changes \in 0..MaxChanges /\ faults \in 0..MaxFaults
  /\ Len(matching) <= changes
  /\ rows \in RowTable /\ floorRows \in RowTable /\ seen \in RowTable
  /\ pc \in {"idle", "count", "page", "loads", "lines", "map"}
  /\ page \in Int /\ size \in Int /\ total \in Nat
  /\ matched \subseteq OrderIds /\ counts \subseteq 0..MaxChanges
  /\ shown \in Seq(OrderIds) /\ IsInjective(shown)
  /\ load \in [Parts -> LoadStates]
  /\ stage \in 1..5 /\ lines \in [LineKinds -> SUBSET (OrderIds \X Nat)]

\* Rows are only added, and only to orders that are placed.  A load that has returned
\* holds what was stored when the request came in, or more; others hold nothing.
RowsOK ==
  \A o \in OrderIds, p \in Parts :
    /\ rows[o][p] <= changes /\ (rows[o][p] > 0 => rows[o]["items"] > 0)
    /\ floorRows[o][p] <= rows[o][p] /\ seen[o][p] <= rows[o][p]
    /\ seen[o][p] > 0 => o \in ToSet(shown) /\ load[p] = "ok"
    /\ load[p] = "ok" /\ o \in ToSet(shown) => floorRows[o][p] <= seen[o][p]

\* Each step finds what the steps before it have left.
StageOK ==
  /\ pc \in {"idle", "count", "page"} => shown = <<>> /\ load = NotLoaded
  /\ pc \in {"lines", "map"} => \A p \in Parts : load[p] = "ok"
  /\ pc = "lines" => stage \in 1..4
  /\ pc = "map" => stage = 5
  /\ pc \notin {"lines", "map"} => stage = 1
  /\ \A n \in 1..4 :
       lines[LineStages[n]] = IF n < stage THEN Found(LineStages[n]) ELSE {}

\* The history of an open question holds the present, and the count of it.
CountOK ==
  /\ pc # "idle" => Len(matching) \in counts /\ ToSet(matching) \subseteq matched
  /\ pc \in {"page", "loads", "lines", "map"} => total \in counts
  /\ pc \in {"idle", "count"} => total = 0

\* The orders are the page that was asked for out of count ones.
IsPage(orders, count) ==
  /\ size >= 1 /\ page >= 1 /\ (page - 1) * size < count
  /\ Len(orders) = IF page * size <= count THEN size ELSE count - (page - 1) * size

PageOK ==
  /\ ToSet(shown) \subseteq matched
  /\ pc \in {"loads", "lines", "map"} =>
       size >= 1 /\ (counts = {total} => IsPage(shown, total))

AnswerOK ==
  /\ answer.kind \in {"none", "ok", "error"}
  /\ pc # "idle" => answer.kind = "none"
  /\ (answer.kind = "ok" /\ answer.orders # <<>> /\ counts = {answer.total}) =>
       /\ answer.total \in Nat /\ IsPage(answer.orders, answer.total)
       /\ answer.pages = PagesFor(answer.total, size)

Inv == Typed /\ RowsOK /\ StageOK /\ CountOK /\ PageOK /\ AnswerOK

----------------------------------------------------------------------------
(* Sequences, pages and stages.                                            *)

LEMMA Stages ==
  /\ Len(LineStages) = 4 /\ \A n \in 1..4 : LineStages[n] \in LineKinds
  /\ \A k \in LineKinds : \E n \in 1..4 : k = LineStages[n]
  /\ \A n, m \in 1..4 : LineStages[n] = LineStages[m] => n = m
  /\ \A k \in LineKinds : DocumentOf[k] \in Parts
<1>1. /\ Len(LineStages) = 4 /\ DOMAIN LineStages = 1..4
      /\ LineStages[1] = "invoice items" /\ LineStages[2] = "shipment items"
      /\ LineStages[3] = "shipment tracks" /\ LineStages[4] = "credit memo items"
  BY DEF LineStages
<1>2. LineKinds = {LineStages[n] : n \in 1..4}
  BY <1>1 DEF LineKinds, ToSet
<1>3. ASSUME NEW n \in 1..4, NEW m \in 1..4, LineStages[n] = LineStages[m] PROVE n = m
  <2>1. (n = 1 \/ n = 2 \/ n = 3 \/ n = 4) /\ (m = 1 \/ m = 2 \/ m = 3 \/ m = 4)
    OBVIOUS
  <2>2. /\ LineStages[1] # LineStages[2] /\ LineStages[1] # LineStages[3]
        /\ LineStages[1] # LineStages[4] /\ LineStages[2] # LineStages[3]
        /\ LineStages[2] # LineStages[4] /\ LineStages[3] # LineStages[4]
    BY <1>1
  <2>3. QED
    BY <1>3, <2>1, <2>2
<1>4. \A k \in LineKinds : DocumentOf[k] \in Parts
  BY DEF DocumentOf, Parts, Documents
<1>5. QED
  BY <1>1, <1>2, <1>3, <1>4

\* Inserting an element that is not there keeps the others, each once.
LEMMA Inserted ==
  ASSUME NEW S, NEW s \in Seq(S), IsInjective(s),
         NEW i \in 1..Len(s) + 1, NEW e \in S \ ToSet(s)
  PROVE  /\ InsertAt(s, i, e) \in Seq(S) /\ IsInjective(InsertAt(s, i, e))
         /\ Len(InsertAt(s, i, e)) = Len(s) + 1
         /\ ToSet(InsertAt(s, i, e)) = ToSet(s) \cup {e}
<1> DEFINE left == SubSeq(s, 1, i - 1)
           right == SubSeq(s, i, Len(s))
           t == InsertAt(s, i, e)
<1>1. Len(s) \in Nat /\ DOMAIN s = 1..Len(s) /\ \A j \in 1..Len(s) : s[j] \in S
  BY LenProperties
<1>2. /\ left \in Seq(S) /\ Len(left) = i - 1
      /\ \A j \in 1..(i - 1) : left[j] = s[j]
  BY <1>1, SubSeqProperties
<1>3. /\ right \in Seq(S) /\ Len(right) = Len(s) - i + 1
      /\ \A j \in 1..(Len(s) - i + 1) : right[j] = s[i + j - 1]
  BY <1>1, SubSeqProperties
<1>4. <<e>> \in Seq(S) /\ Len(<<e>>) = 1 /\ <<e>>[1] = e
  OBVIOUS
<1>5. /\ left \o <<e>> \in Seq(S) /\ Len(left \o <<e>>) = i
      /\ \A j \in 1..i : (left \o <<e>>)[j] = IF j < i THEN s[j] ELSE e
  BY <1>1, <1>2, <1>4, ConcatProperties
<1>6. /\ t \in Seq(S) /\ Len(t) = Len(s) + 1
      /\ \A j \in 1..Len(s) + 1 :
           t[j] = IF j < i THEN s[j] ELSE IF j = i THEN e ELSE s[j - 1]
  <2>1. t = (left \o <<e>>) \o right
    BY DEF InsertAt
  <2> HIDE DEF t, left, right
  <2>2. /\ t \in Seq(S) /\ Len(t) = i + (Len(s) - i + 1)
        /\ \A j \in 1..i + (Len(s) - i + 1) :
             t[j] = IF j <= i THEN (left \o <<e>>)[j] ELSE right[j - i]
    BY <1>3, <1>5, <2>1, ConcatProperties
  <2>3. i + (Len(s) - i + 1) = Len(s) + 1
    BY <1>1
  <2>4. ASSUME NEW j \in 1..Len(s) + 1
        PROVE  t[j] = IF j < i THEN s[j] ELSE IF j = i THEN e ELSE s[j - 1]
    <3>1. CASE j <= i
      BY <1>1, <1>5, <2>2, <2>3, <3>1
    <3>2. CASE j > i
      <4>1. j - i \in 1..(Len(s) - i + 1) /\ i + (j - i) - 1 = j - 1
        BY <1>1, <3>2
      <4>2. right[j - i] = s[j - 1]
        BY <1>3, <4>1
      <4>3. t[j] = right[j - i]
        BY <1>1, <2>2, <2>3, <3>2
      <4>4. QED
        BY <3>2, <4>2, <4>3
    <3>3. QED
      BY <1>1, <3>1, <3>2
  <2>5. QED
    BY <2>2, <2>3, <2>4
<1>7. DOMAIN t = 1..Len(s) + 1
  BY <1>6, LenProperties
<1>8. e \in ToSet(t)
  <2>1. i \in DOMAIN t /\ t[i] = e
    BY <1>1, <1>6, <1>7
  <2>2. QED
    BY <2>1, Zenon DEF ToSet
<1>9. ASSUME NEW x \in ToSet(s) PROVE x \in ToSet(t)
  <2>1. PICK j \in 1..Len(s) : x = s[j]
    BY <1>1 DEF ToSet
  <2>2. CASE j < i
    BY <1>1, <1>6, <1>7, <2>1, <2>2 DEF ToSet
  <2>3. CASE j >= i
    <3>1. j + 1 \in DOMAIN t /\ t[j + 1] = x
      BY <1>1, <1>6, <1>7, <2>1, <2>3
    <3>2. QED
      BY <3>1 DEF ToSet
  <2>4. QED
    BY <1>1, <2>2, <2>3
<1>10. ASSUME NEW x \in ToSet(t) PROVE x \in ToSet(s) \cup {e}
  BY <1>1, <1>6, <1>7 DEF ToSet
<1>11. IsInjective(t)
  <2>1. SUFFICES ASSUME NEW j \in 1..Len(s) + 1, NEW k \in 1..Len(s) + 1, t[j] = t[k]
                 PROVE  j = k
    BY <1>7 DEF IsInjective
  <2>2. \A n \in 1..Len(s) : s[n] # e
    BY <1>1 DEF ToSet
  <2>3. QED
    <3>1. CASE j < i /\ k < i
      BY <1>1, <1>6, <2>1, <3>1 DEF IsInjective
    <3>2. CASE j > i /\ k > i
      <4>1. j - 1 \in DOMAIN s /\ k - 1 \in DOMAIN s /\ s[j - 1] = s[k - 1]
        BY <1>1, <1>6, <2>1, <3>2
      <4>2. j - 1 = k - 1
        BY <4>1 DEF IsInjective
      <4>3. QED
        BY <1>1, <4>2
    <3>3. CASE j < i /\ k > i
      <4>1. j \in DOMAIN s /\ k - 1 \in DOMAIN s /\ s[j] = s[k - 1] /\ j # k - 1
        BY <1>1, <1>6, <2>1, <3>3
      <4>2. QED
        BY <4>1 DEF IsInjective
    <3>4. CASE j > i /\ k < i
      <4>1. j - 1 \in DOMAIN s /\ k \in DOMAIN s /\ s[j - 1] = s[k] /\ j - 1 # k
        BY <1>1, <1>6, <2>1, <3>4
      <4>2. QED
        BY <4>1 DEF IsInjective
    <3>5. CASE j = i \/ k = i
      BY <1>1, <1>6, <2>1, <2>2, <3>5
    <3>6. QED
      BY <1>1, <3>1, <3>2, <3>3, <3>4, <3>5
<1>12. QED
  BY <1>6, <1>8, <1>9, <1>10, <1>11

\* A piece of a sequence.
LEMMA Slice ==
  ASSUME NEW S, NEW s \in Seq(S), IsInjective(s),
         NEW a \in Nat, NEW b \in Int, b <= Len(s)
  PROVE  LET cut == SubSeq(s, a + 1, b)
         IN  /\ cut \in Seq(S) /\ IsInjective(cut) /\ ToSet(cut) \subseteq ToSet(s)
             /\ Len(cut) = IF a < b THEN b - a ELSE 0
<1> DEFINE cut == SubSeq(s, a + 1, b)
<1>1. Len(s) \in Nat /\ DOMAIN s = 1..Len(s) /\ \A j \in 1..Len(s) : s[j] \in S
  BY LenProperties
<1>2. /\ cut \in Seq(S) /\ Len(cut) = IF a + 1 <= b THEN b - (a + 1) + 1 ELSE 0
      /\ \A j \in 1..(b - (a + 1) + 1) : cut[j] = s[(a + 1) + j - 1]
  <2>1. \A j \in (a + 1)..b : s[j] \in S
    BY <1>1
  <2>2. QED
    BY <2>1, SubSeqProperties
<1> HIDE DEF cut
<1>3. DOMAIN cut = 1..Len(cut) /\ Len(cut) \in Nat
  BY <1>2, LenProperties
<1>4. ASSUME NEW j \in DOMAIN cut PROVE a + j \in DOMAIN s /\ cut[j] = s[a + j]
  <2>1. j \in 1..(b - (a + 1) + 1) /\ (a + 1) + j - 1 = a + j
    BY <1>2, <1>3
  <2>2. QED
    BY <1>1, <1>2, <2>1
<1>5. IsInjective(cut)
  <2>1. ASSUME NEW j \in DOMAIN cut, NEW k \in DOMAIN cut, cut[j] = cut[k] PROVE j = k
    <3>1. a + j = a + k
      BY <1>4, <2>1 DEF IsInjective
    <3>2. QED
      BY <1>3, <3>1
  <2>2. QED
    BY <2>1 DEF IsInjective
<1>6. ToSet(cut) \subseteq ToSet(s)
  BY <1>4 DEF ToSet
<1>7. Len(cut) = IF a < b THEN b - a ELSE 0
  BY <1>2
<1>8. QED
  BY <1>2, <1>5, <1>6, <1>7 DEF cut

\* What LIMIT and OFFSET cut out of the orders that match.
LEMMA Cut ==
  ASSUME NEW S, NEW s \in Seq(S), IsInjective(s), NEW number \in Int,
         NEW length \in Int, length >= 0, (number - 1) * length >= 0
  PROVE  LET cut == PageOf(s, number, length)  before == (number - 1) * length
         IN  /\ cut \in Seq(S) /\ IsInjective(cut) /\ ToSet(cut) \subseteq ToSet(s)
             /\ cut # <<>> =>
                  /\ length >= 1 /\ before < Len(s)
                  /\ Len(cut) = IF before + length <= Len(s) THEN length
                                ELSE Len(s) - before
<1> DEFINE before == (number - 1) * length
           upto == IF before + length < Len(s) THEN before + length ELSE Len(s)
           cut == PageOf(s, number, length)
<1>1. Len(s) \in Nat
  BY LenProperties
<1>2. before \in Nat
  OBVIOUS
<1>3. cut = SubSeq(s, before + 1, upto)
  BY DEF PageOf
<1> HIDE DEF before
<1>4. upto \in Int /\ upto <= Len(s)
  BY <1>1, <1>2
<1> HIDE DEF upto, cut
<1>5. /\ cut \in Seq(S) /\ IsInjective(cut) /\ ToSet(cut) \subseteq ToSet(s)
      /\ Len(cut) = IF before < upto THEN upto - before ELSE 0
  BY <1>2, <1>3, <1>4, Slice
<1>6. ASSUME cut # <<>> PROVE before < upto
  BY <1>5, <1>6, EmptySeq
<1>7. before < upto => length >= 1 /\ before < Len(s) /\
        upto - before = IF before + length <= Len(s) THEN length ELSE Len(s) - before
  BY <1>1, <1>2 DEF upto
<1>8. QED
  BY <1>5, <1>6, <1>7 DEF before, cut

\* Counting pages: the page of a row that is counted is one of them, and only the
\* last one is not full.
LEMMA Distribution ==
  ASSUME NEW number \in Int, NEW length \in Int
  PROVE  (number - 1) * length + length = number * length
OBVIOUS

LEMMA Quotient ==
  ASSUME NEW a \in Int, NEW b \in Int, b >= 1
  PROVE  a \div b \in Int /\ (a \div b) * b <= a /\ a < (a \div b) * b + b
OBVIOUS

LEMMA Product ==
  ASSUME NEW a \in Int, NEW b \in Int, NEW c \in Int, c >= 1, a <= b
  PROVE  a * c <= b * c
OBVIOUS

LEMMA Counted ==
  ASSUME NEW number \in Int, NEW length \in Int, NEW count \in Nat,
         length >= 1, (number - 1) * length < count
  PROVE  /\ PagesFor(count, length) \in Int /\ number <= PagesFor(count, length)
         /\ number < PagesFor(count, length) => number * length <= count
<1> DEFINE pages == (count + length - 1) \div length
<1>1. /\ pages \in Int /\ pages * length <= count + length - 1
      /\ count + length - 1 < pages * length + length
  BY Quotient
<1> HIDE DEF pages
<1>2. /\ (number - 1) * length + length = number * length
      /\ (pages - 1) * length + length = pages * length
  BY <1>1, Distribution
<1>3. ASSUME number > pages PROVE FALSE
  <2>1. pages * length <= (number - 1) * length
    BY <1>1, <1>3, Product
  <2>2. QED
    BY <1>1, <2>1
<1>4. ASSUME number < pages PROVE number * length <= count
  <2>1. number * length <= (pages - 1) * length
    BY <1>1, <1>4, Product
  <2>2. QED
    BY <1>1, <1>2, <2>1
<1>5. QED
  BY <1>1, <1>3, <1>4 DEF pages, PagesFor

----------------------------------------------------------------------------
(* The inductive invariant.                                                *)

LEMMA NothingRead ==
  /\ Promise!NoRows \in RowTable
  /\ \A o \in OrderIds, p \in Parts : Promise!NoRows[o][p] = 0
  /\ Promise!NoLines \in [LineKinds -> SUBSET (OrderIds \X Nat)]
  /\ \A k \in LineKinds : Promise!NoLines[k] = {}
  /\ NotLoaded \in [Parts -> LoadStates] /\ \A p \in Parts : NotLoaded[p] = "off"
  /\ "items" \in Parts /\ ToSet(<<>>) = {} /\ IsInjective(<<>>)
  /\ Promise!Nothing.kind = "none" /\ Promise!Nothing.orders = <<>>
BY DEF Promise!NoRows, Promise!NoLines, RowTable, NotLoaded, LoadStates, Parts, ToSet,
       IsInjective, Promise!Nothing, Promise!Answer

LEMMA InitInv == Init => Inv
<1>1. SUFFICES ASSUME Init PROVE Inv
  OBVIOUS
<1>2. Typed
  BY <1>1, NothingRead, BoundAssumption DEF Init, Typed
<1>3. RowsOK
  BY <1>1, NothingRead DEF Init, RowsOK
<1>4. StageOK
  BY <1>1, NothingRead, Stages DEF Init, StageOK
<1>5. CountOK /\ PageOK
  BY <1>1, NothingRead DEF Init, CountOK, PageOK
<1>6. AnswerOK
  BY <1>1, NothingRead DEF Init, AnswerOK
<1>7. QED
  BY <1>2, <1>3, <1>4, <1>5, <1>6 DEF Inv

\* An order that leaves the match leaves the others in it, each once.
LEMMA Removed ==
  ASSUME NEW S, NEW s \in Seq(S), IsInjective(s), NEW i \in DOMAIN s
  PROVE  /\ RemoveAt(s, i) \in Seq(S) /\ IsInjective(RemoveAt(s, i))
         /\ Len(RemoveAt(s, i)) = Len(s) - 1
<1> DEFINE left == SubSeq(s, 1, i - 1)
           right == SubSeq(s, i + 1, Len(s))
           t == RemoveAt(s, i)
<1>1. Len(s) \in Nat /\ DOMAIN s = 1..Len(s) /\ \A j \in 1..Len(s) : s[j] \in S
  BY LenProperties
<1>2. /\ left \in Seq(S) /\ Len(left) = i - 1
      /\ \A j \in 1..(i - 1) : left[j] = s[j]
  BY <1>1, SubSeqProperties
<1>3. /\ right \in Seq(S) /\ Len(right) = Len(s) - i
      /\ \A j \in 1..(Len(s) - i) : right[j] = s[i + j]
  <2>1. /\ right \in Seq(S)
        /\ Len(right) = IF i + 1 <= Len(s) THEN Len(s) - (i + 1) + 1 ELSE 0
        /\ \A j \in 1..(Len(s) - (i + 1) + 1) : right[j] = s[(i + 1) + j - 1]
    BY <1>1, SubSeqProperties
  <2> HIDE DEF right
  <2>2. i \in Int /\ i <= Len(s)
    BY <1>1
  <2>3. Len(s) - (i + 1) + 1 = Len(s) - i
    BY <1>1, <2>2
  <2>4. Len(right) = Len(s) - i
    BY <1>1, <2>1, <2>2
  <2>5. ASSUME NEW j \in 1..(Len(s) - i) PROVE right[j] = s[i + j]
    <3>1. (i + 1) + j - 1 = i + j
      BY <2>2
    <3>2. QED
      BY <2>1, <2>3, <3>1
  <2>6. QED
    BY <2>1, <2>4, <2>5
<1>4. t = left \o right
  BY DEF RemoveAt
<1> HIDE DEF left, right, t
<1>5. /\ t \in Seq(S) /\ Len(t) = Len(s) - 1
      /\ \A j \in 1..Len(s) - 1 : t[j] = IF j < i THEN s[j] ELSE s[j + 1]
  <2>1. /\ t \in Seq(S) /\ Len(t) = (i - 1) + (Len(s) - i)
        /\ \A j \in 1..(i - 1) + (Len(s) - i) :
             t[j] = IF j <= i - 1 THEN left[j] ELSE right[j - (i - 1)]
    BY <1>2, <1>3, <1>4, ConcatProperties
  <2>2. i \in 1..Len(s) /\ (i - 1) + (Len(s) - i) = Len(s) - 1
    BY <1>1
  <2>3. ASSUME NEW j \in 1..Len(s) - 1 PROVE t[j] = IF j < i THEN s[j] ELSE s[j + 1]
    <3>1. CASE j < i
      BY <1>1, <1>2, <2>1, <2>2, <3>1
    <3>2. CASE j >= i
      <4>1. j - (i - 1) \in 1..(Len(s) - i) /\ i + (j - (i - 1)) = j + 1
        BY <1>1, <2>2, <3>2
      <4>2. right[j - (i - 1)] = s[j + 1]
        BY <1>3, <4>1
      <4>3. t[j] = right[j - (i - 1)]
        BY <1>1, <2>1, <2>2, <3>2
      <4>4. QED
        BY <2>2, <3>2, <4>2, <4>3
    <3>3. QED
      BY <1>1, <2>2, <3>1, <3>2
  <2>4. QED
    BY <2>1, <2>2, <2>3
<1>6. IsInjective(t)
  <2>1. DOMAIN t = 1..Len(s) - 1
    BY <1>5, LenProperties
  <2>2. SUFFICES ASSUME NEW j \in 1..Len(s) - 1, NEW k \in 1..Len(s) - 1, t[j] = t[k]
                 PROVE  j = k
    BY <2>1 DEF IsInjective
  <2> DEFINE Was(n) == IF n < i THEN n ELSE n + 1
  <2>3. \A n \in 1..Len(s) - 1 : Was(n) \in DOMAIN s /\ t[n] = s[Was(n)]
    BY <1>1, <1>5
  <2>4. Was(j) = Was(k)
    <3> HIDE DEF Was
    <3>1. QED
      BY <2>2, <2>3 DEF IsInjective
  <2>5. QED
    BY <1>1, <2>4
<1>7. QED
  BY <1>5, <1>6 DEF t

\* What the shop stores is added to what was there, and the number of orders that
\* match changes whenever they do.
LEMMA ComeStep ==
  ASSUME Inv, NEW o \in OrderIds \ ToSet(matching), ComeToMatch(o)
  PROVE  /\ matching' \in Seq(OrderIds) /\ IsInjective(matching')
         /\ Len(matching') = Len(matching) + 1
<1>1. matching \in Seq(OrderIds) /\ IsInjective(matching)
  BY DEF Inv, Typed
<1>2. PICK i \in 1..Len(matching) + 1 : matching' = InsertAt(matching, i, o)
  BY DEF ComeToMatch
<1>3. QED
  BY <1>1, <1>2, Inserted

LEMMA ShopStep ==
  ASSUME Inv, Shop
  PROVE  /\ matching' \in Seq(OrderIds) /\ IsInjective(matching') /\ rows' \in RowTable
         /\ Len(matching') \in Nat /\ Len(matching') <= changes'
         /\ Len(matching') = Len(matching) => matching' = matching
         /\ \A o \in OrderIds, p \in Parts :
              /\ rows[o][p] <= rows'[o][p] /\ rows'[o][p] <= changes'
              /\ rows'[o][p] > 0 => rows'[o]["items"] > 0
<1>1. /\ matching \in Seq(OrderIds) /\ IsInjective(matching) /\ rows \in RowTable
      /\ Len(matching) \in Nat /\ changes \in Nat /\ Len(matching) <= changes
      /\ changes' = changes + 1
  BY LenProperties DEF Inv, Typed, Shop
<1>2. \A o \in OrderIds, p \in Parts :
        /\ rows[o][p] \in Nat /\ rows[o][p] <= changes
        /\ rows[o][p] > 0 => rows[o]["items"] > 0
  BY <1>1 DEF Inv, RowsOK, RowTable
<1>3. "items" \in Parts
  BY DEF Parts
<1>4. CASE StoreOrder
  <2>1. PICK o \in OrderIds \ (Placed \cup ToSet(matching)) :
          /\ ComeToMatch(o) \/ UNCHANGED matching
          /\ rows' = [rows EXCEPT ![o] = [p \in Parts |->
               IF p \in {"items", "addresses", "payments"} THEN 1 ELSE 0]]
    BY <1>4 DEF StoreOrder
  <2>2. /\ matching' \in Seq(OrderIds) /\ IsInjective(matching')
        /\ Len(matching') = Len(matching) + 1 \/ matching' = matching
    BY <1>1, <2>1, ComeStep
  <2>3. rows' \in RowTable /\ \A q \in OrderIds, p \in Parts :
          rows'[q][p] = IF q = o THEN (IF p \in {"items", "addresses", "payments"} THEN 1 ELSE 0)
                        ELSE rows[q][p]
    BY <1>1, <2>1 DEF RowTable
  <2>4. ASSUME NEW q \in OrderIds, NEW p \in Parts
        PROVE  /\ rows[q][p] <= rows'[q][p] /\ rows'[q][p] <= changes'
               /\ rows'[q][p] > 0 => rows'[q]["items"] > 0
    <3>1. rows[o][p] = 0
      BY <1>2, <1>3, <2>1 DEF Placed
    <3>2. rows'[q]["items"] = IF q = o THEN 1 ELSE rows[q]["items"]
      BY <1>3, <2>3
    <3>3. CASE q = o
      BY <1>1, <2>3, <3>1, <3>2, <3>3
    <3>4. CASE q # o
      BY <1>1, <1>2, <2>3, <3>2, <3>4
    <3>5. QED
      BY <3>3, <3>4
  <2>5. QED
    BY <1>1, <2>2, <2>3, <2>4
<1>5. CASE StoreRow
  <2>1. PICK o \in Placed, p \in Documents \cup {"comments"} :
          rows' = [rows EXCEPT ![o][p] = @ + 1]
    BY <1>5 DEF StoreRow
  <2>2. matching' = matching
    BY <1>5 DEF StoreRow
  <2>3. p \in Parts /\ p # "items" /\ o \in OrderIds /\ rows[o]["items"] > 0
    BY <2>1 DEF Parts, Documents, Placed
  <2>4. rows' \in RowTable /\ \A q \in OrderIds, u \in Parts :
          rows'[q][u] = IF q = o /\ u = p THEN rows[q][u] + 1 ELSE rows[q][u]
    BY <1>1, <2>1, <2>3 DEF RowTable
  <2>5. \A q \in OrderIds : rows'[q]["items"] = rows[q]["items"]
    BY <1>3, <2>3, <2>4
  <2>6. ASSUME NEW q \in OrderIds, NEW u \in Parts
        PROVE  /\ rows[q][u] <= rows'[q][u] /\ rows'[q][u] <= changes'
               /\ rows'[q][u] > 0 => rows'[q]["items"] > 0
    BY <1>1, <1>2, <2>3, <2>4, <2>5
  <2>7. QED
    BY <1>1, <2>2, <2>4, <2>6
<1>6. CASE ChangeStatus
  <2>1. rows' = rows
    BY <1>6 DEF ChangeStatus
  <2>2. /\ matching' \in Seq(OrderIds) /\ IsInjective(matching')
        /\ \/ Len(matching') = Len(matching) + 1
           \/ Len(matching') = Len(matching) - 1
    <3>1. CASE \E o \in Placed \ ToSet(matching) : ComeToMatch(o)
      BY <3>1, ComeStep DEF Placed
    <3>2. CASE \E i \in DOMAIN matching : matching' = RemoveAt(matching, i)
      BY <1>1, <3>2, Removed
    <3>3. QED
      BY <1>6, <3>1, <3>2 DEF ChangeStatus
  <2>3. Len(matching') \in Nat
    BY <2>2, LenProperties
  <2>4. QED
    BY <1>1, <1>2, <2>1, <2>2, <2>3
<1>7. QED
  BY <1>4, <1>5, <1>6 DEF Shop

LEMMA ShopInv == ASSUME Inv, Shop PROVE Inv'
<1>1. /\ UNCHANGED <<faults, pc, page, size, floorRows, total, shown, load, seen, stage,
                     lines, answer>>
      /\ changes' = changes + 1 /\ changes < MaxChanges
      /\ IF pc = "idle" THEN counts' = counts /\ matched' = matched
         ELSE /\ counts' = counts \cup {Len(matching')}
              /\ matched' = matched \cup ToSet(matching')
  BY DEF Shop, ask, since
<1>2. /\ Len(matching') \in 0..MaxChanges /\ ToSet(matching') \subseteq OrderIds
      /\ changes' \in 0..MaxChanges
  BY <1>1, ShopStep, BoundAssumption, LenProperties DEF Inv, Typed, ToSet
<1>3. Typed'
  BY <1>1, <1>2, ShopStep DEF Inv, Typed
<1>4. RowsOK'
  <2>1. SUFFICES ASSUME NEW o \in OrderIds, NEW p \in Parts
                 PROVE  /\ rows'[o][p] <= changes' /\ (rows'[o][p] > 0 => rows'[o]["items"] > 0)
                        /\ floorRows[o][p] <= rows'[o][p] /\ seen[o][p] <= rows'[o][p]
                        /\ seen[o][p] > 0 => o \in ToSet(shown) /\ load[p] = "ok"
                        /\ load[p] = "ok" /\ o \in ToSet(shown) => floorRows[o][p] <= seen[o][p]
    BY <1>1 DEF RowsOK
  <2>2. /\ floorRows[o][p] <= rows[o][p] /\ seen[o][p] <= rows[o][p]
        /\ seen[o][p] > 0 => o \in ToSet(shown) /\ load[p] = "ok"
        /\ load[p] = "ok" /\ o \in ToSet(shown) => floorRows[o][p] <= seen[o][p]
    BY DEF Inv, RowsOK
  <2>3. /\ floorRows[o][p] \in Nat /\ seen[o][p] \in Nat /\ rows[o][p] \in Nat
        /\ rows'[o][p] \in Nat
    BY <1>3 DEF Inv, Typed, RowTable
  <2>4. QED
    BY <2>2, <2>3, ShopStep
<1>5. StageOK'
  BY <1>1 DEF Inv, StageOK, Found
<1>6. CountOK'
  BY <1>1 DEF Inv, CountOK
<1>7. counts \subseteq counts' /\ matched \subseteq matched'
  BY <1>1
<1>8. PageOK'
  <2>1. ASSUME counts' = {total} , pc \in {"loads", "lines", "map"} PROVE counts = {total}
    BY <1>7, <2>1 DEF Inv, CountOK
  <2>2. QED
    BY <1>1, <1>7, <2>1 DEF Inv, PageOK, IsPage
<1>9. AnswerOK'
  BY <1>1 DEF Inv, AnswerOK, IsPage
<1>10. QED
  BY <1>3, <1>4, <1>5, <1>6, <1>8, <1>9 DEF Inv

\* A request that is answered leaves nothing behind but its answer.
LEMMA ReplyInv ==
  ASSUME Inv, NEW a, Reply(a), faults' \in 0..MaxFaults, a.kind \in {"ok", "error"},
         (a.kind = "ok" /\ a.orders # <<>> /\ counts = {a.total}) =>
           /\ a.total \in Nat /\ IsPage(a.orders, a.total)
           /\ a.pages = PagesFor(a.total, size)
  PROVE  Inv'
<1>1. /\ pc' = "idle" /\ answer' = a /\ total' = 0 /\ shown' = <<>> /\ load' = NotLoaded
      /\ seen' = Promise!NoRows /\ stage' = 1 /\ lines' = Promise!NoLines
      /\ UNCHANGED <<matching, rows, changes, page, size, floorRows, counts, matched>>
  BY DEF Reply, shop, ask, since
<1>2. Typed'
  BY <1>1, NothingRead DEF Inv, Typed
<1>3. RowsOK'
  BY <1>1, NothingRead DEF Inv, Typed, RowTable, RowsOK
<1>4. StageOK'
  BY <1>1, NothingRead, Stages DEF StageOK
<1>5. CountOK' /\ PageOK'
  BY <1>1, NothingRead, LenProperties DEF Inv, Typed, CountOK, PageOK
<1>6. AnswerOK'
  BY <1>1 DEF AnswerOK, IsPage
<1>7. QED
  BY <1>2, <1>3, <1>4, <1>5, <1>6 DEF Inv

LEMMA FailureInv ==
  ASSUME Inv, Reply(Failure), faults' \in 0..MaxFaults PROVE Inv'
<1>1. Failure.kind = "error"
  BY DEF Failure, Promise!Nothing, Promise!Answer
<1>2. QED
  BY <1>1, ReplyInv

LEMMA ReadStep ==
  ASSUME Inv, NEW ok \in BOOLEAN, Read(ok) PROVE faults' \in 0..MaxFaults
BY BoundAssumption DEF Inv, Typed, Read

LEMMA AskInv == ASSUME Inv, Ask PROVE Inv'
<1>1. /\ pc = "idle" /\ pc' = "count" /\ size' \in Int /\ page' \in Int
      /\ floorRows' = rows /\ answer' = Promise!Nothing
      /\ counts' = {Len(matching)} /\ matched' = ToSet(matching)
      /\ UNCHANGED <<matching, rows, changes, faults, total, shown, load, seen, stage, lines>>
  BY PagingAssumption DEF Ask, shop
<1>2. Typed'
  <2>1. Len(matching) \in 0..MaxChanges /\ ToSet(matching) \subseteq OrderIds
    BY BoundAssumption, LenProperties DEF Inv, Typed, ToSet
  <2>2. QED
    BY <1>1, <2>1 DEF Inv, Typed
<1>3. RowsOK'
  <2>1. \A p \in Parts : load[p] = "off"
    BY <1>1, NothingRead DEF Inv, StageOK
  <2>2. QED
    BY <1>1, <2>1 DEF Inv, Typed, RowTable, RowsOK
<1>4. StageOK'
  BY <1>1 DEF Inv, StageOK, Found
<1>5. CountOK' /\ PageOK'
  BY <1>1, NothingRead DEF Inv, StageOK, CountOK, PageOK
<1>6. AnswerOK'
  BY <1>1, NothingRead DEF AnswerOK
<1>7. QED
  BY <1>2, <1>3, <1>4, <1>5, <1>6 DEF Inv

LEMMA CountInv == ASSUME Inv, CountOrders PROVE Inv'
<1>1. CASE Read(FALSE) /\ Reply(Failure)
  BY <1>1, ReadStep, FailureInv
<1>2. CASE /\ Read(TRUE) /\ total' = Len(matching) /\ pc' = "page"
           /\ UNCHANGED <<shop, ask, since, shown, load, seen, stage, lines, answer>>
  <2>1. /\ pc = "count" /\ faults' \in 0..MaxFaults /\ total' = Len(matching) /\ pc' = "page"
        /\ UNCHANGED <<matching, rows, changes, page, size, floorRows, counts, matched, shown,
                       load, seen, stage, lines, answer>>
    BY <1>2, ReadStep DEF CountOrders, shop, ask, since
  <2>2. Len(matching) \in Nat
    BY LenProperties DEF Inv, Typed
  <2>3. Typed' /\ RowsOK'
    BY <2>1, <2>2 DEF Inv, Typed, RowsOK
  <2>4. StageOK'
    BY <2>1 DEF Inv, StageOK, Found
  <2>5. CountOK' /\ PageOK' /\ AnswerOK'
    BY <2>1, <2>2 DEF Inv, CountOK, PageOK, AnswerOK, IsPage
  <2>6. QED
    BY <2>3, <2>4, <2>5 DEF Inv
<1>3. QED
  BY <1>1, <1>2 DEF CountOrders

LEMMA SelectInv == ASSUME Inv, SelectPage PROVE Inv'
<1> DEFINE orders == PageOf(matching, page, size)
<1>1. faults' \in 0..MaxFaults
  BY ReadStep DEF SelectPage
<1>2. CASE Reply(Failure)
  BY <1>1, <1>2, FailureInv
<1>3. CASE Reply([Promise!Nothing EXCEPT !.kind = "ok"])
  <2> DEFINE empty == [Promise!Nothing EXCEPT !.kind = "ok"]
  <2>1. empty.kind = "ok" /\ empty.orders = <<>>
    BY DEF Promise!Nothing, Promise!Answer
  <2> HIDE DEF empty
  <2>2. QED
    BY <1>1, <1>3, <2>1, ReplyInv DEF empty
<1>4. CASE /\ size >= 0 /\ (page - 1) * size >= 0 /\ orders # <<>>
           /\ shown' = orders /\ pc' = "loads"
           /\ load' = [p \in Parts |-> "running"]
           /\ UNCHANGED <<shop, ask, since, total, seen, stage, lines, answer>>
  <2>1. /\ pc = "page" /\ shown' = orders /\ pc' = "loads"
        /\ load' \in [Parts -> LoadStates] /\ \A p \in Parts : load'[p] = "running"
        /\ UNCHANGED <<matching, rows, changes, page, size, floorRows, counts, matched, total,
                       seen, stage, lines, answer>>
    BY <1>4 DEF SelectPage, shop, ask, since, LoadStates
  <2>2. /\ matching \in Seq(OrderIds) /\ IsInjective(matching) /\ Len(matching) \in Nat
        /\ page \in Int /\ size \in Int
    BY LenProperties DEF Inv, Typed
  <2>3. /\ orders \in Seq(OrderIds) /\ IsInjective(orders)
        /\ ToSet(orders) \subseteq ToSet(matching)
        /\ size >= 1 /\ (page - 1) * size < Len(matching)
        /\ Len(orders) = IF (page - 1) * size + size <= Len(matching) THEN size
                         ELSE Len(matching) - (page - 1) * size
    BY <1>4, <2>2, Cut
  <2> HIDE DEF orders
  <2>4. page >= 1
    <3>1. ASSUME page <= 0 PROVE FALSE
      <4>1. (page - 1) * size <= (-1) * size
        BY <2>2, <2>3, <3>1, Product
      <4>2. QED
        BY <1>4, <2>2, <2>3, <4>1
    <3>2. QED
      BY <2>2, <3>1
  <2>5. IsPage(orders, Len(matching))
    <3>1. (page - 1) * size + size = page * size
      BY <2>2, Distribution
    <3>2. QED
      BY <2>3, <2>4, <3>1 DEF IsPage
  <2>6. counts = {total} => total = Len(matching)
    BY <2>1 DEF Inv, CountOK
  <2>7. Typed'
    BY <1>1, <2>1, <2>3 DEF Inv, Typed
  <2>8. RowsOK'
    <3>1. \A o \in OrderIds, p \in Parts : ~(seen[o][p] > 0)
      BY <2>1, NothingRead DEF Inv, RowsOK, StageOK
    <3>2. QED
      BY <2>1, <3>1 DEF Inv, RowsOK
  <2>9. StageOK'
    BY <2>1, Stages DEF Inv, StageOK
  <2>10. CountOK' /\ PageOK' /\ AnswerOK'
    <3>1. CountOK' /\ AnswerOK'
      BY <2>1 DEF Inv, CountOK, AnswerOK
    <3>2. ASSUME counts = {total} PROVE IsPage(orders, total)
      BY <2>5, <2>6, <3>2
    <3>3. IsPage(orders, total) => IsPage(shown, total)'
      BY <2>1 DEF IsPage
    <3>4. PageOK'
      <4>1. ToSet(shown') \subseteq matched
        BY <2>1, <2>3 DEF Inv, CountOK
      <4>2. QED
        BY <2>1, <2>3, <3>2, <3>3, <4>1 DEF PageOK
    <3>5. QED
      BY <3>1, <3>4
  <2>11. QED
    BY <2>7, <2>8, <2>9, <2>10 DEF Inv
<1>5. QED
  <2>1. PICK ok \in BOOLEAN :
          IF ~ok \/ size < 0 \/ (page - 1) * size < 0
          THEN Reply(Failure)
          ELSE IF orders = <<>>
               THEN Reply([Promise!Nothing EXCEPT !.kind = "ok"])
               ELSE /\ shown' = orders /\ pc' = "loads"
                    /\ load' = [p \in Parts |-> "running"]
                    /\ UNCHANGED <<shop, ask, since, total, seen, stage, lines, answer>>
    BY DEF SelectPage
  <2>2. page \in Int /\ size \in Int /\ (page - 1) * size \in Int
    BY DEF Inv, Typed
  <2> HIDE DEF orders
  <2>3. QED
    BY <2>1, <2>2, <1>2, <1>3, <1>4

LEMMA LoadInv == ASSUME Inv, NEW p \in Parts, Load(p) PROVE Inv'
<1>1. /\ pc = "loads" /\ load[p] = "running"
      /\ UNCHANGED <<matching, rows, changes, pc, page, size, floorRows, counts, matched,
                     total, shown, stage, lines, answer>>
  BY DEF Load, shop, ask, since
<1>2. faults' \in 0..MaxFaults
  BY ReadStep DEF Load, Inv, Typed
<1>3. PICK state \in {"ok", "failed"} :
        load' = [load EXCEPT ![p] = state] /\ seen' = IF state = "ok" THEN Loaded(p) ELSE seen
  BY DEF Load
<1>4. seen' \in RowTable /\ \A o \in OrderIds, q \in Parts :
        seen'[o][q] = IF q = p /\ state = "ok" /\ o \in ToSet(shown) THEN rows[o][p]
                      ELSE seen[o][q]
  BY <1>3 DEF Loaded, Inv, Typed, RowTable
<1>5. load' \in [Parts -> LoadStates] /\ \A q \in Parts :
        load'[q] = IF q = p THEN state ELSE load[q]
  BY <1>3 DEF Inv, Typed, LoadStates
<1>6. Typed'
  BY <1>1, <1>2, <1>4, <1>5 DEF Inv, Typed
<1>7. RowsOK'
  <2>1. SUFFICES ASSUME NEW o \in OrderIds, NEW q \in Parts
                 PROVE  /\ rows[o][q] <= changes /\ (rows[o][q] > 0 => rows[o]["items"] > 0)
                        /\ floorRows[o][q] <= rows[o][q] /\ seen'[o][q] <= rows[o][q]
                        /\ seen'[o][q] > 0 => o \in ToSet(shown) /\ load'[q] = "ok"
                        /\ load'[q] = "ok" /\ o \in ToSet(shown) => floorRows[o][q] <= seen'[o][q]
    BY <1>1 DEF RowsOK
  <2>2. /\ rows[o][q] <= changes /\ (rows[o][q] > 0 => rows[o]["items"] > 0)
        /\ floorRows[o][q] <= rows[o][q] /\ seen[o][q] <= rows[o][q]
        /\ seen[o][q] > 0 => o \in ToSet(shown) /\ load[q] = "ok"
        /\ load[q] = "ok" /\ o \in ToSet(shown) => floorRows[o][q] <= seen[o][q]
    BY DEF Inv, RowsOK
  <2>3. rows[o][q] \in Nat
    BY DEF Inv, Typed, RowTable
  <2>4. QED
    BY <1>1, <1>4, <1>5, <2>2, <2>3
<1>8. StageOK'
  BY <1>1, Stages DEF Inv, StageOK
<1>9. CountOK' /\ PageOK' /\ AnswerOK'
  BY <1>1 DEF Inv, CountOK, PageOK, AnswerOK, IsPage
<1>10. QED
  BY <1>6, <1>7, <1>8, <1>9 DEF Inv

LEMMA WaitInv == ASSUME Inv, Wait PROVE Inv'
<1>1. faults' \in 0..MaxFaults
  BY DEF Wait, Inv, Typed
<1>2. CASE Failed
  BY <1>1, <1>2, FailureInv DEF Wait
<1>3. CASE ~Failed
  <2>1. /\ pc = "loads" /\ pc' = "lines" /\ \A p \in Parts : load[p] = "ok"
        /\ UNCHANGED <<matching, rows, changes, page, size, floorRows, counts, matched, total,
                       shown, load, seen, stage, lines, answer>>
    BY <1>3 DEF Wait, Failed, shop, ask, since
  <2>2. Typed' /\ RowsOK'
    BY <1>1, <2>1 DEF Inv, Typed, RowsOK
  <2>3. StageOK'
    BY <2>1, Stages DEF Inv, StageOK, Found
  <2>4. CountOK' /\ PageOK' /\ AnswerOK'
    BY <2>1 DEF Inv, CountOK, PageOK, AnswerOK, IsPage
  <2>5. QED
    BY <2>2, <2>3, <2>4 DEF Inv
<1>4. QED
  BY <1>2, <1>3

LEMMA LinesInv == ASSUME Inv, LoadLines PROVE Inv'
<1> DEFINE k == LineStages[stage]
<1>1. PICK ok \in BOOLEAN :
        /\ Read(ok)
        /\ IF ~ok THEN Reply(Failure)
           ELSE /\ lines' = IF Gate(k) THEN lines ELSE [lines EXCEPT ![k] = Found(k)]
                /\ stage' = stage + 1
                /\ pc' = IF stage = Len(LineStages) THEN "map" ELSE "lines"
                /\ UNCHANGED <<shop, ask, since, total, shown, load, seen, answer>>
  BY DEF LoadLines
<1>2. faults' \in 0..MaxFaults
  BY <1>1, ReadStep
<1>3. CASE ~ok
  BY <1>1, <1>2, <1>3, FailureInv
<1>4. CASE ok
  <2>1. /\ pc = "lines" /\ stage \in 1..4 /\ stage' = stage + 1
        /\ pc' = IF stage = 4 THEN "map" ELSE "lines"
        /\ UNCHANGED <<matching, rows, changes, page, size, floorRows, counts, matched, total,
                       shown, load, seen, answer>>
    BY <1>1, <1>4, Stages DEF LoadLines, shop, ask, since, Inv, StageOK
  <2>2. k \in LineKinds /\ lines[k] = {} /\ \A p \in Parts : load[p] = "ok"
    BY <2>1, Stages DEF Inv, StageOK
  <2>3. lines' = [lines EXCEPT ![k] = Found(k)]
    BY <1>1, <1>4, <2>2 DEF Gate, Inv, Typed
  <2>4. Found(k) \in SUBSET (OrderIds \X Nat)
    <3>1. ASSUME NEW o \in ToSet(shown)
          PROVE  {o} \X (1..seen[o][DocumentOf[k]]) \subseteq OrderIds \X Nat
      BY <3>1, LenProperties DEF Inv, Typed, ToSet
    <3>2. QED
      BY <3>1 DEF Found
  <2>5. Typed'
    BY <1>2, <2>1, <2>2, <2>3, <2>4 DEF Inv, Typed
  <2>6. RowsOK'
    BY <2>1 DEF Inv, RowsOK
  <2>7. StageOK'
    <3>1. ASSUME NEW n \in 1..4
          PROVE  lines'[LineStages[n]] =
                   IF n < stage' THEN Found(LineStages[n])' ELSE {}
      <4>1. Found(LineStages[n])' = Found(LineStages[n])
        BY <2>1 DEF Found
      <4>2. CASE n = stage
        BY <2>1, <2>2, <2>3, <4>1, <4>2 DEF Inv, Typed
      <4>3. CASE n # stage
        <5>1. lines'[LineStages[n]] = lines[LineStages[n]]
          BY <2>1, <2>3, <4>3, Stages DEF Inv, Typed
        <5>2. QED
          BY <2>1, <4>1, <4>3, <5>1 DEF Inv, StageOK
      <4>4. QED
        BY <4>2, <4>3
    <3>2. QED
      BY <2>1, <2>2, <3>1 DEF Inv, StageOK
  <2>8. CountOK' /\ PageOK' /\ AnswerOK'
    BY <2>1 DEF Inv, CountOK, PageOK, AnswerOK, IsPage
  <2>9. QED
    BY <2>5, <2>6, <2>7, <2>8 DEF Inv
<1>5. QED
  BY <1>3, <1>4

\* The answer that GetOrders maps is not a division by zero.
LEMMA MapStep ==
  ASSUME Inv, MapOrders
  PROVE  /\ pc = "map" /\ faults' = faults /\ size >= 1
         /\ Reply(Mapped(PagesFor(total, size)))
BY DEF MapOrders, Inv, Typed, PageOK

LEMMA MapInv == ASSUME Inv, MapOrders PROVE Inv'
<1> DEFINE a == Mapped(PagesFor(total, size))
<1>1. /\ a.kind = "ok" /\ a.orders = shown /\ a.total = total
      /\ a.pages = PagesFor(total, size)
  BY DEF Mapped, Promise!Answer
<1> HIDE DEF a
<1>2. faults' \in 0..MaxFaults
  BY MapStep DEF Inv, Typed
<1>3. counts = {total} => IsPage(shown, total)
  BY MapStep DEF Inv, PageOK
<1>4. Reply(a)
  BY MapStep DEF a
<1>5. QED
  BY <1>1, <1>2, <1>3, <1>4, ReplyInv DEF Inv, Typed

LEMMA NextInv == Inv /\ [Next]_vars => Inv'
<1>1. ASSUME Inv, UNCHANGED vars PROVE Inv'
  BY <1>1 DEF vars, Inv, Typed, RowsOK, StageOK, CountOK, PageOK, AnswerOK, IsPage, Found
<1>2. QED
  BY <1>1, ShopInv, AskInv, CountInv, SelectInv, LoadInv, WaitInv, LinesInv, MapInv
     DEF Next, Work

\* Every request finds at each statement what the statements before it left, and
\* reads no less than was stored when it came in.
THEOREM Invariant == Spec => []Inv
<1>1. QED
  BY InitInv, NextInv, PTL DEF Spec

\* Every reachable state is well-typed, and rows are held only of orders of the
\* page, each of which is shown once.
THEOREM TypeCorrect == Spec => []TypeOK
<1>1. ASSUME Inv PROVE TypeOK
  <2>1. Len(matching) \in Nat /\ Len(LineStages) = 4
    BY <1>1, Stages, LenProperties DEF Inv, Typed
  <2>2. ToSet(matching) \subseteq OrderIds
    BY <1>1, LenProperties DEF Inv, Typed, ToSet
  <2>3. \A o \in OrderIds, p \in Parts :
          rows[o][p] \in 0..MaxChanges /\ seen[o][p] \in 0..MaxChanges
    <3>1. \A o \in OrderIds, p \in Parts :
            /\ rows[o][p] \in Nat /\ seen[o][p] \in Nat
            /\ rows[o][p] <= changes /\ seen[o][p] <= rows[o][p]
      BY <1>1 DEF Inv, Typed, RowTable, RowsOK
    <3>2. changes \in 0..MaxChanges
      BY <1>1 DEF Inv, Typed
    <3>3. QED
      BY <3>1, <3>2, BoundAssumption
  <2>4. /\ rows \in [OrderIds -> [Parts -> 0..MaxChanges]]
        /\ seen \in [OrderIds -> [Parts -> 0..MaxChanges]]
    BY <1>1, <2>3 DEF Inv, Typed, RowTable
  <2>5. total \in 0..MaxChanges
    BY <1>1, BoundAssumption DEF Inv, Typed, CountOK
  <2>6. QED
    BY <1>1, <2>1, <2>2, <2>4, <2>5 DEF Inv, Typed, RowsOK, PageOK, AnswerOK, TypeOK
<1>2. QED
  BY <1>1, Invariant, PTL

\* GetOrders never divides by the page size zero, although clients choose it, and
\* a page lies within the pages counted, for every size and number, unless orders
\* came to match or ceased to between the statements (orders.go:83, orders.go:265).
THEOREM PageTheorem == Spec => []PageWithinPages
<1>1. ASSUME Inv PROVE PageWithinPages
  <2>1. answer.kind # "panic"
    BY <1>1 DEF Inv, AnswerOK
  <2>2. ASSUME answer.kind = "ok", answer.orders # <<>>, counts = {answer.total}
        PROVE  /\ page \in 1..answer.pages
               /\ page < answer.pages => Len(answer.orders) = size
               /\ Len(answer.orders) + (page - 1) * size <= answer.total
    <3>1. /\ answer.total \in Nat /\ IsPage(answer.orders, answer.total)
          /\ answer.pages = PagesFor(answer.total, size) /\ page \in Int /\ size \in Int
      BY <1>1, <2>2 DEF Inv, AnswerOK, Typed
    <3>2. /\ answer.pages \in Int /\ page <= answer.pages /\ page >= 1
          /\ page < answer.pages => page * size <= answer.total
      BY <3>1, Counted DEF IsPage
    <3>3. (page - 1) * size + size = page * size
      BY <3>1, Distribution
    <3>4. /\ (page - 1) * size \in Int
          /\ Len(answer.orders) = IF page * size <= answer.total THEN size
                                  ELSE answer.total - (page - 1) * size
      BY <3>1 DEF IsPage
    <3>5. page \in 1..answer.pages /\ (page < answer.pages => Len(answer.orders) = size)
      BY <3>1, <3>2, <3>4
    <3>6. Len(answer.orders) + (page - 1) * size <= answer.total
      BY <3>1, <3>3, <3>4
    <3>7. QED
      BY <3>5, <3>6
  <2>3. QED
    BY <2>1, <2>2 DEF PageWithinPages
<1>2. QED
  BY <1>1, Invariant, PTL

----------------------------------------------------------------------------
(* The refinement.                                                         *)

LEMMA InitRefines == Init => Promise!Init
BY DEF Init, Promise!Init

\* OrderAnswer reads sequences as OrderHistory does.
LEMMA Readings ==
  /\ \A s : Promise!ToSet(s) = ToSet(s)
  /\ \A s : Promise!IsInjective(s) <=> IsInjective(s)
BY DEF Promise!ToSet, ToSet, Promise!IsInjective, IsInjective

\* The question is answered when the request is idle again.
LEMMA Closed == ASSUME pc' = "idle" PROVE (pc # "idle")' = FALSE
OBVIOUS

LEMMA ShopRefines == ASSUME Inv, Shop PROVE Promise!Store
<1>1. \A o \in OrderIds, p \in Parts : rows[o][p] <= rows'[o][p]
  BY ShopStep
<1>2. /\ pc' = pc /\ UNCHANGED <<floorRows, answer>>
      /\ IF pc # "idle" THEN /\ counts' = counts \cup {Len(matching')}
                             /\ matched' = matched \cup ToSet(matching')
         ELSE counts' = counts /\ matched' = matched
  BY DEF Shop, ask, since
<1>3. UNCHANGED (pc # "idle")
  BY <1>2
<1>4. QED
  BY <1>1, <1>2, <1>3, Readings, Zenon DEF Promise!Store

LEMMA FailureRefines ==
  ASSUME pc # "idle", Reply(Failure) PROVE Promise!Respond
BY DEF Reply, Failure, shop, ask, since, Promise!Respond, Promise!Nothing, Promise!Answer

\* A page without orders has nothing that could be missing.
LEMMA EmptyRefines ==
  ASSUME pc # "idle", Reply([Promise!Nothing EXCEPT !.kind = "ok"])
  PROVE  Promise!Respond
<1>1. /\ answer'.kind = "ok" /\ answer'.orders = <<>> /\ answer'.total = 0
      /\ answer'.lines = Promise!NoLines /\ pc' = "idle"
      /\ UNCHANGED <<matching, rows, floorRows, counts, matched>>
  BY DEF Reply, shop, ask, since, Promise!Nothing, Promise!Answer
<1>2. \A k \in LineKinds : Promise!DocumentsShown(answer', k) = {}
  <2>1. Promise!ToSet(answer'.orders) = {}
    BY <1>1, Readings DEF ToSet
  <2>2. QED
    BY <2>1 DEF Promise!DocumentsShown
<1>3. Promise!Complete(answer')
  <2>1. Promise!ToSet(answer'.orders) = {}
    BY <1>1, Readings DEF ToSet
  <2>2. \A k \in LineKinds : answer'.lines[k] = Promise!DocumentsShown(answer', k)
    BY <1>1, <1>2 DEF Promise!NoLines
  <2>3. QED
    BY <2>1, <2>2 DEF Promise!Complete
<1>4. Promise!CountedRight(answer')
  BY <1>1 DEF Promise!CountedRight
<1>5. QED
  BY <1>1, <1>3, <1>4, Readings, Closed DEF Promise!Respond, ToSet, IsInjective

\* The answer mapped has the rows of all seven loads, and the lines of each
\* document that they found.
LEMMA MapRefines == ASSUME Inv, MapOrders PROVE Promise!Respond
<1> DEFINE a == Mapped(PagesFor(total, size))
<1>1. /\ a.kind = "ok" /\ a.orders = shown /\ a.parts = seen /\ a.lines = lines
      /\ a.total = total
  BY DEF Mapped, Promise!Answer
<1> HIDE DEF a
<1>2. /\ pc = "map" /\ pc' = "idle" /\ answer' = a
      /\ UNCHANGED <<matching, rows, floorRows, counts, matched>>
  BY MapStep DEF Reply, shop, ask, since, a
<1>3. ToSet(shown) \subseteq matched /\ IsInjective(shown)
  BY DEF Inv, PageOK, Typed
<1>4. ASSUME NEW o \in ToSet(shown), NEW p \in Parts
      PROVE  floorRows[o][p] <= seen[o][p] /\ seen[o][p] <= rows[o][p]
  <2>1. o \in OrderIds
    BY <1>4, LenProperties DEF Inv, Typed, ToSet
  <2>2. load[p] = "ok"
    BY <1>2 DEF Inv, StageOK
  <2>3. QED
    BY <1>4, <2>1, <2>2 DEF Inv, RowsOK
<1>5. ASSUME NEW k \in LineKinds PROVE a.lines[k] = Promise!DocumentsShown(a, k)
  <2>1. PICK n \in 1..4 : k = LineStages[n]
    BY Stages
  <2>2. lines[k] = Found(k)
    BY <1>2, <2>1 DEF Inv, StageOK
  <2>3. QED
    BY <1>1, <2>2, Readings DEF Found, Promise!DocumentsShown
<1>6. Promise!Complete(a)
  BY <1>1, <1>4, <1>5, Readings DEF Promise!Complete
<1>7. Promise!CountedRight(a)
  BY <1>1, <1>2 DEF Inv, CountOK, Promise!CountedRight
<1>8. Promise!Complete(answer') /\ Promise!CountedRight(answer')
  BY <1>2, <1>6, <1>7
<1>9. QED
  BY <1>1, <1>2, <1>3, <1>8, Readings, Closed DEF Promise!Respond

LEMMA StepRefines ==
  ASSUME Inv, [Next]_vars PROVE [Promise!Next]_(Promise!vars)
<1>1. CASE Shop
  BY <1>1, ShopRefines DEF Promise!Next
<1>2. CASE Ask
  BY <1>2, Readings DEF Ask, shop, Promise!Ask, Promise!Next
<1>3. CASE CountOrders
  <2>1. CASE Reply(Failure)
    BY <1>3, <2>1, FailureRefines DEF CountOrders, Promise!Next
  <2>2. CASE ~Reply(Failure)
    BY <1>3, <2>2 DEF CountOrders, shop, ask, since, Promise!vars
  <2>3. QED
    BY <2>1, <2>2
<1>4. CASE SelectPage
  <2>1. CASE Reply(Failure) \/ Reply([Promise!Nothing EXCEPT !.kind = "ok"])
    BY <1>4, <2>1, FailureRefines, EmptyRefines DEF SelectPage, Promise!Next
  <2>2. CASE ~(Reply(Failure) \/ Reply([Promise!Nothing EXCEPT !.kind = "ok"]))
    BY <1>4, <2>2 DEF SelectPage, shop, ask, since, Promise!vars
  <2>3. QED
    BY <2>1, <2>2
<1>5. CASE \E p \in Parts : Load(p)
  BY <1>5 DEF Load, shop, ask, since, Promise!vars
<1>6. CASE Wait
  <2>1. CASE Reply(Failure)
    BY <1>6, <2>1, FailureRefines DEF Wait, Promise!Next
  <2>2. CASE ~Reply(Failure)
    BY <1>6, <2>2 DEF Wait, shop, ask, since, Promise!vars
  <2>3. QED
    BY <2>1, <2>2
<1>7. CASE LoadLines
  <2>1. CASE Reply(Failure)
    BY <1>7, <2>1, FailureRefines DEF LoadLines, Promise!Next
  <2>2. CASE ~Reply(Failure)
    BY <1>7, <2>2 DEF LoadLines, shop, ask, since, Promise!vars
  <2>3. QED
    BY <2>1, <2>2
<1>8. CASE MapOrders
  BY <1>8, MapRefines DEF Promise!Next
<1>9. CASE UNCHANGED vars
  BY <1>9 DEF vars, Promise!vars
<1>10. QED
  BY <1>1, <1>2, <1>3, <1>4, <1>5, <1>6, <1>7, <1>8, <1>9 DEF Next, Work

\* Up to thirteen statements with no transaction, seven of them at once, answer
\* what OrderAnswer promises, whatever the shop stores between them: an answer that
\* is not an error has all that was stored for each order when it was asked for,
\* and no document without its lines (orders.go:115-180).
THEOREM Refinement == Spec => ImplementsOrderAnswer
<1>1. QED
  BY InitRefines, StepRefines, Invariant, PTL
     DEF Spec, ImplementsOrderAnswer, Promise!Spec

----------------------------------------------------------------------------
(* The custom attributes of an entity: what is known between two of its    *)
(* statements.                                                             *)

\* What a value that stood is, and where it is read from.
StoodOK ==
  \A a \in stood : /\ TableOf[a] \in Tables /\ stored[a] \notin {NoRow, Null}
                   /\ stored[a] \in ValuesOf(a)

\* While tables are read, a value that stood was read or will be.
ReadOK ==
  step = "values" =>
    /\ entries = {}
    /\ \A a \in stood :
         TableOf[a] \in unread \/ (a \in DOMAIN values /\ values[a] = stored[a])

\* While options are read, an attribute has an entry or waits for its options.
MapOK ==
  step = "options" =>
    /\ DOMAIN values \subseteq Wanted \cap Selects
    /\ \A a \in DOMAIN values : a \in stood => values[a] = stored[a]
    /\ \A e \in entries : e.code \notin DOMAIN values
    /\ \A a \in stood \cap Wanted :
         a \in DOMAIN values \/ \E e \in entries : e.code = a

AnsweredOK ==
  outcome = "ok" =>
    /\ step = "idle"
    /\ \A a \in stood \cap Wanted : \E e \in entries : e.code = a

OneEntryEach == \A e, f \in entries : e.code = f.code => e = f

AttributesInv ==
  /\ AttributesTypeOK /\ StoodOK /\ ReadOK /\ MapOK /\ AnsweredOK /\ OneEntryEach
  /\ OnlySelectedOptions

\* The values of an attribute are among the contents of its column.
LEMMA ValueType ==
  ASSUME NEW a \in Attributes
  PROVE  ValuesOf(a) \subseteq (SUBSET Options) \cup Texts
BY SelectAssumption, OptionAssumption DEF ValuesOf

LEMMA InitAttributes == AttributesInit => AttributesInv
BY EditAssumption
   DEF AttributesInit, AttributesInv, AttributesTypeOK, NoValues, StoodOK, ReadOK, MapOK,
       AnsweredOK, OneEntryEach, OnlySelectedOptions

\* The shop stores another value: it no longer stands.
LEMMA StoreValueStep ==
  ASSUME AttributesInv, NEW a \in Attributes, StoreValue(a)
  PROVE  AttributesInv'
<1> USE DEF AttributesInv
<1>1. PICK v \in {NoRow, Null} \cup ValuesOf(a) : stored' = [stored EXCEPT ![a] = v]
  BY DEF StoreValue
<1>2. /\ edits' \in 0..MaxEdits /\ stood' = stood \ {a}
      /\ UNCHANGED <<label, step, requested, unread, values, entries, outcome>>
  BY EditAssumption DEF StoreValue, Edit, AttributesTypeOK
<1>3. stored \in [Attributes -> {NoRow, Null} \cup (SUBSET Options) \cup Texts]
  BY DEF AttributesTypeOK, Contents
<1>4. /\ stored'[a] = v /\ \A b \in Attributes \ {a} : stored'[b] = stored[b]
      /\ stored' \in [Attributes -> {NoRow, Null} \cup (SUBSET Options) \cup Texts]
  BY <1>1, <1>3, ValueType
<1>5. stored' \in Contents
  BY <1>1, <1>4 DEF Contents, AttributesTypeOK
<1>6. stood' \subseteq Attributes /\ a \notin stood' /\ stood' \subseteq stood
  BY <1>2 DEF AttributesTypeOK
<1>7. AttributesTypeOK'
  BY <1>2, <1>5, <1>6 DEF AttributesTypeOK, Wanted, ValuesOf
<1>8. StoodOK' /\ ReadOK' /\ MapOK'
  BY <1>2, <1>4, <1>6 DEF StoodOK, ReadOK, MapOK, Wanted, ValuesOf
<1>9. AnsweredOK' /\ OneEntryEach' /\ OnlySelectedOptions'
  BY <1>2, <1>4, <1>6 DEF AnsweredOK, OneEntryEach, OnlySelectedOptions, Wanted
<1>10. QED
  BY <1>7, <1>8, <1>9

LEMMA EditOptionStep ==
  ASSUME AttributesInv, NEW o \in Options, EditOption(o)
  PROVE  AttributesInv'
<1>1. label' \in [Options -> LabelStates]
  BY DEF EditOption, AttributesInv, AttributesTypeOK
<1>2. /\ edits' \in 0..MaxEdits
      /\ UNCHANGED <<stored, step, requested, unread, values, entries, outcome, stood>>
  BY EditAssumption DEF EditOption, Edit, AttributesInv, AttributesTypeOK
<1>3. QED
  BY <1>1, <1>2
     DEF AttributesInv, AttributesTypeOK, Wanted, ValuesOf, StoodOK, ReadOK, MapOK,
         AnsweredOK, OneEntryEach, OnlySelectedOptions

\* A question: every value that stands now is in a table still to be read.
LEMMA AskStep == AttributesInv /\ AskAttributes => AttributesInv'
<1> SUFFICES ASSUME AttributesInv, AskAttributes PROVE AttributesInv'
  OBVIOUS
<1> USE DEF AttributesInv
<1>1. /\ step' = "values" /\ outcome' = "none" /\ entries' = {} /\ values' = NoValues
      /\ requested' \subseteq Attributes
      /\ unread' = {TableOf[a] : a \in Attributes} \cap Tables
      /\ stood' = {a \in Attributes : TableOf[a] \in Tables /\ stored[a] \notin {NoRow, Null}}
      /\ UNCHANGED <<stored, label, edits>>
  BY DEF AskAttributes
<1>2. AttributesTypeOK'
  BY <1>1 DEF AttributesTypeOK, NoValues, ValuesOf
<1>3. StoodOK' /\ ReadOK'
  <2>1. stored \in Contents
    BY DEF AttributesTypeOK
  <2>2. \A a \in stood' : a \in Attributes /\ TableOf[a] \in Tables /\ stored[a] \notin {NoRow, Null}
    BY <1>1
  <2>3. \A a \in stood' : stored[a] \in ValuesOf(a)
    BY <2>1, <2>2 DEF Contents
  <2>4. StoodOK'
    BY <1>1, <2>2, <2>3 DEF StoodOK, ValuesOf
  <2>5. \A a \in stood' : TableOf[a] \in unread'
    BY <1>1, <2>2
  <2>6. QED
    BY <1>1, <2>4, <2>5 DEF ReadOK
<1>4. QED
  <2>1. step' # "options" /\ outcome' # "ok"
    BY <1>1
  <2>2. MapOK' /\ AnsweredOK' /\ OneEntryEach' /\ OnlySelectedOptions'
    BY <1>1, <2>1 DEF MapOK, AnsweredOK, OneEntryEach, OnlySelectedOptions
  <2>3. QED
    BY <1>2, <1>3, <2>2

\* A failure leaves an empty answer.
LEMMA EmptyAnswer ==
  ASSUME AttributesInv, AnswerEmpty,
         UNCHANGED <<stored, label, edits, requested, stood>>
  PROVE  AttributesInv'
BY DEF AnswerEmpty, AttributesInv, AttributesTypeOK, NoValues, ValuesOf, StoodOK,
       ReadOK, MapOK, AnsweredOK, OneEntryEach, OnlySelectedOptions

LEMMA ReadTableStep ==
  ASSUME AttributesInv, NEW t \in Tables, ReadTable(t)
  PROVE  AttributesInv'
<1> USE DEF AttributesInv
<1>1. UNCHANGED <<stored, label, edits, requested, stood>> /\ step = "values"
  BY DEF ReadTable
<1>2. CASE \E a \in RowsOf(t) : stored[a] = Null
  BY <1>1, <1>2, EmptyAnswer DEF ReadTable
<1>3. CASE ~ \E a \in RowsOf(t) : stored[a] = Null
  <2>1. /\ values' = [a \in DOMAIN values \cup RowsOf(t) |->
                        IF a \in RowsOf(t) THEN stored[a] ELSE values[a]]
        /\ unread' = unread \ {t} /\ UNCHANGED <<step, entries, outcome>>
    BY <1>3 DEF ReadTable
  <2>2. \A a \in RowsOf(t) : a \in Attributes /\ stored[a] \in ValuesOf(a)
    BY <1>3 DEF RowsOf, AttributesTypeOK, Contents
  <2>3. /\ DOMAIN values' = DOMAIN values \cup RowsOf(t)
        /\ \A a \in RowsOf(t) : values'[a] = stored[a]
        /\ \A a \in DOMAIN values \ RowsOf(t) : values'[a] = values[a]
    BY <2>1
  <2>4. \A a \in DOMAIN values' : a \in Attributes /\ values'[a] \in ValuesOf(a)
    BY <2>2, <2>3 DEF AttributesTypeOK
  <2>5. AttributesTypeOK'
    BY <1>1, <2>1, <2>4 DEF AttributesTypeOK, Wanted, ValuesOf
  <2>6. \A a \in stood : TableOf[a] = t => a \in RowsOf(t)
    BY DEF StoodOK, RowsOf, AttributesTypeOK
  <2>7. ReadOK'
    <3>1. ASSUME NEW a \in stood
          PROVE  TableOf[a] \in unread' \/ (a \in DOMAIN values' /\ values'[a] = stored[a])
      <4>1. CASE a \in RowsOf(t)
        BY <2>3, <4>1
      <4>2. CASE a \notin RowsOf(t)
        BY <1>1, <2>1, <2>3, <2>6, <3>1, <4>2 DEF ReadOK
      <4>3. QED
        BY <4>1, <4>2
    <3>2. entries' = {} /\ stood' = stood /\ stored' = stored
      BY <1>1, <2>1 DEF ReadOK
    <3>3. QED
      BY <3>1, <3>2 DEF ReadOK
  <2>8. QED
    BY <1>1, <2>1, <2>5, <2>7
       DEF StoodOK, MapOK, AnsweredOK, OneEntryEach, OnlySelectedOptions, Wanted, ValuesOf
<1>4. QED
  BY <1>2, <1>3

\* From values to entries: texts are answered, selections wait.
LEMMA MapTextsStep == AttributesInv /\ MapTexts => AttributesInv'
<1> SUFFICES ASSUME AttributesInv, MapTexts PROVE AttributesInv'
  OBVIOUS
<1> USE DEF AttributesInv
<1>1. /\ step = "values" /\ unread = {} /\ step' = "options"
      /\ entries' = {Raw(a) : a \in (DOMAIN values \cap Wanted) \ Selects}
      /\ values' = [a \in DOMAIN values \cap Wanted \cap Selects |-> values[a]]
      /\ UNCHANGED <<stored, label, edits, requested, unread, outcome, stood>>
  BY DEF MapTexts
<1>2. /\ DOMAIN values' = DOMAIN values \cap Wanted \cap Selects
      /\ \A a \in DOMAIN values' : values'[a] = values[a]
  BY <1>1
<1>3. \A a \in (DOMAIN values \cap Wanted) \ Selects : Raw(a) \in entries'
  BY <1>1
<1>4. \A e \in entries' : \E a \in (DOMAIN values \cap Wanted) \ Selects : e = Raw(a)
  BY <1>1
<1>5. \A a : Raw(a).code = a /\ Raw(a).options = {}
  BY DEF Raw
<1>6. Wanted' = Wanted
  BY <1>1 DEF Wanted
<1>7. \A e \in entries' : e.code \in Wanted /\ e.code \notin Selects /\ e.options = {}
  BY <1>4, <1>5
<1>8. AttributesTypeOK'
  BY <1>1, <1>2, <1>6, <1>7 DEF AttributesTypeOK, ValuesOf
<1>9. MapOK'
  <2>1. \A a \in stood : a \in DOMAIN values /\ values[a] = stored[a]
    BY <1>1 DEF ReadOK
  <2>2. \A a \in stood \cap Wanted : a \notin DOMAIN values' => \E e \in entries' : e.code = a
    BY <2>1, <1>2, <1>3, <1>5
  <2>3. QED
    BY <1>1, <1>2, <1>6, <1>7, <2>1, <2>2 DEF MapOK
<1>10. OneEntryEach' /\ OnlySelectedOptions'
  BY <1>4, <1>5, <1>7 DEF OneEntryEach, OnlySelectedOptions
<1>11. QED
  BY <1>1, <1>8, <1>9, <1>10 DEF StoodOK, ReadOK, AnsweredOK, ValuesOf

\* The options of one attribute: an entry takes the place of the value.
LEMMA LoadOptionsStep ==
  ASSUME AttributesInv, NEW a \in Selects, LoadOptions(a)
  PROVE  AttributesInv'
<1> USE DEF AttributesInv
<1> DEFINE chosen == values[a] \cap Known(a)
<1>1. /\ step = "options" /\ a \in DOMAIN values
      /\ values' = [b \in DOMAIN values \ {a} |-> values[b]]
      /\ UNCHANGED <<stored, label, edits, step, requested, unread, outcome, stood>>
  BY DEF LoadOptions, Forget
<1>2. \E e \in {Raw(a), Resolved(a, chosen)} : entries' = entries \cup {e}
  BY DEF LoadOptions
<1>3. PICK e \in {Raw(a), Resolved(a, chosen)} : entries' = entries \cup {e}
  BY <1>2
<1>4. /\ DOMAIN values' = DOMAIN values \ {a}
      /\ \A b \in DOMAIN values' : values'[b] = values[b]
  BY <1>1
<1>5. e.code = a /\ (e.options = {} \/ e.options = chosen)
  BY DEF Raw, Resolved
<1>6. Wanted' = Wanted
  BY <1>1 DEF Wanted
<1>7. a \in Wanted /\ \A f \in entries : f.code # a
  BY <1>1 DEF MapOK
<1>8. chosen \subseteq OptionsOf[a] /\ OptionsOf[a] \subseteq Options
  BY OptionAssumption DEF Known
<1>9. a \in stood => chosen \subseteq stored[a]
  BY <1>1 DEF MapOK
<1>10. AttributesTypeOK'
  <2>1. \A f \in entries' : f.code \in Wanted /\ f.options \subseteq Options
    BY <1>3, <1>5, <1>7, <1>8 DEF AttributesTypeOK
  <2>2. QED
    BY <1>1, <1>4, <1>6, <2>1 DEF AttributesTypeOK, ValuesOf
<1>11. MapOK'
  <2>1. \A f \in entries' : f.code \notin DOMAIN values'
    BY <1>1, <1>3, <1>4, <1>5 DEF MapOK
  <2>2. \A b \in stood \cap Wanted :
           b \in DOMAIN values' \/ \E f \in entries' : f.code = b
    BY <1>1, <1>3, <1>4, <1>5 DEF MapOK
  <2>3. QED
    BY <1>1, <1>4, <1>6, <2>1, <2>2 DEF MapOK
<1>12. OneEntryEach'
  BY <1>3, <1>5, <1>7 DEF OneEntryEach
<1>13. OnlySelectedOptions'
  BY <1>1, <1>3, <1>5, <1>8, <1>9 DEF OnlySelectedOptions
<1>14. QED
  BY <1>1, <1>10, <1>11, <1>12, <1>13 DEF StoodOK, ReadOK, AnsweredOK, ValuesOf

LEMMA ReplyStep == AttributesInv /\ AnswerEntries => AttributesInv'
BY DEF AnswerEntries, AttributesInv, AttributesTypeOK, Wanted, ValuesOf, StoodOK, ReadOK,
       MapOK, AnsweredOK, OneEntryEach, OnlySelectedOptions

LEMMA AttributesStep == AttributesInv /\ [AttributesNext]_attributeVars => AttributesInv'
<1> SUFFICES ASSUME AttributesInv, [AttributesNext]_attributeVars PROVE AttributesInv'
  OBVIOUS
<1>1. CASE \E a \in Attributes : StoreValue(a)
  BY <1>1, StoreValueStep
<1>2. CASE \E o \in Options : EditOption(o)
  BY <1>2, EditOptionStep
<1>3. CASE AskAttributes \/ MapTexts \/ AnswerEntries
  BY <1>3, AskStep, MapTextsStep, ReplyStep
<1>4. CASE ReadFails
  BY <1>4, EmptyAnswer DEF ReadFails
<1>5. CASE \E t \in Tables : ReadTable(t)
  BY <1>5, ReadTableStep
<1>6. CASE \E a \in Selects : LoadOptions(a)
  BY <1>6, LoadOptionsStep
<1>7. CASE UNCHANGED attributeVars
  BY <1>7 DEF attributeVars, AttributesInv, AttributesTypeOK, Wanted, ValuesOf, StoodOK,
       ReadOK, MapOK, AnsweredOK, OneEntryEach, OnlySelectedOptions
<1>8. QED
  BY <1>1, <1>2, <1>3, <1>4, <1>5, <1>6, <1>7 DEF AttributesNext

LEMMA AttributesInvariant == AttributesSpec => []AttributesInv
<1>1. QED
  BY InitAttributes, AttributesStep, PTL DEF AttributesSpec

\* The attributes of an answer: none that had one value all the time is dropped,
\* and the options are among those selected (customer.go:843-897,
\* mapper.go:277-314).
THEOREM AttributesTheorem == AttributesSpec => []AttributesAnswered
<1>1. AttributesInv => AttributesAnswered
  <2> SUFFICES ASSUME AttributesInv PROVE AttributesAnswered
    OBVIOUS
  <2>1. ASSUME outcome = "ok", NEW a \in stood \cap Wanted
        PROVE  \E e \in entries : {f \in entries : f.code = a} = {e}
    <3>1. PICK e \in entries : e.code = a
      BY <2>1 DEF AttributesInv, AnsweredOK
    <3>2. {f \in entries : f.code = a} = {e}
      BY <3>1 DEF AttributesInv, OneEntryEach
    <3>3. QED
      BY <3>1, <3>2
  <2>2. QED
    BY <2>1 DEF AttributesAnswered, NothingDropped, AttributesInv
<1>2. QED
  BY <1>1, AttributesInvariant, PTL

----------------------------------------------------------------------------
(* A walk through pages: where it is, and which rows may be behind it.     *)

USE ListAssumption, NumberAssumption, SizeAssumption, RowsAssumption

\* Ids are handed out once, and in order.
IdsOK ==
  /\ IsFiniteSet(listRows)
  /\ \A row \in listRows : row.id < nextRow
  /\ \A a, b \in listRows : a.id = b.id => a = b
  /\ \A id \in walked : id < nextRow
  /\ there \subseteq IdsIn(listRows)

\* Requests of a list have numbers that its handler accepts.
RequestOK ==
  /\ walkPc = "idle" =>
       walked = {} /\ twice = {} /\ there = {} /\ shifted = {} /\ walkAnswer = "none"
  /\ walkAnswer = "panic" => walkPc = "answered" /\ (pageNumber < 1 \/ pageSize < 0)
  /\ list = "items_v2" /\ walkPc # "idle" => pageSize > 0 /\ pageNumber > 0
  /\ pageSize < 0 => walked = {}
  /\ first = 1 => pageNumber >= 1

\* The rows up to a row in the order of the list, itself among them, and how many
\* of them the walk has passed.
Upto(row) == {a \in listRows : a = row \/ Before(a, row)}
Rank(row) == Cardinality(Upto(row))
Passed == IF walkPc \in {"count", "answered"}
          THEN pageNumber * pageSize ELSE (pageNumber - 1) * pageSize

\* Rows move behind the walk only; and none moves ahead of it.
NoneBack  == list = "addresses" \/ shifted \cap {"inserted", "moved", "tied"} = {}
NoneAhead == "removed" \notin shifted /\ (list = "addresses" \/ "tied" \notin shifted)

OnceOK ==
  NoneBack =>
    /\ twice = {}
    /\ \A row \in listRows : row.id \in walked => Rank(row) <= Passed

GoesOn == \/ walkPc \in {"customer", "list", "count"}
          \/ walkPc = "answered" /\ walkAnswer = "page"

MissedOK ==
  first = 1 /\ pageSize > 0 /\ NoneAhead =>
    /\ GoesOn => \A row \in listRows :
                   row.id \in there \ walked => Passed < Rank(row)
    /\ walkPc = "answered" /\ walkAnswer = "page" /\ there \ walked # {} =>
         pageNumber < pageCount

PagesInv == WalkTypeOK /\ IdsOK /\ RequestOK /\ OnceOK /\ MissedOK

----------------------------------------------------------------------------
(* The list in the order of its pages.                                     *)

LEMMA RowType ==
  ASSUME WalkTypeOK, NEW row \in listRows
  PROVE  row.id \in Int /\ row.at \in Int /\ row.id \in 1..MaxRows
BY DEF WalkTypeOK, Rows, Ids

\* Addresses are ordered by their ids, and items that bear different seconds by them.
Strict == list = "addresses" \/ ~Ties

LEMMA OneIsBefore ==
  ASSUME WalkTypeOK, IdsOK, Strict,
         NEW a \in listRows, NEW b \in listRows, a # b, Before(a, b)
  PROVE  ~Before(b, a)
<1>1. /\ a.id \in Int /\ a.at \in Int /\ b.id \in Int /\ b.at \in Int
  BY RowType
<1>2. CASE list = "addresses"
  BY <1>1, <1>2 DEF Before
<1>3. CASE list # "addresses"
  <2>1. a.at # b.at
    BY <1>3 DEF Strict, Ties
  <2>2. QED
    BY <1>1, <1>3, <2>1 DEF Before
<1>4. QED
  BY <1>2, <1>3

\* A sorted list has every row once.
LEMMA SortedList ==
  ASSUME IsFiniteSet(listRows), NEW s \in Sorted
  PROVE  LET n == Cardinality(listRows) IN
         /\ n \in Nat /\ Len(s) = n /\ DOMAIN s = 1..n
         /\ \A i \in 1..n : s[i] \in listRows
         /\ \A i, j \in 1..n : i < j => Before(s[i], s[j])
         /\ \A i, j \in 1..n : i # j => s[i] # s[j]
         /\ \A row \in listRows : \E i \in 1..n : s[i] = row
<1> DEFINE n == Cardinality(listRows)
<1>1. n \in Nat
  BY FS_CardinalityType
<1>2. /\ s \in [1..n -> listRows]
      /\ \A i, j \in 1..n : i # j => s[i] # s[j]
      /\ \A i, j \in DOMAIN s : i < j => Before(s[i], s[j])
  BY DEF Sorted, SetToSeqs
<1>3. DOMAIN s = 1..n /\ \A i \in 1..n : s[i] \in listRows
  BY <1>2
<1>4. Len(s) = n
  <2>1. s \in Seq(listRows)
    BY <1>1, <1>2, SeqDef
  <2>2. QED
    BY <1>1, <1>3, <2>1, LenProperties
<1> HIDE DEF n
<1>5. s \in Surjection(1..n, listRows)
  <2>1. s \in Injection(1..n, listRows)
    BY <1>2, Fun_IsInj
  <2>2. IsFiniteSet(1..n) /\ Cardinality(1..n) = n
    BY <1>1, FS_Interval
  <2>3. QED
    BY <2>1, <2>2, FS_Injection DEF n
<1>6. \A row \in listRows : \E i \in 1..n : s[i] = row
  BY <1>5 DEF Surjection
<1>7. QED
  BY <1>1, <1>2, <1>3, <1>4, <1>6 DEF n

\* The rank of a row is its place in the list.
LEMMA RankIsPlace ==
  ASSUME WalkTypeOK, IdsOK, Strict, NEW s \in Sorted,
         NEW i \in 1..Cardinality(listRows)
  PROVE  Rank(s[i]) = i
<1> DEFINE n == Cardinality(listRows)
<1>1. IsFiniteSet(listRows) /\ i \in 1..n
  BY DEF IdsOK
<1> HIDE DEF n
<1>2. /\ n \in Nat /\ \A j \in 1..n : s[j] \in listRows
      /\ \A j, k \in 1..n : j < k => Before(s[j], s[k])
      /\ \A j, k \in 1..n : j # k => s[j] # s[k]
      /\ \A row \in listRows : \E j \in 1..n : s[j] = row
  BY <1>1, SortedList DEF n
<1>3. \A j \in 1..i : j \in 1..n
  BY <1>1, <1>2
<1>4. \A j \in 1..i : s[j] \in Upto(s[i])
  <2>1. SUFFICES ASSUME NEW j \in 1..i PROVE s[j] \in Upto(s[i])
    OBVIOUS
  <2>2. j = i \/ j < i
    BY <2>1, <1>1
  <2>3. j < i => Before(s[j], s[i])
    BY <1>1, <1>2, <1>3
  <2>4. QED
    BY <1>2, <1>3, <2>2, <2>3 DEF Upto
<1>5. \A row \in Upto(s[i]) : \E j \in 1..i : s[j] = row
  <2>1. SUFFICES ASSUME NEW row \in Upto(s[i]) PROVE \E j \in 1..i : s[j] = row
    OBVIOUS
  <2>2. row \in listRows /\ (row = s[i] \/ Before(row, s[i]))
    BY DEF Upto
  <2>3. PICK j \in 1..n : s[j] = row
    BY <1>2, <2>2
  <2>4. CASE j <= i
    BY <1>1, <1>2, <2>3, <2>4
  <2>5. CASE i < j
    <3>1. Before(s[i], s[j]) /\ s[i] # s[j]
      BY <1>1, <1>2, <2>5
    <3>2. ~Before(row, s[i]) /\ row # s[i]
      BY <1>1, <1>2, <2>2, <2>3, <3>1, OneIsBefore
    <3>3. QED
      BY <2>2, <3>2
  <2>6. QED
    BY <1>1, <1>2, <2>4, <2>5
<1> DEFINE f == [j \in 1..i |-> s[j]]
<1>6. f \in Bijection(1..i, Upto(s[i]))
  <2>1. f \in [1..i -> Upto(s[i])]
    BY <1>4
  <2>2. \A j, k \in 1..i : f[j] = f[k] => j = k
    BY <1>2, <1>3
  <2>3. \A row \in Upto(s[i]) : \E j \in 1..i : f[j] = row
    BY <1>5
  <2> HIDE DEF f
  <2>4. QED
    BY <2>1, <2>2, <2>3, Fun_IsBij
<1>7. ExistsBijection(1..i, Upto(s[i]))
  BY <1>6, Fun_ExistsBij
<1>8. i \in Nat
  BY <1>1, <1>2
<1>9. QED
  BY <1>7, <1>8, FS_CountingElements DEF Rank

LEMMA RankType ==
  ASSUME IsFiniteSet(listRows), NEW row \in listRows
  PROVE  /\ Rank(row) \in Nat /\ 1 <= Rank(row) /\ Rank(row) <= Cardinality(listRows)
         /\ Cardinality(listRows) \in Nat
<1>1. Upto(row) \subseteq listRows /\ {row} \subseteq Upto(row)
  BY DEF Upto
<1>2. IsFiniteSet(Upto(row)) /\ Rank(row) <= Cardinality(listRows)
  BY <1>1, FS_Subset DEF Rank
<1>3. Rank(row) \in Nat /\ Cardinality(listRows) \in Nat
  BY <1>2, FS_CardinalityType DEF Rank
<1>4. Cardinality({row}) = 1 /\ Cardinality({row}) <= Cardinality(Upto(row))
  BY <1>1, <1>2, FS_Subset, FS_Singleton
<1>5. QED
  BY <1>2, <1>3, <1>4 DEF Rank

\* A page shows the rows of its places.
LEMMA PlacesShown ==
  ASSUME WalkTypeOK, IdsOK, Strict, NEW s \in Sorted,
         NEW places \in SUBSET (1..Cardinality(listRows)), NEW row \in listRows
  PROVE  row.id \in {s[i].id : i \in places} <=> Rank(row) \in places
<1> DEFINE n == Cardinality(listRows)
<1>1. IsFiniteSet(listRows) /\ \A i \in places : i \in 1..n
  BY DEF IdsOK
<1>2. PICK k \in 1..n : s[k] = row
  BY <1>1, SortedList
<1>3. Rank(row) = k
  BY <1>2, RankIsPlace
<1>4. \A i \in places : s[i].id = row.id => i = k
  <2>1. \A i \in places : s[i] \in listRows /\ (i # k => s[i] # s[k])
    BY <1>1, <1>2, SortedList
  <2>2. QED
    BY <1>2, <2>1 DEF IdsOK
<1>5. QED
  BY <1>2, <1>3, <1>4

----------------------------------------------------------------------------
(* A page is shown.                                                        *)

LEMMA Offsets ==
  ASSUME NEW number \in Int, NEW length \in Int
  PROVE  /\ number * length \in Int /\ (number - 1) * length \in Int
         /\ (number - 1) * length + length = number * length
         /\ number >= 1 /\ length >= 0 => 0 <= (number - 1) * length
         /\ number < 1 /\ length > 0 => (number - 1) * length < 0
OBVIOUS

Places == {i \in 1..Cardinality(listRows) :
             (pageNumber - 1) * pageSize < i /\ i <= pageNumber * pageSize}

LEMMA PageShown ==
  ASSUME PagesInv, walkPc = "list", pageSize >= 0, Strict,
         NEW s \in Sorted, Show({s[i].id : i \in Places})
  PROVE  /\ NoneBack =>
              /\ twice' = {}
              /\ \A row \in listRows :
                   row.id \in walked' => Rank(row) <= pageNumber * pageSize
         /\ first = 1 /\ pageSize > 0 /\ NoneAhead =>
              \A row \in listRows :
                row.id \in there \ walked' => pageNumber * pageSize < Rank(row)
<1> DEFINE ids == {s[i].id : i \in Places}
           below == (pageNumber - 1) * pageSize
           upto == pageNumber * pageSize
<1>1. /\ walked' = walked \cup ids /\ twice' = twice \cup (walked \cap ids)
  BY DEF Show
<1>2. /\ below \in Int /\ upto \in Int /\ below <= upto
  BY Offsets DEF PagesInv, WalkTypeOK
<1>3. \A row \in listRows : Rank(row) \in 1..Cardinality(listRows)
  BY RankType DEF PagesInv, IdsOK
<1>4. \A row \in listRows : row.id \in ids <=> below < Rank(row) /\ Rank(row) <= upto
  <2>1. Places \in SUBSET (1..Cardinality(listRows))
    BY DEF Places
  <2>2. \A row \in listRows : row.id \in ids <=> Rank(row) \in Places
    BY <2>1, PlacesShown DEF PagesInv
  <2>3. QED
    BY <1>3, <2>2 DEF Places
<1>5. \A id \in ids : \E row \in listRows : row.id = id
  <2>1. \A i \in Places : s[i] \in listRows
    BY SortedList DEF PagesInv, IdsOK, Places
  <2>2. QED
    BY <2>1
<1>6. Passed = below
  BY DEF Passed
<1> HIDE DEF ids, below, upto
<1>7. \A row \in listRows : Rank(row) \in Int
  BY <1>3
<1>8. ASSUME NoneBack
      PROVE  twice' = {} /\ \A row \in listRows : row.id \in walked' => Rank(row) <= upto
  <2>1. twice = {} /\ \A row \in listRows : row.id \in walked => Rank(row) <= below
    BY <1>6, <1>8 DEF PagesInv, OnceOK
  <2>2. walked \cap ids = {}
    BY <1>2, <1>4, <1>5, <1>7, <2>1
  <2>3. QED
    BY <1>1, <1>2, <1>4, <1>7, <2>1, <2>2
<1>9. ASSUME first = 1, pageSize > 0, NoneAhead
      PROVE  \A row \in listRows : row.id \in there \ walked' => upto < Rank(row)
  <2>1. \A row \in listRows : row.id \in there \ walked => below < Rank(row)
    BY <1>6, <1>9 DEF PagesInv, MissedOK, GoesOn
  <2>2. QED
    BY <1>1, <1>2, <1>4, <1>7, <2>1
<1>10. QED
  BY <1>8, <1>9 DEF upto

----------------------------------------------------------------------------
(* The list changes.                                                       *)

LEMMA IdFacts ==
  ASSUME WalkTypeOK, IdsOK
  PROVE  /\ nextRow \in Int /\ \A row \in listRows : row.id \in Int /\ row.id < nextRow
         /\ \A id \in there : \E row \in listRows : row.id = id
         /\ \A id \in walked \cup there : id \in Int /\ id < nextRow
<1>1. nextRow \in Int /\ walked \subseteq Int /\ MaxRows \in Nat
  BY DEF WalkTypeOK, Ids
<1>2. \A id \in there : \E row \in listRows : row.id = id
  BY DEF IdsOK, IdsIn
<1>3. \A row \in listRows : row.id \in Int /\ row.id < nextRow
  BY RowType DEF IdsOK
<1>4. QED
  BY <1>1, <1>2, <1>3 DEF IdsOK

LEMMA SameRanks ==
  ASSUME UNCHANGED <<listRows, list>>
  PROVE  \A row \in listRows : Rank(row)' = Rank(row)
BY DEF Rank, Upto, Before

\* A new row moves none that was there ahead, and no address at all.
LEMMA InsertRanks ==
  ASSUME WalkTypeOK, IdsOK, list' = list,
         NEW new, listRows' = listRows \cup {new}, new.id = nextRow, NEW row \in listRows
  PROVE  /\ Rank(row) <= Rank(row)'
         /\ list = "addresses" => Rank(row)' = Rank(row)
<1>1. IsFiniteSet(listRows') /\ IsFiniteSet(listRows)
  BY FS_AddElement DEF IdsOK
<1>2. \A a, b : Before(a, b)' = Before(a, b)
  BY DEF Before
<1>3. Upto(row) \subseteq Upto(row)' /\ Upto(row)' \subseteq listRows'
  BY <1>2 DEF Upto
<1>4. IsFiniteSet(Upto(row)')
  BY <1>1, <1>3, FS_Subset
<1>5. Cardinality(Upto(row)) <= Cardinality(Upto(row)')
  BY <1>3, <1>4, FS_Subset
<1>6. ASSUME list = "addresses" PROVE Upto(row)' = Upto(row)
  <2>1. nextRow \in Int /\ row.id \in Int /\ row.id < nextRow
    BY IdFacts
  <2>2. new # row /\ ~Before(new, row)
    BY <1>6, <2>1 DEF Before
  <2>3. QED
    BY <1>2, <2>2 DEF Upto
<1>7. QED
  BY <1>5, <1>6 DEF Rank

LEMMA InsertStep ==
  ASSUME PagesInv, InsertRow
  PROVE  PagesInv'
<1> USE DEF PagesInv
<1>1. PICK at \in Ids : listRows' = listRows \cup {[id |-> nextRow, at |-> at]}
  BY DEF InsertRow, Seconds
<1> DEFINE new == [id |-> nextRow, at |-> at]
<1>2. /\ nextRow <= MaxRows /\ nextRow' = nextRow + 1
      /\ shifted' = IF walkPc = "idle" THEN shifted ELSE shifted \cup {"inserted"}
      /\ UNCHANGED <<list, pageSize, pageNumber, first, pageCount, walkAnswer, walked,
                     twice, walkPc, there>>
  BY DEF InsertRow, Shift, walk
<1>3. /\ nextRow \in Int /\ \A row \in listRows : row.id \in Int /\ row.id < nextRow
      /\ \A id \in walked \cup there : id \in Int /\ id < nextRow
  BY IdFacts
<1>4. /\ MaxRows \in Nat /\ nextRow \in 1..(MaxRows + 1)
  BY DEF WalkTypeOK
<1>5. new \in Rows /\ new.id = nextRow
  BY <1>2, <1>4 DEF Rows, Ids
<1>6. \A row \in listRows : /\ Rank(row) <= Rank(row)'
                            /\ list = "addresses" => Rank(row)' = Rank(row)
  BY <1>1, <1>2, <1>5, InsertRanks
<1> HIDE DEF new
<1>7. listRows' = listRows \cup {new}
  BY <1>1 DEF new
<1>8. WalkTypeOK'
  <2>1. nextRow' \in 1..(MaxRows + 1)
    BY <1>2, <1>4
  <2>2. listRows' \subseteq Rows /\ shifted' \subseteq Shifts
    BY <1>2, <1>5, <1>7 DEF WalkTypeOK, Shifts
  <2>3. QED
    BY <1>2, <2>1, <2>2 DEF WalkTypeOK
<1>9. IdsOK'
  <2>1. IsFiniteSet(listRows')
    BY <1>7, FS_AddElement DEF IdsOK
  <2>2. \A row \in listRows' : row.id < nextRow'
    BY <1>2, <1>3, <1>5, <1>7
  <2>3. \A a, b \in listRows' : a.id = b.id => a = b
    BY <1>3, <1>5, <1>7 DEF IdsOK
  <2>4. \A id \in walked' : id < nextRow'
    BY <1>2, <1>3
  <2>5. there' \subseteq IdsIn(listRows)'
    BY <1>2, <1>7 DEF IdsOK, IdsIn
  <2>6. QED
    BY <2>1, <2>2, <2>3, <2>4, <2>5 DEF IdsOK
<1>10. RequestOK'
  BY <1>2 DEF RequestOK
<1>11. Passed' = Passed
  BY <1>2 DEF Passed
<1>12. new.id \notin walked \cup there
  BY <1>3, <1>5
<1>13. OnceOK'
  <2>1. CASE walkPc = "idle"
    BY <1>2, <2>1 DEF RequestOK, OnceOK
  <2>2. CASE walkPc # "idle" /\ list = "addresses"
    BY <1>2, <1>6, <1>7, <1>11, <1>12, <2>2 DEF OnceOK, NoneBack
  <2>3. CASE walkPc # "idle" /\ list # "addresses"
    BY <1>2, <2>3 DEF OnceOK, NoneBack
  <2>4. QED
    BY <2>1, <2>2, <2>3
<1>14. MissedOK'
  <2>1. /\ GoesOn' <=> GoesOn
        /\ NoneAhead' => NoneAhead
    BY <1>2 DEF GoesOn, NoneAhead
  <2>2. Passed \in Int /\ \A row \in listRows : Rank(row) \in Int /\ Rank(row)' \in Int
    <3>1. Passed \in Int
      BY Offsets DEF Passed, WalkTypeOK
    <3>2. \A row \in listRows : Rank(row) \in Int
      BY RankType DEF IdsOK
    <3>3. \A row \in listRows : Rank(row)' \in Int
      <4>1. IsFiniteSet(listRows')
        BY <1>9 DEF IdsOK
      <4>2. ASSUME NEW row \in listRows PROVE Cardinality(Upto(row)') \in Nat
        <5>1. Upto(row)' \subseteq listRows'
          BY DEF Upto
        <5>2. QED
          BY <4>1, <5>1, FS_Subset, FS_CardinalityType
      <4>3. QED
        BY <4>2 DEF Rank
    <3>4. QED
      BY <3>1, <3>2, <3>3
  <2>3. ASSUME first = 1, pageSize > 0, NoneAhead, GoesOn,
               NEW row \in listRows', row.id \in there \ walked
        PROVE  Passed < Rank(row)'
    <3>1. row \in listRows
      BY <1>7, <1>12, <2>3
    <3>2. Passed < Rank(row)
      BY <2>3, <3>1 DEF MissedOK
    <3>3. QED
      BY <1>6, <2>2, <3>1, <3>2
  <2>4. QED
    BY <1>2, <1>11, <2>1, <2>3 DEF MissedOK
<1>15. QED
  BY <1>8, <1>9, <1>10, <1>13, <1>14

\* An item that goes to the front moves none of the others ahead.
LEMMA MoveRanks ==
  ASSUME WalkTypeOK, IdsOK, list = "items_v2", list' = list,
         NEW old \in listRows, NEW new, new.id = old.id,
         \A a \in listRows : a.at <= new.at,
         listRows' = (listRows \ {old}) \cup {new},
         NEW row \in listRows, row # old
  PROVE  Rank(row) <= Rank(row)' /\ Rank(row) \in Int /\ Rank(row)' \in Int
<1>1. \A a, b : Before(a, b)' = Before(a, b)
  BY DEF Before
<1>2. Before(new, row)
  BY RowType DEF Before
<1>3. Upto(row)' = (Upto(row) \ {old}) \cup {new}
  BY <1>1, <1>2 DEF Upto
<1>4. IsFiniteSet(Upto(row)) /\ Upto(row) \subseteq listRows
  <2>1. Upto(row) \subseteq listRows
    BY DEF Upto
  <2>2. QED
    BY <2>1, FS_Subset DEF IdsOK
<1> DEFINE before == Upto(row)  stay == before \ {old}
<1>5. new \notin stay
  <2>1. ASSUME new \in listRows PROVE new = old
    BY <2>1 DEF IdsOK
  <2>2. QED
    BY <1>4, <2>1
<1>6. IsFiniteSet(stay) /\ IsFiniteSet(before) /\ Upto(row)' = stay \cup {new}
  BY <1>3, <1>4, FS_RemoveElement
<1> HIDE DEF stay, before
<1>7. /\ Cardinality(stay) \in Nat /\ Cardinality(before) \in Nat
      /\ Cardinality(stay \cup {new}) = Cardinality(stay) + 1
  BY <1>5, <1>6, FS_CardinalityType, FS_AddElement
<1>8. Cardinality(before) <= Cardinality(stay) + 1
  <2>1. CASE old \in before
    BY <1>6, <1>7, <2>1, FS_RemoveElement DEF stay
  <2>2. CASE old \notin before
    <3>1. stay = before
      BY <2>2 DEF stay
    <3>2. QED
      BY <1>7, <3>1
  <2>3. QED
    BY <2>1, <2>2
<1>9. QED
  BY <1>6, <1>7, <1>8 DEF Rank, before

LEMMA MoveStep ==
  ASSUME PagesInv, MoveRow
  PROVE  PagesInv'
<1> USE DEF PagesInv
<1>1. PICK old \in listRows, at \in Seconds :
        /\ listRows' = (listRows \ {old}) \cup {[id |-> old.id, at |-> at]}
        /\ there' = there \ {old.id}
  BY DEF MoveRow
<1> DEFINE new == [id |-> old.id, at |-> at]
<1>2. /\ list = "items_v2"
      /\ shifted' = IF walkPc = "idle" THEN shifted ELSE shifted \cup {"moved"}
      /\ UNCHANGED <<list, pageSize, pageNumber, first, pageCount, walkAnswer, walked,
                     twice, walkPc, nextRow>>
  BY DEF MoveRow, Shift, walk
<1>3. new \in Rows /\ new.id = old.id /\ \A a \in listRows : a.at <= new.at
  <2>1. at \in Ids /\ \A a \in listRows : a.at <= at
    BY DEF Seconds
  <2>2. old.id \in Ids
    BY DEF WalkTypeOK, Rows
  <2>3. QED
    BY <2>1, <2>2 DEF Rows
<1> HIDE DEF new
<1>4. listRows' = (listRows \ {old}) \cup {new}
  BY <1>1 DEF new
<1>5. WalkTypeOK'
  <2>1. listRows' \subseteq Rows /\ shifted' \subseteq Shifts /\ there' \subseteq Ids
    BY <1>1, <1>2, <1>3, <1>4 DEF WalkTypeOK, Shifts
  <2>2. QED
    BY <1>2, <2>1 DEF WalkTypeOK
<1>6. IdsOK'
  <2>1. IsFiniteSet(listRows')
    BY <1>4, FS_AddElement, FS_RemoveElement DEF IdsOK
  <2>2. \A row \in listRows' : row.id < nextRow
    BY <1>3, <1>4 DEF IdsOK
  <2>3. \A a, b \in listRows' : a.id = b.id => a = b
    BY <1>3, <1>4 DEF IdsOK
  <2>4. there' \subseteq IdsIn(listRows)'
    BY <1>1, <1>4 DEF IdsOK, IdsIn
  <2>5. QED
    BY <1>2, <2>1, <2>2, <2>3, <2>4 DEF IdsOK
<1>7. RequestOK'
  BY <1>1, <1>2 DEF RequestOK
<1>8. Passed' = Passed /\ Passed \in Int
  BY <1>2, Offsets DEF Passed, WalkTypeOK
<1>9. OnceOK'
  <2>1. CASE walkPc = "idle"
    BY <1>2, <2>1 DEF RequestOK, OnceOK
  <2>2. CASE walkPc # "idle"
    BY <1>2, <2>2 DEF OnceOK, NoneBack
  <2>3. QED
    BY <2>1, <2>2
<1>10. MissedOK'
  <2>1. /\ GoesOn' <=> GoesOn
        /\ NoneAhead' => NoneAhead
    BY <1>2 DEF GoesOn, NoneAhead
  <2>2. ASSUME first = 1, pageSize > 0, NoneAhead, GoesOn,
               NEW row \in listRows', row.id \in there' \ walked
        PROVE  Passed < Rank(row)'
    <3>1. row \in listRows /\ row # old /\ row.id \in there \ walked
      BY <1>1, <1>3, <1>4, <2>2
    <3>2. Passed < Rank(row)
      BY <2>2, <3>1 DEF MissedOK
    <3>3. Rank(row) <= Rank(row)' /\ Rank(row) \in Int /\ Rank(row)' \in Int
      BY <1>2, <1>3, <1>4, <3>1, MoveRanks
    <3>4. QED
      BY <1>8, <3>2, <3>3
  <2>3. (there \ walked = {}) => (there' \ walked' = {})
    BY <1>1, <1>2
  <2>4. QED
    BY <1>2, <1>8, <2>1, <2>2, <2>3 DEF MissedOK
<1>11. QED
  BY <1>5, <1>6, <1>7, <1>9, <1>10

LEMMA RemoveRanks ==
  ASSUME IsFiniteSet(listRows), list' = list, listRows' \subseteq listRows,
         NEW row \in listRows'
  PROVE  Rank(row)' <= Rank(row) /\ Rank(row)' \in Int /\ Rank(row) \in Int
<1>1. \A a, b : Before(a, b)' = Before(a, b)
  BY DEF Before
<1>2. Upto(row)' \subseteq Upto(row) /\ Upto(row) \subseteq listRows
  BY <1>1 DEF Upto
<1>3. IsFiniteSet(Upto(row))
  BY <1>2, FS_Subset
<1>4. IsFiniteSet(Upto(row)') /\ Cardinality(Upto(row)') <= Cardinality(Upto(row))
  BY <1>2, <1>3, FS_Subset
<1>5. Cardinality(Upto(row)') \in Nat /\ Cardinality(Upto(row)) \in Nat
  BY <1>3, <1>4, FS_CardinalityType
<1>6. QED
  BY <1>4, <1>5 DEF Rank

LEMMA RemoveStep ==
  ASSUME PagesInv, RemoveRow
  PROVE  PagesInv'
<1> USE DEF PagesInv
<1>1. PICK gone \in listRows : listRows' = listRows \ {gone} /\ there' = there \ {gone.id}
  BY DEF RemoveRow
<1>2. /\ shifted' = IF walkPc = "idle" THEN shifted ELSE shifted \cup {"removed"}
      /\ UNCHANGED <<list, pageSize, pageNumber, first, pageCount, walkAnswer, walked,
                     twice, walkPc, nextRow>>
  BY DEF RemoveRow, Shift, walk
<1>3. WalkTypeOK'
  <2>1. /\ listRows' \subseteq Rows /\ shifted' \subseteq Shifts
        /\ there' \subseteq Ids
    BY <1>1, <1>2 DEF WalkTypeOK, Shifts
  <2>2. QED
    BY <1>2, <2>1 DEF WalkTypeOK
<1>4. IdsOK'
  <2>1. IsFiniteSet(listRows')
    BY <1>1, FS_RemoveElement DEF IdsOK
  <2>2. there' \subseteq IdsIn(listRows)'
    BY <1>1 DEF IdsOK, IdsIn
  <2>3. QED
    BY <1>1, <1>2, <2>1, <2>2 DEF IdsOK
<1>5. RequestOK'
  BY <1>1, <1>2 DEF RequestOK
<1>6. Passed' = Passed /\ Passed \in Int
  BY <1>2, Offsets DEF Passed, WalkTypeOK
<1>7. OnceOK'
  <2>1. NoneBack' => NoneBack
    BY <1>2 DEF NoneBack
  <2>2. \A row \in listRows' : /\ Rank(row)' <= Rank(row) /\ Rank(row)' \in Int
                               /\ Rank(row) \in Int
    BY <1>1, <1>2, RemoveRanks DEF IdsOK
  <2>3. ASSUME NoneBack, NEW row \in listRows', row.id \in walked
        PROVE  Rank(row)' <= Passed
    <3>1. Rank(row) <= Passed
      BY <1>1, <2>3 DEF OnceOK
    <3>2. QED
      BY <1>6, <2>2, <3>1
  <2>4. QED
    BY <1>2, <1>6, <2>1, <2>3 DEF OnceOK
<1>8. MissedOK'
  BY <1>1, <1>2 DEF MissedOK, NoneAhead, GoesOn, RequestOK
<1>9. QED
  BY <1>3, <1>4, <1>5, <1>7, <1>8

----------------------------------------------------------------------------
(* The client, and the handlers.                                           *)

LEMMA PagesInit == WalkInit => PagesInv
<1> SUFFICES ASSUME WalkInit PROVE PagesInv
  OBVIOUS
<1>1. /\ listRows = {} /\ nextRow = 1 /\ list \in Lists /\ walkPc = "idle"
      /\ pageSize = 0 /\ pageNumber = 0 /\ first = 0 /\ pageCount = 0 /\ walkAnswer = "none"
      /\ walked = {} /\ twice = {} /\ there = {} /\ shifted = {}
  BY DEF WalkInit
<1>2. MaxRows \in Nat
  OBVIOUS
<1>3. WalkTypeOK
  BY <1>1, <1>2 DEF WalkTypeOK, Labels, Answers
<1>4. IdsOK
  BY <1>1, FS_EmptySet DEF IdsOK
<1>5. RequestOK /\ OnceOK /\ MissedOK
  BY <1>1 DEF RequestOK, OnceOK, MissedOK
<1>6. QED
  BY <1>3, <1>4, <1>5 DEF PagesInv

\* Steps of the client and of the handlers leave the list as it is.
LEMMA ListStays ==
  ASSUME PagesInv, UNCHANGED <<listRows, nextRow, list>>
  PROVE  \A row \in listRows : /\ Rank(row)' = Rank(row) /\ Rank(row) \in Nat
                               /\ 1 <= Rank(row)
BY SameRanks, RankType DEF PagesInv, IdsOK

LEMMA BeginStep ==
  ASSUME PagesInv, Begin
  PROVE  PagesInv'
<1> USE DEF PagesInv
<1>1. PICK s \in Sizes, n \in Numbers : Request(s, n)
  BY DEF Begin
<1>2. /\ first' = pageNumber' /\ there' = IdsIn(listRows)
      /\ pageCount' = 0 /\ walkAnswer' = "none" /\ walked' = {} /\ twice' = {}
      /\ shifted' = {} /\ UNCHANGED <<listRows, nextRow, list>>
  BY DEF Begin
<1>3. s \in Int /\ n \in Int /\ DefaultSize \in Nat \ {0}
  OBVIOUS
<1>4. /\ pageSize' \in Int /\ pageNumber' \in Int /\ walkPc' \in {"customer", "list"}
      /\ list = "items_v2" => walkPc' = "list" /\ pageSize' > 0 /\ pageNumber' > 0
  <2>1. CASE list = "items_v2"
    BY <1>1, <1>3, <2>1 DEF Request, Clamped
  <2>2. CASE list # "items_v2"
    BY <1>1, <1>3, <2>2 DEF Request
  <2>3. QED
    BY <2>1, <2>2
<1>5. WalkTypeOK'
  <2>1. there' \subseteq Ids
    BY <1>2 DEF WalkTypeOK, IdsIn, Rows
  <2>2. walkPc' = "customer" => list = "addresses"
    BY <1>4 DEF WalkTypeOK
  <2>3. QED
    BY <1>2, <1>4, <2>1, <2>2 DEF WalkTypeOK, Labels, Answers
<1>6. IdsOK'
  BY <1>2 DEF IdsOK, IdsIn
<1>7. RequestOK' /\ OnceOK'
  BY <1>2, <1>4 DEF RequestOK, OnceOK
<1>8. MissedOK'
  <2>1. ASSUME first' = 1, NEW row \in listRows' PROVE Passed' < Rank(row)'
    <3>1. Rank(row)' \in Nat /\ 1 <= Rank(row)'
      BY <1>2, ListStays
    <3>2. pageNumber' - 1 = 0
      BY <1>2, <2>1
    <3>3. Passed' = 0 * pageSize'
      BY <1>4, <3>2 DEF Passed
    <3>4. QED
      BY <1>4, <3>1, <3>3
  <2>2. QED
    BY <1>2, <1>4, <2>1 DEF MissedOK
<1>9. QED
  BY <1>5, <1>6, <1>7, <1>8

LEMMA NextPageStep ==
  ASSUME PagesInv, NextPage
  PROVE  PagesInv'
<1> USE DEF PagesInv
<1>1. /\ walkPc = "answered" /\ walkAnswer = "page" /\ Request(pageSize, pageNumber + 1)
      /\ UNCHANGED <<listRows, nextRow, list, first, pageCount, walkAnswer, walked, twice,
                     there, shifted>>
  BY DEF NextPage
<1>2. pageSize \in Int /\ pageNumber \in Int
  BY DEF WalkTypeOK
<1>3. /\ pageSize' = pageSize /\ pageNumber' = pageNumber + 1
      /\ walkPc' \in {"customer", "list"} /\ (list = "items_v2" => walkPc' = "list")
  <2>1. CASE list = "items_v2"
    <3>1. pageSize > 0 /\ pageNumber > 0
      BY <1>1, <2>1 DEF RequestOK
    <3>2. QED
      BY <1>1, <1>2, <2>1, <3>1 DEF Request, Clamped
  <2>2. CASE list # "items_v2"
    BY <1>1, <2>2 DEF Request
  <2>3. QED
    BY <2>1, <2>2
<1>4. WalkTypeOK'
  <2>1. walkPc' = "customer" => list = "addresses"
    BY <1>3 DEF WalkTypeOK
  <2>2. QED
    BY <1>1, <1>2, <1>3, <2>1 DEF WalkTypeOK, Labels
<1>5. IdsOK'
  BY <1>1 DEF IdsOK, IdsIn
<1>6. RequestOK'
  BY <1>1, <1>2, <1>3 DEF RequestOK
<1>7. Passed' = Passed
  <2>1. Passed = pageNumber * pageSize
    BY <1>1 DEF Passed
  <2>2. Passed' = ((pageNumber + 1) - 1) * pageSize
    BY <1>3 DEF Passed
  <2>3. (pageNumber + 1) - 1 = pageNumber
    BY <1>2
  <2>4. QED
    BY <2>1, <2>2, <2>3
<1>8. \A row \in listRows : Rank(row)' = Rank(row)
  BY <1>1, ListStays
<1>9. OnceOK' /\ MissedOK'
  BY <1>1, <1>3, <1>7, <1>8 DEF OnceOK, MissedOK, NoneBack, NoneAhead, GoesOn
<1>10. QED
  BY <1>4, <1>5, <1>6, <1>9

LEMMA LeaveStep ==
  ASSUME PagesInv, Leave
  PROVE  PagesInv'
<1> USE DEF PagesInv
<1>1. /\ walkPc' = "idle" /\ walkAnswer' = "none" /\ pageCount' = 0 /\ pageSize' = 0
      /\ pageNumber' = 0 /\ first' = 0 /\ walked' = {} /\ twice' = {} /\ there' = {}
      /\ shifted' = {} /\ UNCHANGED <<listRows, nextRow, list>>
  BY DEF Leave
<1>2. WalkTypeOK' /\ IdsOK'
  BY <1>1 DEF WalkTypeOK, Labels, Answers, IdsOK
<1>3. RequestOK' /\ OnceOK' /\ MissedOK'
  BY <1>1 DEF RequestOK, OnceOK, MissedOK
<1>4. QED
  BY <1>2, <1>3

\* The position of a walk once its page is read.
LEMMA PassedFacts ==
  ASSUME PagesInv
  PROVE  /\ Passed \in Int /\ pageNumber * pageSize \in Int
         /\ pageSize >= 0 => Passed <= pageNumber * pageSize
         /\ walkPc \in {"customer", "list"} => Passed = (pageNumber - 1) * pageSize
BY Offsets DEF Passed, PagesInv, WalkTypeOK

LEMMA FailStep ==
  ASSUME PagesInv, Fail
  PROVE  PagesInv'
<1> USE DEF PagesInv
<1>1. /\ walkPc \in {"customer", "list", "count"} /\ walkPc' = "answered" /\ walkAnswer' = "error"
      /\ UNCHANGED <<listRows, nextRow, list, pageSize, pageNumber, first, pageCount, walked,
                     twice, there, shifted>>
  BY DEF Fail, Answer
<1>2. WalkTypeOK' /\ IdsOK'
  BY <1>1 DEF WalkTypeOK, Labels, Answers, IdsOK, IdsIn
<1>3. RequestOK'
  BY <1>1 DEF RequestOK
<1>4. OnceOK'
  <2>1. Passed' = pageNumber * pageSize
    BY <1>1 DEF Passed
  <2>2. ASSUME NoneBack, NEW row \in listRows, row.id \in walked
        PROVE  Rank(row)' <= Passed'
    <3>1. Rank(row)' = Rank(row) /\ Rank(row) \in Int /\ Rank(row) <= Passed
      BY <1>1, <2>2, ListStays DEF OnceOK
    <3>2. pageSize >= 0
      BY <2>2 DEF RequestOK, WalkTypeOK
    <3>3. QED
      BY <2>1, <3>1, <3>2, PassedFacts
  <2>3. QED
    BY <1>1, <2>2 DEF OnceOK, NoneBack
<1>5. MissedOK'
  BY <1>1 DEF MissedOK, GoesOn
<1>6. QED
  BY <1>2, <1>3, <1>4, <1>5

LEMMA ReadCustomerStep ==
  ASSUME PagesInv, ReadCustomer
  PROVE  PagesInv'
<1> USE DEF PagesInv
<1>1. /\ walkPc = "customer" /\ walkPc' = "list"
      /\ UNCHANGED <<listRows, nextRow, list, pageSize, pageNumber, first, pageCount,
                     walkAnswer, walked, twice, there, shifted>>
  BY DEF ReadCustomer, walk
<1>2. WalkTypeOK' /\ IdsOK'
  BY <1>1 DEF WalkTypeOK, Labels, IdsOK, IdsIn
<1>3. RequestOK' /\ Passed' = Passed
  BY <1>1 DEF RequestOK, Passed
<1>4. \A row \in listRows : Rank(row)' = Rank(row)
  BY <1>1, ListStays
<1>5. OnceOK' /\ MissedOK'
  BY <1>1, <1>3, <1>4 DEF OnceOK, MissedOK, NoneBack, NoneAhead, GoesOn
<1>6. QED
  BY <1>2, <1>3, <1>5

\* Items: the rows of the page, in places that LIMIT and OFFSET name.
LEMMA SelectItemsStep ==
  ASSUME PagesInv, SelectItems
  PROVE  PagesInv'
<1> USE DEF PagesInv
<1>1. PICK s \in Sorted :
        Show({s[i].id : i \in {j \in DOMAIN s : Offset < j /\ j <= Offset + pageSize}})
  BY DEF SelectItems
<1>2. /\ walkPc = "list" /\ list = "items_v2" /\ walkPc' = "count"
      /\ shifted' = IF Ties THEN shifted \cup {"tied"} ELSE shifted
      /\ UNCHANGED <<listRows, nextRow, list, pageSize, pageNumber, first, pageCount,
                     walkAnswer, there>>
  BY DEF SelectItems
<1>3. pageSize \in Int /\ pageNumber \in Int /\ pageSize > 0 /\ pageNumber > 0
  BY <1>2 DEF RequestOK, WalkTypeOK
<1>4. {j \in DOMAIN s : Offset < j /\ j <= Offset + pageSize} = Places
  <2>1. DOMAIN s = 1..Cardinality(listRows)
    BY SortedList DEF IdsOK
  <2>2. Offset + pageSize = pageNumber * pageSize /\ Offset = (pageNumber - 1) * pageSize
    BY <1>3, Offsets DEF Offset
  <2>3. QED
    BY <2>1, <2>2 DEF Places
<1>5. Show({s[i].id : i \in Places})
  BY <1>1, <1>4
<1>6. walked' \subseteq walked \cup IdsIn(listRows) /\ twice' \subseteq walked'
  BY <1>5, SortedList DEF Show, Places, IdsOK, IdsIn, WalkTypeOK
<1>7. WalkTypeOK'
  <2>1. walked' \subseteq Ids
    BY <1>6 DEF WalkTypeOK, IdsIn, Rows
  <2>2. shifted' \subseteq Shifts
    BY <1>2 DEF WalkTypeOK, Shifts
  <2>3. QED
    BY <1>2, <1>3, <1>6, <2>1, <2>2 DEF WalkTypeOK, Labels
<1>8. IdsOK'
  BY <1>2, <1>6 DEF IdsOK, IdsIn
<1>9. RequestOK'
  BY <1>2, <1>3 DEF RequestOK
<1>10. Passed' = pageNumber * pageSize
  BY <1>2 DEF Passed
<1>11. \A row \in listRows : Rank(row)' = Rank(row)
  BY <1>2, ListStays
<1>12. CASE Ties
  <2>1. "tied" \in shifted' /\ list' # "addresses"
    BY <1>2, <1>12
  <2>2. OnceOK' /\ MissedOK'
    BY <2>1 DEF OnceOK, MissedOK, NoneBack, NoneAhead
  <2>3. QED
    BY <1>7, <1>8, <1>9, <2>2
<1>13. CASE ~Ties
  <2>1. (NoneBack' <=> NoneBack) /\ (NoneAhead' <=> NoneAhead)
    BY <1>2, <1>13 DEF NoneBack, NoneAhead
  <2>2. /\ NoneBack =>
             /\ twice' = {}
             /\ \A row \in listRows : row.id \in walked' => Rank(row) <= pageNumber * pageSize
        /\ first = 1 /\ pageSize > 0 /\ NoneAhead =>
             \A row \in listRows :
               row.id \in there \ walked' => pageNumber * pageSize < Rank(row)
    BY <1>2, <1>3, <1>5, <1>13, PageShown DEF Strict
  <2>3. OnceOK' /\ MissedOK'
    BY <1>2, <1>10, <1>11, <2>1, <2>2 DEF OnceOK, MissedOK
  <2>4. QED
    BY <1>7, <1>8, <1>9, <2>3
<1>14. QED
  BY <1>12, <1>13

\* A row that is behind the page makes another page.
LEMMA MorePages ==
  ASSUME NEW number \in Int, NEW length \in Int, NEW n \in Int,
         length > 0, number >= 1, number * length < n
  PROVE  number < (n + length - 1) \div length /\ (n + length - 1) \div length # 0
<1>1. (n + length - 1) \div length > number /\ (n + length - 1) \div length \in Int
  OBVIOUS
<1>2. QED
  BY <1>1

LEMMA MissingMeansMore ==
  ASSUME PagesInv, NEW id \in there,
         \A row \in listRows : row.id = id => pageNumber * pageSize < Rank(row)
  PROVE  pageNumber * pageSize < Cardinality(listRows) /\ Cardinality(listRows) \in Nat
<1>1. PICK row \in listRows : row.id = id
  BY DEF PagesInv, IdsOK, IdsIn
<1>2. /\ Rank(row) \in Nat /\ Rank(row) <= Cardinality(listRows)
      /\ Cardinality(listRows) \in Nat
  BY RankType DEF PagesInv, IdsOK
<1>3. QED
  BY <1>1, <1>2, PassedFacts

LEMMA CountRowsStep ==
  ASSUME PagesInv, CountRows
  PROVE  PagesInv'
<1> USE DEF PagesInv
<1> DEFINE pages == (Cardinality(listRows) + pageSize - 1) \div pageSize
<1>1. pageCount' = IF pages = 0 THEN 1 ELSE pages
  BY DEF CountRows
<1>2. /\ walkPc = "count" /\ walkPc' = "answered" /\ walkAnswer' = "page"
      /\ UNCHANGED <<listRows, nextRow, list, pageSize, pageNumber, first, walked, twice,
                     there, shifted>>
  BY DEF CountRows, Answer
<1>3. /\ pageSize \in Int /\ pageNumber \in Int /\ pageSize > 0 /\ pageNumber > 0
      /\ Cardinality(listRows) \in Nat
  BY <1>2, FS_CardinalityType DEF RequestOK, WalkTypeOK, IdsOK
<1>4. pages \in Int
  BY <1>3
<1>5. ASSUME pageNumber * pageSize < Cardinality(listRows) PROVE pageNumber < pageCount'
  <2>1. pageNumber < pages /\ pages # 0
    BY <1>3, <1>5, MorePages
  <2>2. QED
    BY <1>1, <2>1
<1> HIDE DEF pages
<1>6. WalkTypeOK' /\ IdsOK'
  BY <1>1, <1>2, <1>4 DEF WalkTypeOK, Labels, Answers, IdsOK, IdsIn
<1>7. RequestOK' /\ Passed' = Passed /\ Passed = pageNumber * pageSize
  BY <1>2 DEF RequestOK, Passed
<1>8. \A row \in listRows : Rank(row)' = Rank(row)
  BY <1>2, ListStays
<1>9. OnceOK'
  BY <1>2, <1>7, <1>8 DEF OnceOK, NoneBack
<1>10. MissedOK'
  <2>1. ASSUME first = 1, pageSize > 0, NoneAhead
        PROVE  \A row \in listRows : row.id \in there \ walked => Passed < Rank(row)
    BY <1>2, <2>1 DEF MissedOK, GoesOn
  <2>2. ASSUME first = 1, pageSize > 0, NoneAhead, NEW id \in there \ walked
        PROVE  pageNumber < pageCount'
    BY <1>5, <1>7, <2>1, <2>2, MissingMeansMore
  <2>3. QED
    BY <1>2, <1>7, <1>8, <2>1, <2>2 DEF MissedOK, NoneAhead
<1>11. QED
  BY <1>6, <1>7, <1>9, <1>10

\* Addresses: the slice of the list is the page, or out of range for numbers below.
LEMMA SlicedPage ==
  ASSUME NEW number \in Int, NEW length \in Int, NEW n \in Nat,
         NEW start, start = AtMost((number - 1) * length, n),
         NEW end, end = AtMost(start + length, n)
  PROVE  /\ 0 <= start /\ start <= end =>
              /\ length >= 0
              /\ (start + 1)..end =
                   {i \in 1..n : (number - 1) * length < i /\ i <= number * length}
         /\ ~(0 <= start /\ start <= end) => number < 1 \/ length < 0
<1> DEFINE below == (number - 1) * length
           upto  == number * length
<1>1. /\ below \in Int /\ upto \in Int /\ below + length = upto
      /\ number >= 1 /\ length >= 0 => 0 <= below
  BY Offsets
<1>2. start = IF below > n THEN n ELSE below
  BY DEF AtMost
<1>3. end = IF start + length > n THEN n ELSE start + length
  BY DEF AtMost
<1> HIDE DEF below, upto
<1>4. ASSUME 0 <= start, start <= end
      PROVE  length >= 0 /\ (start + 1)..end = {i \in 1..n : below < i /\ i <= upto}
  <2>1. start \in Int /\ end \in Int
    BY <1>1, <1>2, <1>3
  <2>2. length >= 0
    BY <1>1, <1>2, <1>3, <1>4
  <2>3. \A i \in Int : (start + 1 <= i /\ i <= end) <=> (1 <= i /\ i <= n /\ below < i /\ i <= upto)
    BY <1>1, <1>2, <1>3, <1>4, <2>2
  <2>4. QED
    BY <2>1, <2>2, <2>3
<1>5. ASSUME number >= 1, length >= 0 PROVE 0 <= start /\ start <= end
  BY <1>1, <1>2, <1>3, <1>5
<1>6. QED
  BY <1>4, <1>5 DEF below, upto

LEMMA CutPageStep ==
  ASSUME PagesInv, CutPage
  PROVE  PagesInv'
<1> USE DEF PagesInv
<1>1. PICK s \in Sorted :
        LET start == AtMost((pageNumber - 1) * pageSize, Len(s))
            end   == AtMost(start + pageSize, Len(s))
        IN  IF 0 <= start /\ start <= end
            THEN /\ Show({s[i].id : i \in (start + 1)..end})
                 /\ pageCount' = PagesOf(Len(s))
                 /\ Answer("page")
            ELSE Answer("panic") /\ UNCHANGED <<pageCount, walked, twice>>
  BY Zenon DEF CutPage
<1>2. /\ walkPc = "list" /\ list = "addresses"
      /\ UNCHANGED <<listRows, nextRow, list, pageSize, pageNumber, first, there, shifted>>
  BY DEF CutPage
<1> DEFINE n == Cardinality(listRows)
           start == AtMost((pageNumber - 1) * pageSize, n)
           end == AtMost(start + pageSize, n)
<1>3. n \in Nat /\ Len(s) = n /\ pageSize \in Int /\ pageNumber \in Int
  BY SortedList DEF IdsOK, WalkTypeOK
<1>4. /\ 0 <= start /\ start <= end =>
           /\ pageSize >= 0
           /\ (start + 1)..end = {i \in 1..n : (pageNumber - 1) * pageSize < i
                                               /\ i <= pageNumber * pageSize}
      /\ ~(0 <= start /\ start <= end) => pageNumber < 1 \/ pageSize < 0
  BY <1>3, SlicedPage
<1>5. IF 0 <= start /\ start <= end
      THEN /\ Show({s[i].id : i \in (start + 1)..end})
           /\ pageCount' = PagesOf(n)
           /\ Answer("page")
      ELSE Answer("panic") /\ UNCHANGED <<pageCount, walked, twice>>
  BY <1>1, <1>3
<1> HIDE DEF start, end
<1>6. /\ Passed' = pageNumber * pageSize /\ walkPc' = "answered"
  BY <1>2, <1>5 DEF Passed, Answer
<1>7. \A row \in listRows : Rank(row)' = Rank(row) /\ Rank(row) \in Int
  BY <1>2, ListStays
<1>8. (NoneBack' <=> NoneBack) /\ (NoneAhead' <=> NoneAhead)
  BY <1>2 DEF NoneBack, NoneAhead
<1>9. CASE 0 <= start /\ start <= end
  <2>1. /\ pageSize >= 0 /\ walkAnswer' = "page" /\ pageCount' = PagesOf(n)
        /\ Show({s[i].id : i \in Places})
    BY <1>4, <1>5, <1>9 DEF Places, Answer
  <2>2. walked' \subseteq walked \cup IdsIn(listRows) /\ twice' \subseteq walked'
    BY <2>1, SortedList DEF Show, Places, IdsOK, IdsIn, WalkTypeOK
  <2>3. pageCount' \in Int
    BY <1>3, <2>1 DEF PagesOf
  <2>4. WalkTypeOK'
    <3>1. walked' \subseteq Ids
      BY <2>2 DEF WalkTypeOK, IdsIn, Rows
    <3>2. QED
      BY <1>2, <1>6, <2>1, <2>2, <2>3, <3>1 DEF WalkTypeOK, Labels, Answers
  <2>5. IdsOK'
    BY <1>2, <2>2 DEF IdsOK, IdsIn
  <2>6. RequestOK'
    BY <1>2, <1>3, <1>6, <2>1 DEF RequestOK
  <2>7. /\ NoneBack =>
             /\ twice' = {}
             /\ \A row \in listRows : row.id \in walked' => Rank(row) <= pageNumber * pageSize
        /\ first = 1 /\ pageSize > 0 /\ NoneAhead =>
             \A row \in listRows :
               row.id \in there \ walked' => pageNumber * pageSize < Rank(row)
    BY <1>2, <2>1, PageShown DEF Strict
  <2>8. OnceOK'
    BY <1>2, <1>6, <1>7, <1>8, <2>7 DEF OnceOK
  <2>9. ASSUME first = 1, pageSize > 0, NoneAhead, NEW id \in there \ walked'
        PROVE  pageNumber < pageCount'
    <3>1. pageNumber * pageSize < n
      BY <2>7, <2>9, MissingMeansMore
    <3>2. pageNumber < (n + pageSize - 1) \div pageSize
      BY <1>3, <2>9, <3>1, MorePages DEF RequestOK
    <3>3. pageCount' = (n + pageSize - 1) \div pageSize
      BY <1>3, <2>1, <2>9 DEF PagesOf
    <3>4. QED
      BY <3>2, <3>3
  <2>10. MissedOK'
    BY <1>2, <1>6, <1>7, <1>8, <2>7, <2>9 DEF MissedOK
  <2>11. QED
    BY <2>4, <2>5, <2>6, <2>8, <2>10
<1>10. CASE ~(0 <= start /\ start <= end)
  <2>1. /\ walkAnswer' = "panic" /\ UNCHANGED <<pageCount, walked, twice>>
        /\ pageNumber < 1 \/ pageSize < 0
    BY <1>4, <1>5, <1>10 DEF Answer
  <2>2. WalkTypeOK' /\ IdsOK'
    BY <1>2, <1>6, <2>1 DEF WalkTypeOK, Labels, Answers, IdsOK, IdsIn
  <2>3. RequestOK'
    BY <1>2, <1>6, <2>1 DEF RequestOK
  <2>4. OnceOK'
    <3>1. ASSUME NoneBack, NEW row \in listRows, row.id \in walked
          PROVE  Rank(row)' <= Passed'
      <4>1. Rank(row)' = Rank(row) /\ Rank(row) \in Int /\ Rank(row) <= Passed
        BY <1>7, <3>1 DEF OnceOK
      <4>2. pageSize >= 0
        BY <3>1 DEF RequestOK, WalkTypeOK
      <4>3. QED
        BY <1>6, <4>1, <4>2, PassedFacts
    <3>2. QED
      BY <1>2, <1>8, <2>1, <3>1 DEF OnceOK
  <2>5. MissedOK'
    BY <1>6, <2>1 DEF MissedOK, GoesOn
  <2>6. QED
    BY <2>2, <2>3, <2>4, <2>5
<1>11. QED
  BY <1>9, <1>10

LEMMA PagesStep == PagesInv /\ [WalkNext]_walkVars => PagesInv'
<1> SUFFICES ASSUME PagesInv, [WalkNext]_walkVars PROVE PagesInv'
  OBVIOUS
<1>1. CASE InsertRow \/ MoveRow \/ RemoveRow
  BY <1>1, InsertStep, MoveStep, RemoveStep
<1>2. CASE Begin \/ NextPage \/ Leave
  BY <1>2, BeginStep, NextPageStep, LeaveStep
<1>3. CASE Fail \/ ReadCustomer
  BY <1>3, FailStep, ReadCustomerStep
<1>4. CASE SelectItems \/ CountRows \/ CutPage
  BY <1>4, SelectItemsStep, CountRowsStep, CutPageStep
<1>5. CASE UNCHANGED walkVars
  <2>1. UNCHANGED <<listRows, nextRow, list, walkPc, pageSize, pageNumber, first, pageCount,
                    walkAnswer, walked, twice, there, shifted>>
    BY <1>5 DEF walkVars
  <2>2. \A row \in listRows : Rank(row)' = Rank(row)
    BY <2>1, ListStays
  <2>3. WalkTypeOK' /\ IdsOK' /\ RequestOK' /\ Passed' = Passed
    BY <2>1 DEF PagesInv, WalkTypeOK, IdsOK, IdsIn, RequestOK, Passed
  <2>4. OnceOK' /\ MissedOK'
    BY <2>1, <2>2, <2>3 DEF PagesInv, OnceOK, MissedOK, NoneBack, NoneAhead, GoesOn
  <2>5. QED
    BY <2>3, <2>4 DEF PagesInv
<1>6. QED
  BY <1>1, <1>2, <1>3, <1>4, <1>5 DEF WalkNext

LEMMA PagesInvariant == WalkSpec => []PagesInv
<1>1. WalkInit => PagesInv
  BY PagesInit
<1>2. PagesInv /\ [WalkNext]_walkVars => PagesInv'
  BY PagesStep
<1>3. QED
  BY <1>1, <1>2, PTL DEF WalkSpec

\* The variables of a walk through pages keep their types.
THEOREM PagesTypeCorrect == WalkSpec => []WalkTypeOK
<1>1. PagesInv => WalkTypeOK
  BY DEF PagesInv
<1>2. QED
  BY <1>1, PagesInvariant, PTL

\* GetAddressesPaginated cuts its slice out of range only for numbers that no page
\* has (customer.go:837).
THEOREM SliceTheorem == WalkSpec => []PanicMeansNamedBelow
<1>1. PagesInv => PanicMeansNamedBelow
  BY DEF PagesInv, RequestOK, PanicMeansNamedBelow
<1>2. QED
  BY <1>1, PagesInvariant, PTL

\* A walk through the pages of a list of any length, with pages of any size, shows a
\* row twice only when an item was added, added again or tied with another
\* (wishlist.go:127, wishlist.go:177), and misses one that stayed in its place only
\* when another was removed or tied (customer.go:799-837).
THEOREM WalkTheorem == WalkSpec => []OnceUnlessShifted
<1>1. PagesInv => OnceUnlessShifted
  <2> SUFFICES ASSUME PagesInv PROVE OnceUnlessShifted
    OBVIOUS
  <2>1. list = "addresses" \/ list = "items_v2"
    BY DEF PagesInv, WalkTypeOK
  <2>2. TwiceMeansShift
    BY <2>1 DEF PagesInv, OnceOK, NoneBack, TwiceMeansShift
  <2>3. MissedMeansShift
    <3> SUFFICES ASSUME WalkedToTheEnd, first = 1, pageSize > 0, NoneAhead
                 PROVE  there \subseteq walked
      BY <2>1 DEF MissedMeansShift, NoneAhead
    <3>1. there \ walked # {} => pageNumber < pageCount
      BY DEF PagesInv, MissedOK, WalkedToTheEnd
    <3>2. ~(pageNumber < pageCount)
      BY DEF PagesInv, WalkTypeOK, WalkedToTheEnd
    <3>3. QED
      BY <3>1, <3>2
  <2>4. QED
    BY <2>2, <2>3 DEF OnceUnlessShifted
<1>2. QED
  BY <1>1, PagesInvariant, PTL

----------------------------------------------------------------------------
(* Both of them together.                                                  *)

LEMMA InitCompose == InitReads => WalkInit /\ AttributesInit
<1> SUFFICES ASSUME InitReads, reading = "pages" PROVE AttributesInit
  BY DEF InitReads
<1>1. stored = [a \in Attributes |-> NoRow]
  BY DEF InitReads
<1>2. stored \in Contents
  BY <1>1 DEF Contents
<1>3. label \in [Options -> LabelStates]
  BY DEF InitReads, LabelStates
<1>4. QED
  BY <1>2, <1>3 DEF InitReads, AttributesInit

LEMMA StepCompose ==
  [ReadPages \/ ReadAttributes]_readsVars =>
    [WalkNext]_walkVars /\ [AttributesNext]_attributeVars
BY DEF ReadPages, ReadAttributes, readsVars

\* A behaviour of CustomerReads is one of each component, so that all the
\* theorems of this module hold of it.
THEOREM Composition == SpecReads => WalkSpec /\ AttributesSpec
<1>1. QED
  BY InitCompose, StepCompose, PTL DEF SpecReads, WalkSpec, AttributesSpec

\* The variables of both components keep their types.
THEOREM ReadsTypeCorrect == SpecReads => []ReadsTypeOK
<1>1. AttributesInv => AttributesTypeOK
  BY DEF AttributesInv
<1>2. WalkTypeOK /\ AttributesTypeOK => ReadsTypeOK
  BY DEF ReadsTypeOK
<1>3. QED
  BY <1>1, <1>2, PagesTypeCorrect, AttributesInvariant, Composition, PTL
=============================================================================
