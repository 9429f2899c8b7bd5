-------------------------- MODULE SharedMapsProof --------------------------
(***************************************************************************)
(* Theorems about the maps that the goroutines of the server share, for    *)
(* every set of requests, keys and rows.                                   *)
(*                                                                         *)
(* The caches of ReadThroughCache, behind a lock: the map is written       *)
(* alone, and the look-ups, SELECTs and fills implement MemoizedValues.    *)
(* The inductive invariant says what a request knows between two of its    *)
(* steps.                                                                  *)
(*                                                                         *)
(* The labels of StatusLabels, without a lock: whoever sees the flag finds *)
(* every label, as long as nothing failed and no accesses overlapped.      *)
(***************************************************************************)
EXTENDS SharedMaps, TLAPS

\* A request has asked for a key until it is answered; one that goes to the
\* table found nothing cached, now or when it asked; the row it carries was in
\* the table meanwhile; it holds the lock from Lock to Fill.
HandlerOK(r) ==
  /\ pc[r] = "idle" <=> asked[r] = NoValue
  /\ pc[r] \in {"select", "lock", "drain", "fill"} => fresh[r]
  /\ (pc[r] # "idle" /\ ~fresh[r]) => cache[asked[r]] # NoValue
  /\ (asked[r] # NoValue /\ table[asked[r]] # NoValue) => table[asked[r]] \in seen[r]
  /\ pc[r] \in {"lock", "drain", "fill"} => got[r] \in seen[r]
  /\ writer = r <=> pc[r] \in {"drain", "fill"}

\* Nobody reads the map while it is filled.
NoReaders == \A r, q \in Requests : pc[r] = "fill" => pc[q] # "lookup"

Inv == TypeOK /\ (\A r \in Requests : HandlerOK(r)) /\ NoReaders

USE NoValueAssumption

----------------------------------------------------------------------------
\* What a step of one request leaves alone of the others.
OnlyLocalsOf(r) ==
  \A q \in Requests \ {r} :
    /\ pc'[q] = pc[q] /\ got'[q] = got[q] /\ asked'[q] = asked[q]
    /\ fresh'[q] = fresh[q] /\ seen'[q] = seen[q]

LocalsType ==
  /\ pc \in [Requests -> Labels] /\ got \in [Requests -> Rows] /\ answer \in Rows
  /\ asked \in [Requests -> Keys \cup {NoValue}]
  /\ fresh \in [Requests -> BOOLEAN] /\ seen \in [Requests -> SUBSET Values]

\* An answer empties the locals of the request and leaves the others alone.
LEMMA ReplyStep ==
  ASSUME TypeOK, NEW r \in Requests, NEW v \in Rows, Reply(r, v)
  PROVE  /\ LocalsType' /\ OnlyLocalsOf(r)
         /\ pc'[r] = "idle" /\ asked'[r] = NoValue /\ answer' = v
<1>1. pc' \in [Requests -> Labels] /\ pc'[r] = "idle"
  BY DEF TypeOK, Reply, Goto, Labels
<1>2. /\ got' \in [Requests -> Rows] /\ answer' \in Rows /\ answer' = v
      /\ asked' \in [Requests -> Keys \cup {NoValue}] /\ asked'[r] = NoValue
  BY DEF TypeOK, Reply, Rows
<1>3. fresh' \in [Requests -> BOOLEAN] /\ seen' \in [Requests -> SUBSET Values]
  BY DEF TypeOK, Reply
<1>4. OnlyLocalsOf(r)
  BY DEF TypeOK, Reply, Goto, OnlyLocalsOf
<1>5. QED
  BY <1>1, <1>2, <1>3, <1>4 DEF LocalsType

\* A jump changes one program counter, and at most the row the request carries.
LEMMA GotoStep ==
  ASSUME TypeOK, NEW r \in Requests, NEW label \in Labels, Goto(r, label),
         UNCHANGED <<asked, answer, history>>,
         got' = got \/ (\E v \in Rows : got' = [got EXCEPT ![r] = v])
  PROVE  /\ LocalsType' /\ OnlyLocalsOf(r) /\ pc'[r] = label
         /\ asked'[r] = asked[r] /\ fresh'[r] = fresh[r] /\ seen'[r] = seen[r]
<1>1. got' \in [Requests -> Rows] /\ \A q \in Requests \ {r} : got'[q] = got[q]
  BY DEF TypeOK
<1>2. pc' \in [Requests -> Labels] /\ pc'[r] = label
      /\ \A q \in Requests \ {r} : pc'[q] = pc[q]
  BY DEF TypeOK, Goto
<1>3. QED
  BY <1>1, <1>2 DEF TypeOK, LocalsType, OnlyLocalsOf, history

----------------------------------------------------------------------------
(* The invariant.                                                          *)

LEMMA InitInv == Init => Inv
<1>1. SUFFICES ASSUME Init PROVE Inv
  OBVIOUS
<1>2. TypeOK
  BY <1>1 DEF Init, TypeOK, Rows, Labels
<1>3. \A r \in Requests : HandlerOK(r)
  BY <1>1 DEF Init, HandlerOK
<1>4. NoReaders
  BY <1>1 DEF Init, NoReaders
<1>5. QED
  BY <1>2, <1>3, <1>4 DEF Inv

LEMMA ChangeInv ==
  ASSUME Inv, NEW k \in Keys, Change(k) PROVE Inv'
<1>1. PICK v \in Rows : table' = [table EXCEPT ![k] = v]
  BY DEF Change
<1>2. seen' \in [Requests -> SUBSET Values]
      /\ \A r \in Requests : seen[r] \subseteq seen'[r]
  <2>1. table'[k] \in Rows
    BY <1>1 DEF Inv, TypeOK
  <2>2. QED
    BY <2>1 DEF Inv, TypeOK, Change, Rows
<1>3. TypeOK'
  BY <1>1, <1>2 DEF Inv, TypeOK, Change
<1>4. \A r \in Requests : HandlerOK(r)'
  <2>1. ASSUME NEW r \in Requests, asked[r] # NoValue, table'[asked[r]] # NoValue
        PROVE  table'[asked[r]] \in seen'[r]
    <3>1. CASE asked[r] = k
      BY <2>1, <3>1 DEF Inv, TypeOK, Change
    <3>2. CASE asked[r] # k
      BY <1>1, <2>1, <3>2 DEF Inv, TypeOK, HandlerOK, Change
    <3>3. QED
      BY <3>1, <3>2
  <2>2. QED
    BY <1>2, <2>1 DEF Inv, Change, HandlerOK
<1>5. QED
  BY <1>3, <1>4 DEF Inv, NoReaders, Change

LEMMA GetInv ==
  ASSUME Inv, NEW r \in Requests, NEW k \in Keys, Get(r, k) PROVE Inv'
<1>1. pc[r] = "idle" /\ pc' = [pc EXCEPT ![r] = "rlock"]
  BY DEF Get, Goto
<1>2. TypeOK'
  BY <1>1 DEF Inv, TypeOK, Get, Labels, Rows
<1>3. HandlerOK(r)'
  BY <1>1 DEF Inv, TypeOK, HandlerOK, Get
<1>4. \A q \in Requests \ {r} : HandlerOK(q)'
  BY <1>1 DEF Inv, TypeOK, HandlerOK, Get
<1>5. QED
  BY <1>1, <1>2, <1>3, <1>4 DEF Inv, TypeOK, NoReaders

LEMMA RLockInv ==
  ASSUME Inv, NEW r \in Requests, RLock(r) PROVE Inv'
<1>1. /\ LocalsType' /\ OnlyLocalsOf(r) /\ pc'[r] = "lookup"
      /\ asked'[r] = asked[r] /\ fresh'[r] = fresh[r] /\ seen'[r] = seen[r]
  BY GotoStep DEF Inv, RLock, Labels
<1>2. TypeOK'
  BY <1>1 DEF Inv, TypeOK, LocalsType, RLock
<1>3. \A q \in Requests : HandlerOK(q)'
  BY <1>1 DEF Inv, HandlerOK, RLock, OnlyLocalsOf
<1>4. NoReaders'
  BY <1>1 DEF Inv, TypeOK, HandlerOK, NoReaders, RLock, OnlyLocalsOf
<1>5. QED
  BY <1>2, <1>3, <1>4 DEF Inv

LEMMA LookupInv ==
  ASSUME Inv, NEW r \in Requests, Lookup(r) PROVE Inv'
<1>1. CASE cache[asked[r]] # NoValue /\ Reply(r, cache[asked[r]])
  <2>1. cache[asked[r]] \in Rows
    BY DEF Inv, TypeOK, HandlerOK, Lookup
  <2>2. /\ LocalsType' /\ OnlyLocalsOf(r) /\ pc'[r] = "idle" /\ asked'[r] = NoValue
    BY <1>1, <2>1, ReplyStep DEF Inv
  <2>3. TypeOK'
    BY <2>2 DEF Inv, TypeOK, LocalsType, Lookup, OnlyLocalsOf
  <2>4. HandlerOK(r)'
    BY <2>2 DEF Inv, HandlerOK, Lookup
  <2>5. \A q \in Requests \ {r} : HandlerOK(q)'
    BY <2>2 DEF Inv, HandlerOK, Lookup, OnlyLocalsOf
  <2>6. NoReaders'
    BY <2>2 DEF Inv, NoReaders, OnlyLocalsOf
  <2>7. QED
    BY <2>3, <2>4, <2>5, <2>6 DEF Inv
<1>2. CASE /\ cache[asked[r]] = NoValue /\ Goto(r, "select")
           /\ UNCHANGED <<got, asked, answer, history>>
  <2>1. /\ LocalsType' /\ OnlyLocalsOf(r) /\ pc'[r] = "select"
        /\ asked'[r] = asked[r] /\ fresh'[r] = fresh[r] /\ seen'[r] = seen[r]
    BY <1>2, GotoStep DEF Inv, Labels
  <2>2. fresh[r]
    BY <1>2 DEF Inv, TypeOK, HandlerOK, Lookup
  <2>3. TypeOK'
    BY <2>1 DEF Inv, TypeOK, LocalsType, Lookup, OnlyLocalsOf
  <2>4. HandlerOK(r)'
    BY <2>1, <2>2 DEF Inv, HandlerOK, Lookup
  <2>5. \A q \in Requests \ {r} : HandlerOK(q)'
    BY <2>1 DEF Inv, HandlerOK, Lookup, OnlyLocalsOf
  <2>6. NoReaders'
    BY <2>1 DEF Inv, NoReaders, OnlyLocalsOf
  <2>7. QED
    BY <2>3, <2>4, <2>5, <2>6 DEF Inv
<1>3. QED
  BY <1>1, <1>2 DEF Lookup

LEMMA SelectInv ==
  ASSUME Inv, NEW r \in Requests, Select(r) PROVE Inv'
<1>1. CASE Reply(r, NoValue)
  <2>1. /\ LocalsType' /\ OnlyLocalsOf(r) /\ pc'[r] = "idle" /\ asked'[r] = NoValue
    BY <1>1, ReplyStep DEF Inv, Rows
  <2>2. QED
    BY <2>1 DEF Inv, TypeOK, LocalsType, HandlerOK, NoReaders, Select, OnlyLocalsOf
<1>2. CASE /\ table[asked[r]] # NoValue
           /\ got' = [got EXCEPT ![r] = table[asked[r]]]
           /\ Goto(r, "lock") /\ UNCHANGED <<asked, answer, history>>
  <2>1. asked[r] \in Keys /\ table[asked[r]] \in Rows
    BY DEF Inv, TypeOK, HandlerOK, Select
  <2>2. /\ LocalsType' /\ OnlyLocalsOf(r) /\ pc'[r] = "lock"
        /\ asked'[r] = asked[r] /\ fresh'[r] = fresh[r] /\ seen'[r] = seen[r]
    BY <1>2, <2>1, GotoStep DEF Inv, Labels
  <2>3. got'[r] \in seen'[r]
    BY <1>2, <2>1, <2>2 DEF Inv, TypeOK, HandlerOK
  <2>4. QED
    BY <2>2, <2>3 DEF Inv, TypeOK, LocalsType, HandlerOK, NoReaders, Select,
                      OnlyLocalsOf
<1>3. QED
  BY <1>1, <1>2 DEF Select

LEMMA LockInv ==
  ASSUME Inv, NEW r \in Requests, Lock(r) PROVE Inv'
<1>1. /\ LocalsType' /\ OnlyLocalsOf(r) /\ pc'[r] = "drain" /\ got' = got
      /\ asked'[r] = asked[r] /\ fresh'[r] = fresh[r] /\ seen'[r] = seen[r]
  BY GotoStep DEF Inv, Lock, Labels
<1>2. TypeOK'
  BY <1>1 DEF Inv, TypeOK, LocalsType, Lock
<1>3. HandlerOK(r)'
  BY <1>1 DEF Inv, HandlerOK, Lock
<1>4. \A q \in Requests \ {r} : HandlerOK(q)'
  BY <1>1 DEF Inv, HandlerOK, Lock, OnlyLocalsOf
<1>5. NoReaders'
  BY <1>1 DEF Inv, NoReaders, OnlyLocalsOf
<1>6. QED
  BY <1>2, <1>3, <1>4, <1>5 DEF Inv

LEMMA DrainInv ==
  ASSUME Inv, NEW r \in Requests, Drain(r) PROVE Inv'
<1>1. /\ LocalsType' /\ OnlyLocalsOf(r) /\ pc'[r] = "fill" /\ got' = got
      /\ asked'[r] = asked[r] /\ fresh'[r] = fresh[r] /\ seen'[r] = seen[r]
  BY GotoStep DEF Inv, Drain, Labels
<1>2. TypeOK'
  BY <1>1 DEF Inv, TypeOK, LocalsType, Drain, OnlyLocalsOf
<1>3. \A q \in Requests : HandlerOK(q)'
  BY <1>1 DEF Inv, HandlerOK, Drain, OnlyLocalsOf
<1>4. NoReaders'
  BY <1>1 DEF Inv, NoReaders, Drain, Reading, OnlyLocalsOf
<1>5. QED
  BY <1>2, <1>3, <1>4 DEF Inv

LEMMA FillInv ==
  ASSUME Inv, NEW r \in Requests, Fill(r) PROVE Inv'
<1>1. asked[r] \in Keys /\ got[r] \in Values
  BY DEF Inv, TypeOK, HandlerOK, Fill
<1>2. /\ LocalsType' /\ OnlyLocalsOf(r) /\ pc'[r] = "idle" /\ asked'[r] = NoValue
  BY <1>1, ReplyStep DEF Inv, Fill, Rows
<1>3. cache' \in [Keys -> Rows] /\ \A k \in Keys : cache[k] # NoValue => cache'[k] # NoValue
  BY <1>1 DEF Inv, TypeOK, Fill, Rows
<1>4. TypeOK'
  BY <1>2, <1>3 DEF Inv, TypeOK, LocalsType, Fill
<1>5. ASSUME NEW q \in Requests PROVE HandlerOK(q)'
  <2>1. CASE q = r
    BY <1>2, <2>1 DEF Fill, HandlerOK, Inv
  <2>2. CASE q # r
    BY <1>2, <1>3, <2>2 DEF Inv, TypeOK, HandlerOK, Fill, OnlyLocalsOf
  <2>3. QED
    BY <2>1, <2>2
<1>6. NoReaders'
  BY <1>2 DEF Inv, NoReaders, OnlyLocalsOf
<1>7. QED
  BY <1>4, <1>5, <1>6 DEF Inv

LEMMA StutterInv == ASSUME Inv, UNCHANGED vars PROVE Inv'
BY DEF Inv, TypeOK, HandlerOK, NoReaders, vars

LEMMA NextInv == ASSUME Inv, [Next]_vars PROVE Inv'
<1>1. ASSUME NEW r \in Requests, Step(r) PROVE Inv'
  BY <1>1, RLockInv, LookupInv, SelectInv, LockInv, DrainInv, FillInv DEF Step
<1>2. ASSUME NEW r \in Requests, NEW k \in Keys, Get(r, k) PROVE Inv'
  BY <1>2, GetInv
<1>3. ASSUME NEW k \in Keys, Change(k) PROVE Inv'
  BY <1>3, ChangeInv
<1>4. QED
  BY <1>1, <1>2, <1>3, StutterInv DEF Next

\* Every state the requests reach satisfies the inductive invariant: the lock
\* names the one request that drains or fills, and what a request has read
\* was a row of the table since it asked.
THEOREM Invariant == Spec => []Inv
<1>1. QED
  BY InitInv, NextInv, PTL DEF Spec

\* Every reachable state is well-typed, whatever the requests, keys and rows.
THEOREM TypeCorrect == Spec => []TypeOK
<1>1. Inv => TypeOK
  BY DEF Inv
<1>2. QED
  BY <1>1, Invariant, PTL

\* Whoever is about to write the map holds the lock, and nobody else reads or
\* writes it, with any number of requests (store.go:49).
THEOREM LockTheorem == Spec => []WritesAlone
<1>1. Inv => WritesAlone
  BY DEF Inv, HandlerOK, NoReaders, WritesAlone
<1>2. QED
  BY <1>1, Invariant, PTL

----------------------------------------------------------------------------
(* The refinement.                                                         *)

LEMMA InitRefines == Init => Memoized!Init
BY DEF Init, Memoized!Init, Rows

LEMMA StepRefines ==
  ASSUME Inv, [Next]_vars PROVE [Memoized!Next]_(Memoized!vars)
<1>1. ASSUME NEW r \in Requests, RLock(r) \/ Lock(r) \/ Drain(r)
      PROVE  UNCHANGED Memoized!vars
  BY <1>1 DEF RLock, Lock, Drain, Memoized!vars, history
<1>2. ASSUME NEW r \in Requests, Lookup(r)
      PROVE  Memoized!Answer(r) \/ UNCHANGED Memoized!vars
  BY <1>2 DEF Inv, HandlerOK, Lookup, Reply, Memoized!Answer, Memoized!vars, history
<1>3. ASSUME NEW r \in Requests, Select(r)
      PROVE  Memoized!Answer(r) \/ UNCHANGED Memoized!vars
  BY <1>3 DEF Inv, HandlerOK, Select, Reply, Memoized!Answer, Memoized!vars, history
<1>4. ASSUME NEW r \in Requests, Fill(r)
      PROVE  Memoized!Answer(r)
  BY <1>4 DEF Inv, HandlerOK, Fill, Reply, Memoized!Answer
<1>5. ASSUME NEW r \in Requests, NEW k \in Keys, Get(r, k)
      PROVE  Memoized!Ask(r, k)
  BY <1>5 DEF Inv, HandlerOK, Get, Memoized!Ask
<1>6. ASSUME NEW k \in Keys, Change(k)
      PROVE  Memoized!Change(k)
  BY <1>6 DEF Change, Memoized!Change, Rows
<1>7. CASE UNCHANGED vars
  BY <1>7 DEF vars, history, Memoized!vars
<1>8. QED
  BY <1>1, <1>2, <1>3, <1>4, <1>5, <1>6, <1>7 DEF Next, Step, Memoized!Next

\* Every behaviour of the caches is one of MemoizedValues: look-ups, SELECTs and
\* fills of any number of requests, filling over each other, keep its promise.
THEOREM Refinement == Spec => ImplementsMemoizedValues
<1>1. QED
  BY InitRefines, StepRefines, Invariant, PTL DEF Spec, ImplementsMemoizedValues, Memoized!Spec

----------------------------------------------------------------------------
(* The map of the status labels.                                           *)

\* A request that scans has stored what it has read.
ScansOK == \A r \in Callers :
             labelPc[r] \in {"scan", "store"} => Statuses \ unread[r] \subseteq statusLabels

\* Whoever has seen the flag, or is about to set it, finds the map complete.
CompleteOK ==
  /\ statusLoaded => statusLabels = Statuses
  /\ \A r \in Callers : labelPc[r] \in {"lookup", "read"} => statusLabels = Statuses

\* With this the map is right as long as nothing has failed.
Sound == faults = 0 /\ ~raced => CompleteOK /\ \A r \in Callers : labelAnswer[r] # "code"

LabelsInv == LabelsTypeOK /\ ScansOK /\ Sound

----------------------------------------------------------------------------
LEMMA InitLabels == LabelsInit => LabelsInv
<1>1. SUFFICES ASSUME LabelsInit PROVE LabelsInv
  OBVIOUS
<1>2. statusLoaded \in BOOLEAN /\ up \in BOOLEAN /\ raced \in BOOLEAN
  <2>1. statusLoaded = FALSE /\ up = TRUE /\ raced = FALSE
    BY <1>1 DEF LabelsInit
  <2>2. QED
    BY <2>1, Zenon
<1>3. faults \in 0..MaxFaults
  BY <1>1, BoundAssumption DEF LabelsInit
<1>4. LabelsTypeOK
  BY <1>1, <1>2, <1>3 DEF LabelsInit, LabelsTypeOK
<1>5. ~statusLoaded
  BY <1>1 DEF LabelsInit
<1>6. ScansOK /\ Sound
  BY <1>1, <1>5 DEF LabelsInit, ScansOK, Sound, CompleteOK
<1>7. QED
  BY <1>1, <1>4, <1>6 DEF LabelsInv

LEMMA LabelFault ==
  ASSUME faults \in 0..MaxFaults, Fault
  PROVE  faults' \in 0..MaxFaults /\ faults' # 0
BY BoundAssumption DEF Fault

\* Nothing that has failed is forgotten, and no label is.
LEMMA StepLabels == ASSUME LabelsInv, NEW r \in Callers, LabelStep(r) PROVE LabelsInv'
<1> USE BoundAssumption DEF LabelsInv, LabelsTypeOK, GotoLabel
<1>1. CASE Call(r)
  BY <1>1 DEF Call, ScansOK, Sound, CompleteOK
<1>2. CASE CheckLoaded(r)
  BY <1>2 DEF CheckLoaded, ScansOK, Sound, CompleteOK
<1>3. CASE QueryLabels(r)
  <2>1. CASE UNCHANGED <<statusLoaded, faults>>
    BY <1>3, <2>1 DEF QueryLabels, ScansOK, Sound, CompleteOK
  <2>2. CASE Fault /\ statusLoaded' = TRUE /\ GotoLabel(r, "lookup") /\ UNCHANGED unread
    <3>1. faults' \in 0..MaxFaults /\ faults' # 0
      BY <2>2, LabelFault
    <3>2. statusLoaded' \in BOOLEAN
      BY <2>2, Zenon
    <3>3. QED
      BY <1>3, <2>2, <3>1, <3>2 DEF QueryLabels, ScansOK, Sound
  <2>3. QED
    BY <1>3, <2>1, <2>2 DEF QueryLabels
<1>4. CASE EndOfRows(r)
  <2>1. statusLoaded' \in BOOLEAN
    BY <1>4, Zenon DEF EndOfRows
  <2>2. CASE unread[r] = {} /\ UNCHANGED faults
    <3>1. statusLabels = Statuses
      BY <1>4, <2>2 DEF EndOfRows, ScansOK
    <3>2. LabelsTypeOK' /\ ScansOK'
      BY <1>4, <2>1, <2>2 DEF EndOfRows, ScansOK
    <3>3. Sound'
      BY <1>4, <2>2, <3>1 DEF EndOfRows, Sound, CompleteOK
    <3>4. QED
      BY <3>2, <3>3
  <2>3. CASE unread[r] # {} /\ Fault
    <3>1. faults' \in 0..MaxFaults /\ faults' # 0
      BY <2>3, LabelFault
    <3>2. QED
      BY <1>4, <2>1, <3>1 DEF EndOfRows, ScansOK, Sound
  <2>4. QED
    BY <1>4, <2>2, <2>3 DEF EndOfRows
<1>5. CASE BeginStore(r)
  BY <1>5 DEF BeginStore, Race, ScansOK, Sound, CompleteOK
<1>6. CASE EndStore(r)
  BY <1>6 DEF EndStore, ScansOK, Sound, CompleteOK
<1>7. CASE BeginLookup(r)
  BY <1>7 DEF BeginLookup, Race, ScansOK, Sound, CompleteOK
<1>8. CASE EndLookup(r)
  BY <1>8 DEF EndLookup, ScansOK, Sound, CompleteOK
<1>9. QED
  BY <1>1, <1>2, <1>3, <1>4, <1>5, <1>6, <1>7, <1>8 DEF LabelStep

LEMMA NextLabels == LabelsInv /\ [LabelsNext]_labelVars => LabelsInv'
<1>1. ASSUME LabelsInv, Abort PROVE LabelsInv'
  BY <1>1 DEF Abort, LabelsInv, LabelsTypeOK, ScansOK, Sound, CompleteOK
<1>2. ASSUME LabelsInv, UNCHANGED labelVars PROVE LabelsInv'
  BY <1>2 DEF labelVars, LabelsInv, LabelsTypeOK, ScansOK, Sound, CompleteOK
<1>3. QED
  BY <1>1, <1>2, StepLabels DEF LabelsNext

\* Callers that look at the flag without a lock never see it before the last
\* row is stored: unless a statement failed or accesses of the map overlapped,
\* every label of the table is answered (order.go:197-220).
THEOREM LabelsTheorem == LabelsSpec => []LabelsOK
<1>1. LabelsInit => LabelsInv
  BY InitLabels
<1>2. LabelsInv /\ [LabelsNext]_labelVars => LabelsInv'
  BY NextLabels
<1>3. LabelsInv => LabelsOK
  BY DEF LabelsInv, Sound, LabelsOK, ResolvedUnlessFailed
<1>4. QED
  BY <1>1, <1>2, <1>3, PTL DEF LabelsSpec

----------------------------------------------------------------------------
(* The two together.                                                       *)

LEMMA MapsStep ==
  [UseCache \/ UseLabels]_mapsVars => [Next]_vars /\ [LabelsNext]_labelVars
BY DEF UseCache, UseLabels, mapsVars

\* A behaviour of SharedMaps is one of each component, so that all the theorems
\* of this module hold of it.
THEOREM Composition == SpecMaps => Spec /\ LabelsSpec
<1>1. InitMaps => Init /\ LabelsInit
  BY DEF InitMaps
<1>2. QED
  BY <1>1, MapsStep, PTL DEF SpecMaps, Spec, LabelsSpec
=============================================================================
