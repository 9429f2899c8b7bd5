-------------------------- MODULE AddressBookProof --------------------------
(***************************************************************************)
(* Theorems about AddressBook for every set of requests and customers and  *)
(* every bound.  UpdateAddress and DeleteAddress compare the owner of an   *)
(* address once and rely on the result in later statements; the inductive  *)
(* invariant says why they may: an id that was handed out keeps its owner. *)
(***************************************************************************)
EXTENDS AddressBook, TLAPS

Checked == {"update", "default", "reread", "answer", "guard", "remove"}

\* A request works on an address that was handed out, and once it is past the
\* comparison (or has inserted the address) on one of its own customer.
HandlerOK(r) ==
  /\ pc[r] # "idle" => who[r] \in Customers
  /\ pc[r] \in Checked \cup {"verify"} => addr[r] \in Ids /\ addr[r] < nextId
  /\ pc[r] \in Checked => parent[addr[r]] = who[r]

\* What an address says was written by its owner.
Authored == \A a \in stored : a < nextId /\ writer[a] = parent[a]

Inv == /\ TypeOK /\ (\A r \in Requests : HandlerOK(r))
       /\ OwnDefaults /\ Authored

USE BoundAssumption, OperationsAssumption, CustomersAssumption

----------------------------------------------------------------------------
LocalsType ==
  /\ op \in [Requests -> Operations \cup {"none"}]
  /\ pc \in [Requests -> Labels]
  /\ who \in [Requests -> Customers \cup {None}]
  /\ addr \in [Requests -> Ids \cup {None}]
  /\ want \in [Requests -> SUBSET Kinds]

TablesType ==
  /\ present \subseteq Customers
  /\ default \in [Customers -> [Kinds -> Ids \cup {None}]]
  /\ stored \subseteq Ids
  /\ parent \in [Ids -> Customers \cup {None}]
  /\ writer \in [Ids -> Customers \cup {None}]
  /\ \A a \in Ids : parent[a] = None <=> a >= nextId
  /\ \A a \in Ids : writer[a] = None <=> a >= nextId
  /\ nextId \in 1..MaxAddresses + 1


\* A statement counts at most MaxFaults errors.
LEMMA StatementType ==
  ASSUME faults \in 0..MaxFaults, NEW a, NEW b, Statement(a, b)
  PROVE  faults' \in 0..MaxFaults
BY DEF Statement

\* Only the locals of request r change.
OnlyLocalsOf(r) ==
  \A q \in Requests \ {r} :
    pc'[q] = pc[q] /\ who'[q] = who[q] /\ addr'[q] = addr[q]

\* An answer empties the locals of the request and leaves the others alone.
LEMMA ReplyStep ==
  ASSUME LocalsType, NEW r \in Requests, Reply(r)
  PROVE  LocalsType' /\ OnlyLocalsOf(r) /\ pc'[r] = "idle"
<1>1. pc' \in [Requests -> Labels] /\ pc'[r] = "idle"
  BY DEF LocalsType, Reply, Labels
<1>2. op' \in [Requests -> Operations \cup {"none"}]
  BY DEF LocalsType, Reply
<1>3. who' \in [Requests -> Customers \cup {None}]
  BY DEF LocalsType, Reply
<1>4. addr' \in [Requests -> Ids \cup {None}]
  BY DEF LocalsType, Reply
<1>5. want' \in [Requests -> SUBSET Kinds]
  BY DEF LocalsType, Reply
<1>6. OnlyLocalsOf(r)
  BY DEF LocalsType, Reply, OnlyLocalsOf
<1>7. QED
  BY <1>1, <1>2, <1>3, <1>4, <1>5, <1>6 DEF LocalsType

\* A jump changes the program counter, and at most the locals of the request.
LEMMA GotoStep ==
  ASSUME LocalsType, NEW r \in Requests, NEW label \in Labels, Goto(r, label),
         addr' \in [Requests -> Ids \cup {None}],
         want' \in [Requests -> SUBSET Kinds],
         \A q \in Requests \ {r} : addr'[q] = addr[q]
  PROVE  LocalsType' /\ OnlyLocalsOf(r) /\ pc'[r] = label /\ who'[r] = who[r]
BY DEF LocalsType, Goto, OnlyLocalsOf

\* A request that has answered asks nothing of the tables.
LEMMA IdleOK ==
  ASSUME NEW r \in Requests, pc[r] = "idle" PROVE HandlerOK(r)
BY DEF HandlerOK, Checked

\* Steps that keep every owner keep what the handlers know.
LEMMA OthersKeep ==
  ASSUME Inv, NEW r \in Requests, OnlyLocalsOf(r),
         nextId' \in 1..MaxAddresses + 1, nextId <= nextId',
         \A a \in Ids : a < nextId => parent'[a] = parent[a]
  PROVE  \A q \in Requests \ {r} : HandlerOK(q)'
<1>1. SUFFICES ASSUME NEW q \in Requests \ {r} PROVE HandlerOK(q)'
  OBVIOUS
<1>2. HandlerOK(q) /\ nextId \in Nat
  BY DEF Inv, TypeOK
<1>3. pc'[q] = pc[q] /\ who'[q] = who[q] /\ addr'[q] = addr[q]
  BY DEF OnlyLocalsOf
<1>4. QED
  BY <1>2, <1>3 DEF HandlerOK, Ids, Checked

\* Steps that leave the addresses and the defaults alone keep their invariants.
LEMMA TablesKept ==
  ASSUME Inv, UNCHANGED tables
  PROVE  TablesType' /\ OwnDefaults' /\ Authored'
BY DEF Inv, TypeOK, TablesType, OwnDefaults, Authored, tables

\* Steps that end a request, or move it on with what it has, and only read.
LEMMA ReadingStep ==
  ASSUME Inv, NEW r \in Requests, UNCHANGED tables, faults' \in 0..MaxFaults,
         contended' \subseteq Ids,
         LocalsType', OnlyLocalsOf(r), HandlerOK(r)'
  PROVE  Inv'
<1>1. TablesType' /\ OwnDefaults' /\ Authored'
  BY TablesKept
<1>2. \A q \in Requests \ {r} : HandlerOK(q)'
  BY OthersKeep DEF Inv, TypeOK, tables
<1>3. TypeOK'
  BY <1>1 DEF TypeOK, TablesType, LocalsType
<1>4. QED
  BY <1>1, <1>2, <1>3 DEF Inv

\* A jump with unchanged locals keeps what the request knows, when it knows
\* enough for where it goes.
LEMMA JumpStep ==
  ASSUME Inv, NEW r \in Requests, NEW label \in Labels, Goto(r, label),
         UNCHANGED <<addr, want>>, UNCHANGED <<parent, nextId>>,
         pc[r] # "idle",
         label \in Checked \cup {"idle"},
         label \in Checked => /\ addr[r] \in Ids /\ addr[r] < nextId
                              /\ parent[addr[r]] = who[r]
  PROVE  LocalsType' /\ OnlyLocalsOf(r) /\ HandlerOK(r)'
<1>1. LocalsType' /\ OnlyLocalsOf(r) /\ pc'[r] = label /\ who'[r] = who[r]
  BY GotoStep DEF Inv, TypeOK, LocalsType
<1>2. HandlerOK(r)'
  BY <1>1 DEF Inv, HandlerOK, Checked
<1>3. QED
  BY <1>1, <1>2

\* A request that answers.
LEMMA AnswerStep ==
  ASSUME Inv, NEW r \in Requests, Reply(r)
  PROVE  LocalsType' /\ OnlyLocalsOf(r) /\ HandlerOK(r)'
<1>1. LocalsType' /\ OnlyLocalsOf(r) /\ pc'[r] = "idle"
  BY ReplyStep DEF Inv, TypeOK, LocalsType
<1>2. QED
  BY <1>1 DEF HandlerOK, Checked

----------------------------------------------------------------------------
(* The invariant, step by step.                                            *)

LEMMA InitInv == Init => Inv
<1>1. SUFFICES ASSUME Init PROVE Inv
  OBVIOUS
<1>2. TypeOK
  BY <1>1 DEF Init, TypeOK, Labels, Ids, None, Kinds
<1>3. \A r \in Requests : HandlerOK(r)
  BY <1>1, IdleOK DEF Init
<1>4. OwnDefaults /\ Authored
  BY <1>1 DEF Init, OwnDefaults, Authored
<1>5. QED
  BY <1>2, <1>3, <1>4 DEF Inv

LEMMA AdmitInv ==
  ASSUME Inv, NEW r \in Requests, Admit(r), contended' \subseteq Ids
  PROVE  Inv'
<1>1. PICK o \in Operations, c \in Customers, a \in 0..nextId - 1,
           w \in SUBSET Kinds :
        /\ a = None <=> o \in {"CreateAddress", "DeleteCustomer"}
        /\ op' = [op EXCEPT ![r] = o] /\ pc' = [pc EXCEPT ![r] = FirstStep[o]]
        /\ who' = [who EXCEPT ![r] = c] /\ addr' = [addr EXCEPT ![r] = a]
        /\ want' = [want EXCEPT ![r] = w]
        /\ UNCHANGED <<tables, faults>>
  BY DEF Admit
<1>2. /\ o = "CreateAddress" => FirstStep[o] = "insert"
      /\ o = "DeleteCustomer" => FirstStep[o] = "close"
      /\ o \in {"UpdateAddress", "DeleteAddress"} => FirstStep[o] = "verify"
      /\ o \in {"CreateAddress", "UpdateAddress", "DeleteAddress", "DeleteCustomer"}
  <2>1. o \in {"CreateAddress", "UpdateAddress", "DeleteAddress", "DeleteCustomer"}
    BY OperationsAssumption DEF OperationsAssumption, AddressOperations
  <2>2. QED
    BY <2>1 DEF FirstStep
<1>3. a \in Ids \cup {None} /\ (a # None => a \in Ids /\ a < nextId)
  <2>1. nextId \in Int /\ nextId <= MaxAddresses + 1 /\ MaxAddresses \in Int
    BY DEF Inv, TypeOK
  <2>2. a \in Int /\ 0 <= a /\ a <= nextId - 1
    BY <2>1
  <2>3. QED
    BY <2>1, <2>2 DEF Ids, None
<1>4. FirstStep[o] \in Labels
  BY <1>2 DEF Labels
<1>5. LocalsType' /\ OnlyLocalsOf(r)
  <2>1. LocalsType
    BY DEF Inv, TypeOK, LocalsType
  <2>2. pc' \in [Requests -> Labels] /\ op' \in [Requests -> Operations \cup {"none"}]
    BY <1>1, <1>4, <2>1 DEF LocalsType
  <2>3. who' \in [Requests -> Customers \cup {None}]
    BY <1>1, <2>1 DEF LocalsType
  <2>4. addr' \in [Requests -> Ids \cup {None}]
    BY <1>1, <1>3, <2>1 DEF LocalsType
  <2>5. want' \in [Requests -> SUBSET Kinds]
    BY <1>1, <2>1 DEF LocalsType
  <2>6. OnlyLocalsOf(r)
    BY <1>1, <2>1 DEF LocalsType, OnlyLocalsOf
  <2>7. QED
    BY <2>2, <2>3, <2>4, <2>5, <2>6 DEF LocalsType
<1>6. pc'[r] = FirstStep[o] /\ who'[r] = c /\ addr'[r] = a /\ nextId' = nextId
  BY <1>1 DEF Inv, TypeOK, tables
<1>7. HandlerOK(r)'
  BY <1>1, <1>2, <1>3, <1>6 DEF HandlerOK, Checked
<1>8. QED
  BY <1>1, <1>5, <1>7, ReadingStep DEF Inv, TypeOK

\* The AUTO_INCREMENT id is new, so no request and no default knows it yet.
LEMMA InsertInv ==
  ASSUME Inv, NEW r \in Requests, Insert(r), contended' \subseteq Ids
  PROVE  Inv'
<1>1. PICK applied \in BOOLEAN, reported \in BOOLEAN :
        /\ Statement(applied, reported)
        /\ IF applied
           THEN /\ stored' = stored \cup {nextId} /\ nextId' = nextId + 1
                /\ parent' = [parent EXCEPT ![nextId] = who[r]]
                /\ writer' = [writer EXCEPT ![nextId] = who[r]]
           ELSE UNCHANGED <<stored, nextId, parent, writer>>
        /\ IF reported
           THEN /\ addr' = [addr EXCEPT ![r] = nextId]
                /\ UNCHANGED want /\ AfterWrite(r)
           ELSE Reply(r)
  BY DEF Insert
<1>2. /\ pc[r] = "insert" /\ nextId \in Ids /\ UNCHANGED <<present, default>>
      /\ who[r] \in Customers /\ who[r] # None
  <2>1. pc[r] = "insert" /\ nextId <= MaxAddresses /\ UNCHANGED <<present, default>>
    BY DEF Insert
  <2>2. nextId \in Int /\ 1 <= nextId
    BY DEF Inv, TypeOK
  <2>3. who[r] \in Customers
    BY <2>1 DEF Inv, HandlerOK
  <2>4. nextId \in Ids
    BY <2>1, <2>2 DEF Ids
  <2>5. QED
    BY <2>1, <2>3, <2>4
<1>3. faults' \in 0..MaxFaults
  BY <1>1, StatementType DEF Inv, TypeOK
<1>4. reported => applied
  BY <1>1 DEF Statement
<1>5. /\ nextId' \in 1..MaxAddresses + 1 /\ nextId <= nextId'
      /\ \A a \in Ids : a < nextId => parent'[a] = parent[a]
      /\ applied => nextId' = nextId + 1 /\ parent'[nextId] = who[r]
  <2>1. nextId \in Int /\ 1 <= nextId /\ nextId <= MaxAddresses
    BY <1>2 DEF Ids
  <2>2. CASE applied
    <3>1. nextId' = nextId + 1 /\ parent' = [parent EXCEPT ![nextId] = who[r]]
      BY <1>1, <2>2
    <3>2. parent \in [Ids -> Customers \cup {None}]
      BY DEF Inv, TypeOK
    <3>3. parent'[nextId] = who[r] /\ \A a \in Ids : a < nextId => parent'[a] = parent[a]
      BY <1>2, <2>1, <3>1, <3>2 DEF Ids
    <3>4. QED
      BY <2>1, <3>1, <3>3
  <2>3. CASE ~applied
    BY <1>1, <2>1, <2>3
  <2>4. QED
    BY <2>2, <2>3
<1>6. TablesType' /\ Authored'
  <2>1. CASE applied
    <3>1. stored' \subseteq Ids /\ parent' \in [Ids -> Customers \cup {None}]
          /\ writer' \in [Ids -> Customers \cup {None}]
      BY <1>1, <1>2, <2>1 DEF Inv, TypeOK
    <3>2. \A a \in Ids : parent'[a] = IF a = nextId THEN who[r] ELSE parent[a]
      BY <1>1, <2>1 DEF Inv, TypeOK
    <3>3. \A a \in Ids : writer'[a] = IF a = nextId THEN who[r] ELSE writer[a]
      BY <1>1, <2>1 DEF Inv, TypeOK
    <3>4. \A a \in Ids : parent'[a] = None <=> a >= nextId'
      BY <1>2, <1>5, <2>1, <3>2 DEF Inv, TypeOK, Ids
    <3>5. \A a \in Ids : writer'[a] = None <=> a >= nextId'
      BY <1>2, <1>5, <2>1, <3>3 DEF Inv, TypeOK, Ids
    <3>6. Authored'
      <4>1. SUFFICES ASSUME NEW a \in stored' PROVE a < nextId' /\ writer'[a] = parent'[a]
        BY DEF Authored
      <4>2. a \in Ids /\ nextId \in Int
        BY <3>1, <1>2 DEF Ids
      <4>3. CASE a = nextId
        BY <1>5, <2>1, <3>2, <3>3, <4>2, <4>3
      <4>4. CASE a # nextId
        <5>1. a \in stored
          BY <1>1, <2>1, <4>4
        <5>2. a < nextId /\ writer[a] = parent[a]
          BY <5>1 DEF Inv, Authored
        <5>3. QED
          BY <1>5, <2>1, <3>2, <3>3, <4>2, <4>4, <5>2 DEF Ids
      <4>5. QED
        BY <4>3, <4>4
    <3>7. QED
      BY <1>2, <1>5, <3>1, <3>4, <3>5, <3>6 DEF Inv, TypeOK, TablesType
  <2>2. CASE ~applied
    BY <1>1, <1>2, <2>2 DEF Inv, TypeOK, TablesType, Authored
  <2>3. QED
    BY <2>1, <2>2
<1>7. OwnDefaults'
  <2>1. SUFFICES ASSUME NEW c \in Customers, NEW k \in Kinds, default[c][k] # None
                 PROVE  parent'[default[c][k]] = c
    BY <1>2 DEF OwnDefaults
  <2>2. default[c][k] \in Ids /\ parent[default[c][k]] = c /\ c # None
    BY <2>1 DEF Inv, TypeOK, OwnDefaults
  <2>3. default[c][k] < nextId
    BY <2>2 DEF Inv, TypeOK, Ids
  <2>4. QED
    BY <1>5, <2>2, <2>3
<1>8. LocalsType' /\ OnlyLocalsOf(r) /\ HandlerOK(r)'
  <2>1. CASE reported
    <3>1. PICK label \in {"reread", "default"} : Goto(r, label)
      BY <1>1, <2>1 DEF AfterWrite
    <3>2. /\ addr' \in [Requests -> Ids \cup {None}] /\ addr'[r] = nextId
          /\ \A q \in Requests \ {r} : addr'[q] = addr[q]
      BY <1>1, <1>2, <2>1 DEF Inv, TypeOK
    <3>3. LocalsType' /\ OnlyLocalsOf(r) /\ pc'[r] = label /\ who'[r] = who[r]
      BY <1>1, <2>1, <3>1, <3>2, GotoStep DEF Inv, TypeOK, LocalsType, Labels
    <3>4. HandlerOK(r)'
      BY <1>2, <1>4, <1>5, <2>1, <3>2, <3>3 DEF HandlerOK, Checked, Ids
    <3>5. QED
      BY <3>3, <3>4
  <2>2. CASE ~reported
    BY <1>1, <2>2, AnswerStep
  <2>3. QED
    BY <2>1, <2>2
<1>9. \A q \in Requests \ {r} : HandlerOK(q)'
  BY <1>5, <1>8, OthersKeep
<1>10. TypeOK'
  BY <1>3, <1>6, <1>8 DEF TypeOK, TablesType, LocalsType
<1>11. QED
  BY <1>6, <1>7, <1>8, <1>9, <1>10 DEF Inv

LEMMA VerifyOwnerInv ==
  ASSUME Inv, NEW r \in Requests, VerifyOwner(r), contended' \subseteq Ids
  PROVE  Inv'
<1>1. PICK ok \in BOOLEAN :
        /\ Statement(ok, ok)
        /\ IF ok /\ addr[r] \in stored /\ parent[addr[r]] = who[r]
           THEN /\ Goto(r, IF op[r] = "UpdateAddress" THEN "update" ELSE "guard")
                /\ UNCHANGED <<addr, want>>
           ELSE Reply(r)
  BY DEF VerifyOwner
<1>2. pc[r] = "verify" /\ UNCHANGED tables
  BY DEF VerifyOwner
<1>3. faults' \in 0..MaxFaults
  BY <1>1, StatementType DEF Inv, TypeOK
<1>4. LocalsType' /\ OnlyLocalsOf(r) /\ HandlerOK(r)'
  <2>1. CASE ok /\ addr[r] \in stored /\ parent[addr[r]] = who[r]
    <3>1. addr[r] \in Ids /\ addr[r] < nextId
      BY <1>2 DEF Inv, HandlerOK
    <3>2. PICK label \in {"update", "guard"} :
            Goto(r, label) /\ UNCHANGED <<addr, want>>
      BY <1>1, <2>1
    <3>3. QED
      BY <1>2, <2>1, <3>1, <3>2, JumpStep DEF Labels, Checked, tables
  <2>2. CASE ~(ok /\ addr[r] \in stored /\ parent[addr[r]] = who[r])
    BY <1>1, <2>2, AnswerStep
  <2>3. QED
    BY <2>1, <2>2
<1>5. QED
  BY <1>2, <1>3, <1>4, ReadingStep

\* A request past the comparison goes on with an address of its customer.
LEMMA CheckedStep ==
  ASSUME Inv, NEW r \in Requests, pc[r] \in Checked, NEW label \in Checked,
         Goto(r, label), UNCHANGED <<addr, want>>, UNCHANGED <<parent, nextId>>
  PROVE  LocalsType' /\ OnlyLocalsOf(r) /\ HandlerOK(r)'
<1>1. addr[r] \in Ids /\ addr[r] < nextId /\ parent[addr[r]] = who[r]
  BY DEF Inv, HandlerOK
<1>2. label \in Labels /\ pc[r] # "idle"
  BY DEF Labels, Checked
<1>3. QED
  BY <1>1, <1>2, JumpStep

LEMMA UpdateColumnsInv ==
  ASSUME Inv, NEW r \in Requests, UpdateColumns(r), contended' \subseteq Ids
  PROVE  Inv'
<1>1. PICK given \in BOOLEAN, applied \in BOOLEAN, reported \in BOOLEAN :
        /\ Statement(applied, reported)
        /\ writer' = IF given /\ applied /\ addr[r] \in stored
                     THEN [writer EXCEPT ![addr[r]] = who[r]] ELSE writer
        /\ IF reported THEN AfterWrite(r) /\ UNCHANGED <<addr, want>>
           ELSE Reply(r)
  BY DEF UpdateColumns
<1>2. /\ pc[r] = "update" /\ UNCHANGED <<present, default, stored, parent, nextId>>
      /\ addr[r] \in Ids /\ addr[r] < nextId /\ parent[addr[r]] = who[r]
      /\ who[r] \in Customers
  BY DEF UpdateColumns, Inv, HandlerOK, Checked
<1>3. faults' \in 0..MaxFaults
  BY <1>1, StatementType DEF Inv, TypeOK
<1>4. TablesType' /\ Authored' /\ OwnDefaults'
  <2>1. writer' \in [Ids -> Customers \cup {None}]
        /\ \A a \in Ids : writer'[a] = writer[a] \/ (a = addr[r] /\ writer'[a] = who[r])
    BY <1>1, <1>2 DEF Inv, TypeOK
  <2>2. \A a \in Ids : writer'[a] = None <=> a >= nextId'
    BY <1>2, <2>1 DEF Inv, TypeOK, Ids
  <2>3. QED
    BY <1>2, <2>1, <2>2 DEF Inv, TypeOK, TablesType, Authored, OwnDefaults
<1>5. LocalsType' /\ OnlyLocalsOf(r) /\ HandlerOK(r)'
  <2>1. CASE reported
    <3>1. PICK label \in {"reread", "default"} : Goto(r, label)
      BY <1>1, <2>1 DEF AfterWrite
    <3>2. QED
      BY <1>1, <1>2, <2>1, <3>1, CheckedStep DEF Checked
  <2>2. CASE ~reported
    BY <1>1, <2>2, AnswerStep
  <2>3. QED
    BY <2>1, <2>2
<1>6. \A q \in Requests \ {r} : HandlerOK(q)'
  BY <1>2, <1>5, OthersKeep DEF Inv, TypeOK
<1>7. QED
  BY <1>3, <1>4, <1>5, <1>6 DEF Inv, TypeOK, TablesType, LocalsType

LEMMA SetDefaultInv ==
  ASSUME Inv, NEW r \in Requests, SetDefault(r), contended' \subseteq Ids
  PROVE  Inv'
<1> DEFINE k == IF "billing" \in want[r] THEN "billing" ELSE "shipping"
<1>1. PICK applied \in BOOLEAN, reported \in BOOLEAN :
        /\ Statement(applied, reported)
        /\ default' = IF applied /\ who[r] \in present
                      THEN [default EXCEPT ![who[r]][k] = addr[r]]
                      ELSE default
  BY DEF SetDefault
<1>2. /\ want' = [want EXCEPT ![r] = @ \ {k}]
      /\ Goto(r, IF want[r] = {k} THEN "reread" ELSE "default")
      /\ UNCHANGED <<present, stored, parent, writer, nextId, addr>>
  BY DEF SetDefault
<1>3. /\ pc[r] = "default" /\ k \in Kinds
      /\ addr[r] \in Ids /\ addr[r] < nextId /\ parent[addr[r]] = who[r]
      /\ who[r] \in Customers
  BY DEF SetDefault, Inv, HandlerOK, Checked, Kinds
<1> HIDE DEF k
<1>4. faults' \in 0..MaxFaults
  BY <1>1, StatementType DEF Inv, TypeOK
<1>5. /\ default' \in [Customers -> [Kinds -> Ids \cup {None}]]
      /\ \A c \in Customers, j \in Kinds :
           \/ default'[c][j] = default[c][j]
           \/ c = who[r] /\ default'[c][j] = addr[r]
  BY <1>1, <1>3 DEF Inv, TypeOK
<1>6. TablesType' /\ Authored'
  BY <1>2, <1>5 DEF Inv, TypeOK, TablesType, Authored
<1>7. OwnDefaults'
  BY <1>2, <1>3, <1>5 DEF Inv, OwnDefaults
<1>8. LocalsType' /\ OnlyLocalsOf(r) /\ HandlerOK(r)'
  <2>1. PICK label \in {"reread", "default"} : Goto(r, label)
    BY <1>2
  <2>2. want' \in [Requests -> SUBSET Kinds]
    BY <1>2 DEF Inv, TypeOK
  <2>3. LocalsType' /\ OnlyLocalsOf(r) /\ pc'[r] = label /\ who'[r] = who[r]
    BY <1>2, <2>1, <2>2, GotoStep DEF Inv, TypeOK, LocalsType, Labels
  <2>4. QED
    BY <1>2, <1>3, <2>3 DEF HandlerOK, Checked
<1>9. \A q \in Requests \ {r} : HandlerOK(q)'
  BY <1>2, <1>8, OthersKeep DEF Inv, TypeOK
<1>10. QED
  BY <1>4, <1>6, <1>7, <1>8, <1>9 DEF Inv, TypeOK, TablesType, LocalsType

LEMMA ReReadAddressInv ==
  ASSUME Inv, NEW r \in Requests, ReReadAddress(r), contended' \subseteq Ids
  PROVE  Inv'
<1>1. PICK ok \in BOOLEAN :
        /\ Statement(ok, ok)
        /\ IF ok /\ addr[r] \in stored
           THEN Goto(r, "answer") /\ UNCHANGED <<addr, want>>
           ELSE Reply(r)
  BY DEF ReReadAddress
<1>2. pc[r] = "reread" /\ UNCHANGED tables
  BY DEF ReReadAddress
<1>3. faults' \in 0..MaxFaults
  BY <1>1, StatementType DEF Inv, TypeOK
<1>4. LocalsType' /\ OnlyLocalsOf(r) /\ HandlerOK(r)'
  <2>1. CASE ok /\ addr[r] \in stored
    BY <1>1, <1>2, <2>1, CheckedStep DEF Checked, tables
  <2>2. CASE ~(ok /\ addr[r] \in stored)
    BY <1>1, <2>2, AnswerStep
  <2>3. QED
    BY <2>1, <2>2
<1>5. QED
  BY <1>2, <1>3, <1>4, ReadingStep

LEMMA AnswerWithDefaultsInv ==
  ASSUME Inv, NEW r \in Requests, AnswerWithDefaults(r), contended' \subseteq Ids
  PROVE  Inv'
<1>1. Reply(r) /\ \E ok \in BOOLEAN : Statement(ok, ok)
  BY DEF AnswerWithDefaults
<1>2. UNCHANGED tables
  BY DEF AnswerWithDefaults
<1>3. faults' \in 0..MaxFaults
  BY <1>1, StatementType DEF Inv, TypeOK
<1>4. LocalsType' /\ OnlyLocalsOf(r) /\ HandlerOK(r)'
  BY <1>1, AnswerStep
<1>5. QED
  BY <1>2, <1>3, <1>4, ReadingStep

LEMMA GuardDefaultsInv ==
  ASSUME Inv, NEW r \in Requests, GuardDefaults(r), contended' \subseteq Ids
  PROVE  Inv'
<1>1. PICK ok \in BOOLEAN :
        /\ Statement(ok, ok)
        /\ \/ Reply(r)
           \/ Goto(r, "remove") /\ UNCHANGED <<addr, want>>
  BY DEF GuardDefaults
<1>2. pc[r] = "guard" /\ UNCHANGED tables
  BY DEF GuardDefaults
<1>3. faults' \in 0..MaxFaults
  BY <1>1, StatementType DEF Inv, TypeOK
<1>4. LocalsType' /\ OnlyLocalsOf(r) /\ HandlerOK(r)'
  <2>1. CASE Reply(r)
    BY <2>1, AnswerStep
  <2>2. CASE Goto(r, "remove") /\ UNCHANGED <<addr, want>>
    BY <1>2, <2>2, CheckedStep DEF Checked, tables
  <2>3. QED
    BY <1>1, <2>1, <2>2
<1>5. QED
  BY <1>2, <1>3, <1>4, ReadingStep

LEMMA RemoveAddressInv ==
  ASSUME Inv, NEW r \in Requests, RemoveAddress(r), contended' \subseteq Ids
  PROVE  Inv'
<1>1. PICK applied \in BOOLEAN, reported \in BOOLEAN :
        /\ Statement(applied, reported)
        /\ stored' = IF applied THEN stored \ {addr[r]} ELSE stored
        /\ Reply(r)
  BY DEF RemoveAddress
<1>2. UNCHANGED <<present, default, parent, writer, nextId>>
  BY DEF RemoveAddress
<1>3. faults' \in 0..MaxFaults
  BY <1>1, StatementType DEF Inv, TypeOK
<1>4. TablesType' /\ Authored' /\ OwnDefaults'
  <2>1. stored' \subseteq stored
    BY <1>1
  <2>2. QED
    BY <1>2, <2>1 DEF Inv, TypeOK, TablesType, Authored, OwnDefaults
<1>5. LocalsType' /\ OnlyLocalsOf(r) /\ HandlerOK(r)'
  BY <1>1, AnswerStep
<1>6. \A q \in Requests \ {r} : HandlerOK(q)'
  BY <1>2, <1>5, OthersKeep DEF Inv, TypeOK
<1>7. TypeOK'
  BY <1>3, <1>4, <1>5 DEF TypeOK, TablesType, LocalsType
<1>8. QED
  BY <1>4, <1>5, <1>6, <1>7 DEF Inv

LEMMA RemoveCustomerInv ==
  ASSUME Inv, NEW r \in Requests, RemoveCustomer(r), contended' \subseteq Ids
  PROVE  Inv'
<1>1. PICK applied \in BOOLEAN, reported \in BOOLEAN :
        /\ Statement(applied, reported)
        /\ present' = IF applied THEN present \ {who[r]} ELSE present
        /\ Reply(r)
  BY DEF RemoveCustomer
<1>2. UNCHANGED <<default, stored, parent, writer, nextId>>
  BY DEF RemoveCustomer
<1>3. faults' \in 0..MaxFaults
  BY <1>1, StatementType DEF Inv, TypeOK
<1>4. TablesType' /\ Authored' /\ OwnDefaults'
  <2>1. present' \subseteq Customers
    BY <1>1 DEF Inv, TypeOK
  <2>2. QED
    BY <1>2, <2>1 DEF Inv, TypeOK, TablesType, Authored, OwnDefaults
<1>5. LocalsType' /\ OnlyLocalsOf(r) /\ HandlerOK(r)'
  BY <1>1, AnswerStep
<1>6. \A q \in Requests \ {r} : HandlerOK(q)'
  BY <1>2, <1>5, OthersKeep DEF Inv, TypeOK
<1>7. TypeOK'
  BY <1>3, <1>4, <1>5 DEF TypeOK, TablesType, LocalsType
<1>8. QED
  BY <1>4, <1>5, <1>6, <1>7 DEF Inv

LEMMA StutterInv ==
  ASSUME Inv, UNCHANGED vars PROVE Inv'
<1>1. TypeOK'
  BY DEF Inv, TypeOK, vars
<1>2. \A r \in Requests : HandlerOK(r)'
  BY DEF Inv, HandlerOK, vars
<1>3. OwnDefaults' /\ Authored'
  BY DEF Inv, OwnDefaults, Authored, vars
<1>4. QED
  BY <1>1, <1>2, <1>3 DEF Inv

LEMMA NextInv == Inv /\ [Next]_vars => Inv'
<1>1. SUFFICES ASSUME Inv, [Next]_vars PROVE Inv'
  OBVIOUS
<1>2. CASE UNCHANGED vars
  BY <1>1, <1>2, StutterInv
<1>3. CASE Next
  <2>0. contended' \subseteq Ids
    BY <1>1, <1>3 DEF Next, Contended, Inv, TypeOK
  <2>1. PICK r \in Requests :
          \/ Admit(r) \/ Insert(r) \/ VerifyOwner(r) \/ UpdateColumns(r)
          \/ SetDefault(r) \/ ReReadAddress(r) \/ AnswerWithDefaults(r)
          \/ GuardDefaults(r) \/ RemoveAddress(r) \/ RemoveCustomer(r)
    BY <1>3 DEF Next, Handle
  <2>2. CASE Admit(r)
    BY <1>1, <2>0, <2>2, AdmitInv
  <2>3. CASE Insert(r)
    BY <1>1, <2>0, <2>3, InsertInv
  <2>4. CASE VerifyOwner(r)
    BY <1>1, <2>0, <2>4, VerifyOwnerInv
  <2>5. CASE UpdateColumns(r)
    BY <1>1, <2>0, <2>5, UpdateColumnsInv
  <2>6. CASE SetDefault(r)
    BY <1>1, <2>0, <2>6, SetDefaultInv
  <2>7. CASE ReReadAddress(r)
    BY <1>1, <2>0, <2>7, ReReadAddressInv
  <2>8. CASE AnswerWithDefaults(r)
    BY <1>1, <2>0, <2>8, AnswerWithDefaultsInv
  <2>9. CASE GuardDefaults(r)
    BY <1>1, <2>0, <2>9, GuardDefaultsInv
  <2>10. CASE RemoveAddress(r)
    BY <1>1, <2>0, <2>10, RemoveAddressInv
  <2>11. CASE RemoveCustomer(r)
    BY <1>1, <2>0, <2>11, RemoveCustomerInv
  <2>12. QED
    BY <2>1, <2>2, <2>3, <2>4, <2>5, <2>6, <2>7, <2>8, <2>9, <2>10, <2>11
<1>4. QED
  BY <1>1, <1>2, <1>3

----------------------------------------------------------------------------
(* The theorems.                                                           *)

\* Every state the handlers reach satisfies the inductive invariant: who a
\* request works for, which address it holds and who owns it stay related
\* through all the statements of the other requests.
THEOREM Invariant == Spec => []Inv
<1>1. Init => Inv
  BY InitInv
<1>2. Inv /\ [Next]_vars => Inv'
  BY NextInv
<1>3. QED
  BY <1>1, <1>2, PTL DEF Spec

\* The variables keep their types, and an id has an owner and a writer exactly
\* when it was handed out.
THEOREM TypeCorrect == Spec => []TypeOK
<1>1. Inv => TypeOK
  BY DEF Inv
<1>2. QED
  BY <1>1, Invariant, PTL

\* A default column names an address created for the same customer, though
\* UpdateAddress compares the owner several statements before it writes it.
THEOREM OwnDefaultsTheorem == Spec => []OwnDefaults
<1>1. Inv => OwnDefaults
  BY DEF Inv
<1>2. QED
  BY <1>1, Invariant, PTL

\* How a step can change the addresses that are stored.
LEMMA StoredStep ==
  ASSUME Inv, [Next]_vars
  PROVE  \/ stored' = stored
         \/ stored' = stored \cup {nextId}
         \/ \E r \in Requests :
              /\ pc[r] = "remove" /\ pc'[r] # "remove"
              /\ stored' = stored \ {addr[r]}
<1>1. CASE UNCHANGED vars
  BY <1>1 DEF vars
<1>2. ASSUME NEW r \in Requests, Insert(r)
      PROVE  stored' = stored \/ stored' = stored \cup {nextId}
  BY <1>2 DEF Insert
<1>3. ASSUME NEW r \in Requests, RemoveAddress(r)
      PROVE  \/ stored' = stored
             \/ /\ pc[r] = "remove" /\ pc'[r] # "remove"
                /\ stored' = stored \ {addr[r]}
  BY <1>3 DEF RemoveAddress, Reply, Inv, TypeOK
<1>4. ASSUME NEW r \in Requests,
             \/ Admit(r) \/ VerifyOwner(r) \/ UpdateColumns(r)
             \/ SetDefault(r) \/ ReReadAddress(r) \/ AnswerWithDefaults(r)
             \/ GuardDefaults(r) \/ RemoveCustomer(r)
      PROVE  stored' = stored
  BY <1>4 DEF Admit, VerifyOwner, UpdateColumns, SetDefault, ReReadAddress,
              AnswerWithDefaults, GuardDefaults, RemoveCustomer, tables
<1>5. QED
  BY <1>1, <1>2, <1>3, <1>4 DEF Next, Handle

\* An address is removed only by a request of its own customer past the
\* comparison, and what an address says was written by its owner.
THEOREM OwnerTheorem == Spec => OnlyOwnerChanges
<1> DEFINE Step ==
      /\ \A a \in stored \ stored' :
           \E r \in Requests :
             pc[r] = "remove" /\ pc'[r] # "remove" /\ who[r] = parent[a]
      /\ \A a \in stored' : writer'[a] = parent'[a]
<1>1. Inv /\ Inv' /\ [Next]_vars => [Step]_vars
  <2>1. SUFFICES ASSUME Inv, Inv', [Next]_vars PROVE Step
    OBVIOUS
  <2>2. \A a \in stored' : writer'[a] = parent'[a]
    BY <2>1 DEF Inv, Authored
  <2>3. ASSUME NEW a \in stored, a \notin stored'
        PROVE  \E r \in Requests :
                 pc[r] = "remove" /\ pc'[r] # "remove" /\ who[r] = parent[a]
    <3>1. PICK r \in Requests : /\ pc[r] = "remove" /\ pc'[r] # "remove"
                               /\ stored' = stored \ {addr[r]}
      BY <2>1, <2>3, StoredStep
    <3>2. a = addr[r]
      BY <2>3, <3>1
    <3>3. parent[addr[r]] = who[r]
      BY <2>1, <3>1 DEF Inv, HandlerOK, Checked
    <3>4. QED
      BY <3>1, <3>2, <3>3
  <2>4. QED
    BY <2>2, <2>3
<1>2. QED
  BY <1>1, Invariant, PTL DEF Spec, OnlyOwnerChanges

\* A deleted address stays deleted, although an UPDATE of another request may
\* still come after the DELETE, and its id is not handed out again.
THEOREM DeletedTheorem == Spec => DeletedStaysDeleted
<1> DEFINE Step == \A a \in Ids : (a < nextId /\ a \notin stored) => a \notin stored'
<1>1. Inv /\ [Next]_vars => [Step]_vars
  <2>1. SUFFICES ASSUME Inv, [Next]_vars,
                        NEW a \in Ids, a < nextId, a \notin stored
                 PROVE  a \notin stored'
    OBVIOUS
  <2>2. a # nextId
    BY <2>1 DEF Inv, TypeOK, Ids
  <2>3. QED
    BY <2>1, <2>2, StoredStep
<1>2. QED
  BY <1>1, Invariant, PTL DEF Spec, DeletedStaysDeleted

----------------------------------------------------------------------------
(* Defaults that name a deleted address.                                   *)

\* A request that still has defaults to set holds an address that is stored,
\* and one about to delete an address holds one that is no default, unless
\* the two met over that address.
ApartOK(r) ==
  /\ pc[r] = "default" => want[r] # {}
  /\ (pc[r] \in {"update", "default"} /\ want[r] # {} /\ addr[r] \notin contended)
       => addr[r] \in stored
  /\ (pc[r] = "remove" /\ addr[r] \notin contended /\ who[r] \in present)
       => \A k \in Kinds : default[who[r]][k] # addr[r]

Apart == /\ \A r \in Requests : ApartOK(r)
         /\ \A c \in present, k \in Kinds :
              (default[c][k] # None /\ default[c][k] \notin contended)
                => default[c][k] \in stored

\* The history only grows, and what it is given is what Contended says.
LEMMA ContendedStep ==
  ASSUME Next
  PROVE  /\ contended \subseteq contended'
         /\ \A a \in Ids, r \in Requests, s \in Requests :
              (/\ pc[r] = "remove" /\ addr[r] = a
               /\ addr[s] = a /\ want[s] # {}) => a \in contended'
BY DEF Next, Contended

\* A request keeps what it knows when its locals, the defaults and the
\* addresses are kept.
LEMMA ApartKept ==
  ASSUME Inv, Apart, NEW q \in Requests, contended \subseteq contended',
         pc'[q] = pc[q], who'[q] = who[q], addr'[q] = addr[q],
         want'[q] = want[q], stored \subseteq stored', default' = default,
         present' \subseteq present
  PROVE  ApartOK(q)'
BY DEF Apart, ApartOK

\* The defaults that are not disputed stay stored.
LEMMA DefaultsKept ==
  ASSUME Apart, contended \subseteq contended', stored \subseteq stored',
         default' = default, present' \subseteq present
  PROVE  \A c \in present', k \in Kinds :
           (default'[c][k] # None /\ default'[c][k] \notin contended')
             => default'[c][k] \in stored'
BY DEF Apart

OnlyWantOf(r) == \A q \in Requests \ {r} : want'[q] = want[q]

\* What a request other than the one that moves knows.
LEMMA OthersApart ==
  ASSUME Inv, Apart, NEW r \in Requests, OnlyLocalsOf(r), OnlyWantOf(r),
         contended \subseteq contended', stored \subseteq stored',
         default' = default, present' \subseteq present, ApartOK(r)'
  PROVE  Apart'
<1>1. \A q \in Requests \ {r} : ApartOK(q)'
  BY ApartKept DEF OnlyLocalsOf, OnlyWantOf
<1>2. QED
  BY <1>1, DefaultsKept DEF Apart

LEMMA ReplyApart ==
  ASSUME Inv, NEW r \in Requests, Reply(r)
  PROVE  OnlyLocalsOf(r) /\ OnlyWantOf(r) /\ ApartOK(r)'
<1>1. OnlyLocalsOf(r) /\ pc'[r] = "idle"
  BY ReplyStep DEF Inv, TypeOK, LocalsType
<1>2. OnlyWantOf(r)
  BY DEF Reply, OnlyWantOf, Inv, TypeOK
<1>3. QED
  BY <1>1, <1>2 DEF ApartOK

LEMMA GotoApart ==
  ASSUME Inv, NEW r \in Requests, NEW label, Goto(r, label),
         UNCHANGED <<addr, want>>
  PROVE  /\ OnlyLocalsOf(r) /\ OnlyWantOf(r) /\ pc'[r] = label
         /\ who' = who
BY DEF Goto, OnlyLocalsOf, OnlyWantOf, Inv, TypeOK

\* While no statement has failed, each is applied and reported so.
LEMMA SoundStatement ==
  ASSUME faults \in Nat, faults' = 0, NEW a \in BOOLEAN, NEW b \in BOOLEAN,
         Statement(a, b)
  PROVE  a /\ b
BY DEF Statement

\* One step while no statement fails; contended is the history's.
Sound == /\ Inv /\ Apart /\ faults = 0 /\ faults' = 0
         /\ contended \subseteq contended'

LEMMA AdmitApart ==
  ASSUME Sound, NEW r \in Requests, Admit(r) PROVE Apart'
<1>1. PICK o \in Operations, c \in Customers, a \in 0..nextId - 1,
           w \in SUBSET Kinds :
        /\ op' = [op EXCEPT ![r] = o] /\ pc' = [pc EXCEPT ![r] = FirstStep[o]]
        /\ who' = [who EXCEPT ![r] = c] /\ addr' = [addr EXCEPT ![r] = a]
        /\ want' = [want EXCEPT ![r] = w]
        /\ UNCHANGED <<tables, faults>>
  BY DEF Admit
<1>2. FirstStep[o] \in {"insert", "verify", "close"}
  <2>1. o \in {"CreateAddress", "UpdateAddress", "DeleteAddress", "DeleteCustomer"}
    BY OperationsAssumption DEF OperationsAssumption, AddressOperations
  <2>2. QED
    BY <2>1 DEF FirstStep
<1>3. pc'[r] = FirstStep[o]
  BY <1>1 DEF Sound, Inv, TypeOK
<1>4. OnlyLocalsOf(r) /\ OnlyWantOf(r)
  BY <1>1 DEF Sound, Inv, TypeOK, OnlyLocalsOf, OnlyWantOf
<1>5. ApartOK(r)'
  BY <1>2, <1>3 DEF ApartOK
<1>6. /\ stored \subseteq stored' /\ default' = default
      /\ present' \subseteq present /\ contended \subseteq contended'
      /\ Inv /\ Apart
  BY <1>1 DEF Sound, tables
<1>7. QED
  BY <1>4, <1>5, <1>6, OthersApart

LEMMA InsertApart ==
  ASSUME Sound, NEW r \in Requests, Insert(r) PROVE Apart'
<1>1. PICK applied \in BOOLEAN, reported \in BOOLEAN :
        /\ Statement(applied, reported)
        /\ IF applied
           THEN /\ stored' = stored \cup {nextId} /\ nextId' = nextId + 1
                /\ parent' = [parent EXCEPT ![nextId] = who[r]]
                /\ writer' = [writer EXCEPT ![nextId] = who[r]]
           ELSE UNCHANGED <<stored, nextId, parent, writer>>
        /\ IF reported
           THEN /\ addr' = [addr EXCEPT ![r] = nextId]
                /\ UNCHANGED want /\ AfterWrite(r)
           ELSE Reply(r)
  BY DEF Insert
<1>2. applied /\ reported
  BY <1>1, SoundStatement DEF Sound
<1>3. /\ stored' = stored \cup {nextId} /\ want' = want
      /\ addr' = [addr EXCEPT ![r] = nextId]
      /\ Goto(r, IF want[r] = {} THEN "reread" ELSE "default")
  BY <1>1, <1>2 DEF AfterWrite
<1>4. /\ addr'[r] = nextId /\ want'[r] = want[r]
      /\ pc'[r] = IF want[r] = {} THEN "reread" ELSE "default"
      /\ OnlyLocalsOf(r) /\ OnlyWantOf(r)
  BY <1>3 DEF Goto, Sound, Inv, TypeOK, OnlyLocalsOf, OnlyWantOf
<1>5. ApartOK(r)'
  BY <1>3, <1>4 DEF ApartOK
<1>6. /\ stored \subseteq stored' /\ default' = default
      /\ present' \subseteq present /\ contended \subseteq contended'
      /\ Inv /\ Apart
  BY <1>3 DEF Sound, Insert
<1>7. QED
  BY <1>4, <1>5, <1>6, OthersApart

\* The comparison of VerifyOwner reads the address, so it is stored then.
LEMMA VerifyOwnerApart ==
  ASSUME Sound, NEW r \in Requests, VerifyOwner(r) PROVE Apart'
<1>1. PICK ok \in BOOLEAN :
        /\ Statement(ok, ok)
        /\ IF ok /\ addr[r] \in stored /\ parent[addr[r]] = who[r]
           THEN /\ Goto(r, IF op[r] = "UpdateAddress" THEN "update" ELSE "guard")
                /\ UNCHANGED <<addr, want>>
           ELSE Reply(r)
  BY DEF VerifyOwner
<1>2. /\ stored' = stored /\ default' = default /\ present' = present
      /\ contended \subseteq contended' /\ Inv /\ Apart
  BY DEF VerifyOwner, tables, Sound
<1>3. CASE Reply(r)
  BY <1>2, <1>3, ReplyApart, OthersApart
<1>4. CASE /\ addr[r] \in stored /\ UNCHANGED <<addr, want>>
           /\ Goto(r, IF op[r] = "UpdateAddress" THEN "update" ELSE "guard")
  <2>1. /\ OnlyLocalsOf(r) /\ OnlyWantOf(r)
        /\ pc'[r] \in {"update", "guard"} /\ addr' = addr
    BY <1>2, <1>4, GotoApart
  <2>2. ApartOK(r)'
    BY <1>2, <1>4, <2>1 DEF ApartOK
  <2>3. QED
    BY <1>2, <2>1, <2>2, OthersApart
<1>5. QED
  BY <1>1, <1>3, <1>4

LEMMA UpdateColumnsApart ==
  ASSUME Sound, NEW r \in Requests, UpdateColumns(r) PROVE Apart'
<1>1. /\ stored' = stored /\ default' = default /\ present' = present
      /\ contended \subseteq contended' /\ Inv /\ Apart /\ pc[r] = "update"
  BY DEF UpdateColumns, Sound
<1>2. CASE Reply(r)
  BY <1>1, <1>2, ReplyApart, OthersApart
<1>3. CASE AfterWrite(r) /\ UNCHANGED <<addr, want>>
  <2>1. /\ OnlyLocalsOf(r) /\ OnlyWantOf(r) /\ addr' = addr /\ want' = want
        /\ pc'[r] = IF want[r] = {} THEN "reread" ELSE "default"
    BY <1>1, <1>3, GotoApart DEF AfterWrite
  <2>2. ApartOK(r)'
    BY <1>1, <2>1 DEF ApartOK, Apart
  <2>3. QED
    BY <1>1, <2>1, <2>2, OthersApart
<1>4. QED
  BY <1>2, <1>3 DEF UpdateColumns

\* A default written over a deletion past its check is disputed: contended
\* takes the address in the same step.
LEMMA SetDefaultApart ==
  ASSUME Sound, NEW r \in Requests, SetDefault(r),
         \A a \in Ids, p \in Requests, q \in Requests :
           (/\ pc[p] = "remove" /\ addr[p] = a
            /\ addr[q] = a /\ want[q] # {}) => a \in contended'
  PROVE  Apart'
<1> DEFINE k == IF "billing" \in want[r] THEN "billing" ELSE "shipping"
<1>1. /\ default' = default
           \/ default' = [default EXCEPT ![who[r]][k] = addr[r]]
      /\ want' = [want EXCEPT ![r] = @ \ {k}]
      /\ Goto(r, IF want[r] = {k} THEN "reread" ELSE "default")
      /\ UNCHANGED <<present, stored, addr>> /\ pc[r] = "default"
  BY DEF SetDefault
<1>2. k \in Kinds
  BY DEF Kinds
<1>3. want[r] # {k} => want[r] \ {k} # {}
  <2>1. want[r] # {}
    BY <1>1 DEF Sound, Apart, ApartOK
  <2>2. QED
    BY <2>1
<1> HIDE DEF k
<1>4. /\ addr[r] \in Ids /\ who[r] \in Customers /\ want[r] # {}
      /\ addr[r] \notin contended => addr[r] \in stored
  BY <1>1 DEF Sound, Inv, Apart, ApartOK, HandlerOK, Checked
<1>5. /\ pc'[r] = IF want[r] = {k} THEN "reread" ELSE "default"
      /\ want'[r] = want[r] \ {k} /\ OnlyLocalsOf(r) /\ OnlyWantOf(r)
  BY <1>1 DEF Goto, Sound, Inv, TypeOK, OnlyLocalsOf, OnlyWantOf
<1>6. \A c \in Customers, j \in Kinds :
        default'[c][j] = default[c][j] \/ default'[c][j] = addr[r]
  <2>1. default \in [Customers -> [Kinds -> Ids \cup {None}]]
    BY DEF Sound, Inv, TypeOK
  <2>2. default' = default \/ default' = [default EXCEPT ![who[r]][k] = addr[r]]
    BY <1>1
  <2>3. QED
    BY <1>2, <1>4, <2>1, <2>2
<1>7. contended \subseteq contended'
  BY DEF Sound
<1>8. \A c \in present', j \in Kinds :
        (default'[c][j] # None /\ default'[c][j] \notin contended')
          => default'[c][j] \in stored'
  BY <1>1, <1>4, <1>6, <1>7 DEF Sound, Inv, TypeOK, Apart
<1>9. ApartOK(r)'
  BY <1>1, <1>3, <1>4, <1>5, <1>7 DEF ApartOK
<1>10. ASSUME NEW q \in Requests \ {r} PROVE ApartOK(q)'
  <2>1. /\ pc'[q] = pc[q] /\ who'[q] = who[q] /\ want'[q] = want[q]
        /\ addr'[q] = addr[q]
    BY <1>1, <1>5 DEF OnlyLocalsOf, OnlyWantOf
  <2>2. ASSUME pc[q] = "remove", addr[q] \notin contended', who[q] \in present,
               NEW j \in Kinds
        PROVE  default'[who[q]][j] # addr[q]
    <3>1. default[who[q]][j] # addr[q]
      BY <1>7, <2>2 DEF Sound, Apart, ApartOK
    <3>2. addr[q] # addr[r]
      BY <1>4, <2>2
    <3>3. who[q] \in Customers
      BY <2>2 DEF Sound, Inv, TypeOK
    <3>4. QED
      BY <1>6, <3>1, <3>2, <3>3
  <2>3. ApartOK(q)
    BY DEF Sound, Apart
  <2>4. QED
    BY <1>1, <1>7, <2>1, <2>2, <2>3 DEF ApartOK
<1>11. QED
  BY <1>8, <1>9, <1>10 DEF Apart

\* Steps that read and leave no default to write behind.
LEMMA ReadingApart ==
  ASSUME Sound, NEW r \in Requests, UNCHANGED tables,
         \/ Reply(r)
         \/ Goto(r, "answer") /\ UNCHANGED <<addr, want>>
  PROVE  Apart'
<1>1. /\ stored' = stored /\ default' = default /\ present' = present
      /\ contended \subseteq contended' /\ Inv /\ Apart
  BY DEF tables, Sound
<1>2. CASE Reply(r)
  BY <1>1, <1>2, ReplyApart, OthersApart
<1>3. CASE Goto(r, "answer") /\ UNCHANGED <<addr, want>>
  <2>1. OnlyLocalsOf(r) /\ OnlyWantOf(r) /\ pc'[r] = "answer"
    BY <1>1, <1>3, GotoApart
  <2>2. ApartOK(r)'
    BY <2>1 DEF ApartOK
  <2>3. QED
    BY <1>1, <2>1, <2>2, OthersApart
<1>4. QED
  BY <1>2, <1>3

\* Past the check no default of the customer is the address.
LEMMA GuardDefaultsApart ==
  ASSUME Sound, NEW r \in Requests, GuardDefaults(r) PROVE Apart'
<1>1. PICK ok \in BOOLEAN :
        /\ Statement(ok, ok)
        /\ IF /\ ok /\ who[r] \in present
              /\ \E k \in Kinds : default[who[r]][k] = addr[r]
           THEN Reply(r)
           ELSE Goto(r, "remove") /\ UNCHANGED <<addr, want>>
  BY DEF GuardDefaults
<1>2. /\ stored' = stored /\ default' = default /\ present' = present
      /\ contended \subseteq contended' /\ Inv /\ Apart /\ UNCHANGED tables
  BY DEF GuardDefaults, tables, Sound
<1>3. ok
  BY <1>1, SoundStatement DEF Sound
<1>4. CASE Reply(r)
  BY <1>2, <1>4, ReadingApart
<1>5. CASE /\ Goto(r, "remove") /\ UNCHANGED <<addr, want>>
           /\ who[r] \in present => \A k \in Kinds : default[who[r]][k] # addr[r]
  <2>1. /\ OnlyLocalsOf(r) /\ OnlyWantOf(r) /\ pc'[r] = "remove" /\ addr' = addr
        /\ who' = who
    BY <1>2, <1>5, GotoApart
  <2>2. ApartOK(r)'
    BY <1>2, <1>5, <2>1 DEF ApartOK
  <2>3. QED
    BY <1>2, <2>1, <2>2, OthersApart
<1>6. QED
  BY <1>1, <1>3, <1>4, <1>5

\* The address removed is no default of its owner, and nobody else's, unless
\* it is disputed.
LEMMA RemoveAddressApart ==
  ASSUME Sound, NEW r \in Requests, RemoveAddress(r),
         \A a \in Ids, p \in Requests, q \in Requests :
           (/\ pc[p] = "remove" /\ addr[p] = a
            /\ addr[q] = a /\ want[q] # {}) => a \in contended'
  PROVE  Apart'
<1>1. /\ stored' = stored \ {addr[r]} \/ stored' = stored
      /\ default' = default /\ present' = present /\ pc[r] = "remove"
      /\ Reply(r)
  BY DEF RemoveAddress
<1>2. OnlyLocalsOf(r) /\ OnlyWantOf(r) /\ ApartOK(r)'
  BY <1>1, ReplyApart DEF Sound
<1>3. /\ addr[r] \in Ids /\ parent[addr[r]] = who[r]
      /\ contended \subseteq contended'
  BY <1>1 DEF Sound, Inv, HandlerOK, Checked
<1>4. ASSUME NEW c \in present', NEW k \in Kinds, default'[c][k] # None,
             default'[c][k] \notin contended'
      PROVE  default'[c][k] \in stored'
  <2>1. default[c][k] \in stored /\ c \in present /\ c \in Customers
    BY <1>1, <1>3, <1>4 DEF Sound, Apart, Inv, TypeOK
  <2>2. parent[default[c][k]] = c
    BY <1>1, <1>4, <2>1 DEF Sound, Inv, OwnDefaults
  <2>3. default[c][k] # addr[r]
    <3>1. SUFFICES ASSUME default[c][k] = addr[r] PROVE FALSE
      OBVIOUS
    <3>2. c = who[r] /\ addr[r] \notin contended
      BY <1>1, <1>3, <1>4, <2>2, <3>1
    <3>3. QED
      BY <1>1, <2>1, <3>1, <3>2 DEF Sound, Apart, ApartOK
  <2>4. QED
    BY <1>1, <2>1, <2>3
<1>5. ASSUME NEW q \in Requests \ {r} PROVE ApartOK(q)'
  <2>1. /\ pc'[q] = pc[q] /\ who'[q] = who[q] /\ want'[q] = want[q]
        /\ addr'[q] = addr[q]
    BY <1>2 DEF OnlyLocalsOf, OnlyWantOf
  <2>2. ApartOK(q)
    BY DEF Sound, Apart
  <2>3. (want[q] # {} /\ addr[q] \notin contended') => addr[q] # addr[r]
    BY <1>1, <1>3
  <2>4. QED
    BY <1>1, <1>3, <2>1, <2>2, <2>3 DEF ApartOK
<1>6. QED
  BY <1>2, <1>4, <1>5 DEF Apart

LEMMA ApartStep ==
  ASSUME Inv, faults = 0 => Apart, [Next]_vars
  PROVE  faults' = 0 => Apart'
<1>1. SUFFICES ASSUME faults' = 0 PROVE Apart'
  OBVIOUS
<1>2. faults = 0
  <2>1. faults \in Nat
    BY DEF Inv, TypeOK
  <2>2. CASE UNCHANGED vars
    BY <1>1, <2>2 DEF vars
  <2>3. CASE faults' = faults
    BY <1>1, <2>3
  <2>4. ASSUME NEW a, NEW b, Statement(a, b) PROVE faults = 0
    BY <1>1, <2>1, <2>4 DEF Statement
  <2>5. ASSUME NEW r \in Requests, Handle(r) PROVE faults = 0
    BY <2>3, <2>4, <2>5
    DEF Handle, Admit, Insert, VerifyOwner, UpdateColumns, SetDefault,
        ReReadAddress, AnswerWithDefaults, GuardDefaults, RemoveAddress,
        RemoveCustomer
  <2>6. QED
    BY <2>2, <2>5 DEF Next
<1>3. CASE UNCHANGED vars
  BY <1>2, <1>3 DEF vars, Apart, ApartOK
<1>4. ASSUME Next PROVE Apart'
  <2>1. PICK r \in Requests : Handle(r)
    BY <1>4 DEF Next
  <2>2. Sound
    BY <1>1, <1>2, <1>4, ContendedStep DEF Sound
  <2>3. \A a \in Ids, p \in Requests, q \in Requests :
          (/\ pc[p] = "remove" /\ addr[p] = a
           /\ addr[q] = a /\ want[q] # {}) => a \in contended'
    BY <1>4, ContendedStep
  <2>4. CASE Admit(r)
    BY <2>2, <2>4, AdmitApart
  <2>5. CASE Insert(r)
    BY <2>2, <2>5, InsertApart
  <2>6. CASE VerifyOwner(r)
    BY <2>2, <2>6, VerifyOwnerApart
  <2>7. CASE UpdateColumns(r)
    BY <2>2, <2>7, UpdateColumnsApart
  <2>8. CASE SetDefault(r)
    BY <2>2, <2>3, <2>8, SetDefaultApart
  <2>9. CASE ReReadAddress(r) \/ AnswerWithDefaults(r)
    BY <2>2, <2>9, ReadingApart DEF ReReadAddress, AnswerWithDefaults
  <2>10. CASE GuardDefaults(r)
    BY <2>2, <2>10, GuardDefaultsApart
  <2>11. CASE RemoveAddress(r)
    BY <2>2, <2>3, <2>11, RemoveAddressApart
  <2>12. CASE RemoveCustomer(r)
    <3>1. /\ present' \subseteq present /\ stored' = stored
          /\ default' = default /\ Reply(r)
      BY <2>12 DEF RemoveCustomer
    <3>2. QED
      BY <2>2, <3>1, ReplyApart, OthersApart DEF Sound
  <2>13. QED
    BY <2>1, <2>4, <2>5, <2>6, <2>7, <2>8, <2>9, <2>10, <2>11, <2>12
    DEF Handle
<1>5. QED
  BY <1>3, <1>4

\* While no statement fails, a default column of a customer names a deleted
\* address only when the deletion was past its check while a request that
\* makes it a default was under way.
THEOREM DanglingTheorem == Spec => []DanglingMeansOverlap
<1>1. Init => Apart
  BY DEF Init, Apart, ApartOK
<1>2. Inv /\ (faults = 0 => Apart) /\ [Next]_vars => (faults = 0 => Apart)'
  BY ApartStep
<1>3. Inv /\ (faults = 0 => Apart) => DanglingMeansOverlap
  BY DEF Inv, TypeOK, Apart, DanglingMeansOverlap
<1>4. QED
  BY <1>1, <1>2, <1>3, Invariant, PTL DEF Spec
=============================================================================
