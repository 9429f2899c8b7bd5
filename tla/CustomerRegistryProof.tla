----------------------- MODULE CustomerRegistryProof -----------------------
(***************************************************************************)
(* Theorems about CustomerRegistry for any requests, addresses, stores and *)
(* bounds, with or without the unique key.                                 *)
(***************************************************************************)
EXTENDS CustomerRegistry, SequenceTheorems, FiniteSetTheorems, TLAPS

Record == [email : Emails \cup {NoEmail}, website : Nat, store : Stores \cup {NoStore}]

Typed ==
  /\ accounts \in Seq(Record)
  /\ pc \in [Requests -> Labels]
  /\ who \in [Requests -> Nat] /\ website \in [Requests -> Nat]
  /\ store \in [Requests -> Stores \cup {NoStore}]
  /\ email \in [Requests -> Emails \cup {NoEmail}]
  /\ rivals \in [Requests -> SUBSET Nat]

\* The website of a store is looked up, and it is one.
WebsiteOK(r) ==
  /\ pc[r] \in {"load", "website"} => store[r] \in Stores
  /\ pc[r] \in {"exists", "insert", "write"} => website[r] # None

\* Whoever has the address that a request has found free, took it since.
KnownOK(r) ==
  pc[r] \in {"insert", "write"} => Holders(email[r], website[r]) \subseteq rivals[r]

RequestOK(r) == WebsiteOK(r) /\ KnownOK(r)

Inv == Typed /\ \A r \in Requests : RequestOK(r)

----------------------------------------------------------------------------
LEMMA WebsitesExist == \A s \in Stores : WebsiteOf[s] \in Nat \ {None}
BY WebsiteAssumption

LEMMA InitInv == Init => Inv
<1>1. SUFFICES ASSUME Init PROVE Inv
  OBVIOUS
<1>2. accounts \in Seq(Record)
  BY <1>1, EmptySeq DEF Init
<1>3. Typed
  BY <1>1, <1>2 DEF Init, Typed, Labels, None
<1>4. \A r \in Requests : RequestOK(r)
  BY <1>1 DEF Init, RequestOK, WebsiteOK, KnownOK
<1>5. QED
  BY <1>3, <1>4 DEF Inv

\* A request that ends, or goes on without a look at the address.
LEMMA ReplyStep ==
  ASSUME Inv, NEW r \in Requests, NEW answer, Reply(r, answer), Forget(r)
  PROVE  /\ pc' \in [Requests -> Labels] /\ pc'[r] = "idle"
         /\ who' \in [Requests -> Nat] /\ website' \in [Requests -> Nat]
         /\ store' \in [Requests -> Stores \cup {NoStore}]
         /\ email' \in [Requests -> Emails \cup {NoEmail}]
         /\ rivals' \in [Requests -> SUBSET Nat]
         /\ \A q \in Requests \ {r} :
              /\ pc'[q] = pc[q] /\ website'[q] = website[q] /\ store'[q] = store[q]
              /\ email'[q] = email[q] /\ rivals'[q] = rivals[q]
BY DEF Reply, Forget, Inv, Typed, Labels, None

LEMMA EndInv ==
  ASSUME Inv, NEW r \in Requests, NEW answer, Reply(r, answer), Forget(r), UNCHANGED accounts
  PROVE  Inv'
<1>1. Typed'
  BY ReplyStep DEF Inv, Typed
<1>2. RequestOK(r)'
  BY ReplyStep DEF RequestOK, WebsiteOK, KnownOK
<1>3. \A q \in Requests \ {r} : RequestOK(q)'
  BY ReplyStep DEF Inv, RequestOK, WebsiteOK, KnownOK, Holders
<1>4. QED
  BY <1>1, <1>2, <1>3 DEF Inv

LEMMA AdmitInv == ASSUME Inv, NEW r \in Requests, Admit(r) PROVE Inv'
<1>1. PICK o \in Operations, c \in Nat, s \in Stores, e \in Emails :
        /\ pc' = [pc EXCEPT ![r] = FirstStep[o]]
        /\ who' = [who EXCEPT ![r] = c] /\ store' = [store EXCEPT ![r] = s]
        /\ email' = [email EXCEPT ![r] = e]
        /\ UNCHANGED <<accounts, website, rivals>>
  <2>1. PICK o \in Operations, c \in {i \in DOMAIN accounts : Stored(i)} \cup {None},
             s \in Stores, e \in Emails :
          /\ pc[r] = "idle"
          /\ c # None <=> o = "UpdateEmail"
          /\ o = "CreateCustomer" =>
               Len(accounts) + Cardinality(Creating) < MaxAccounts
          /\ op' = [op EXCEPT ![r] = o] /\ pc' = [pc EXCEPT ![r] = FirstStep[o]]
          /\ who' = [who EXCEPT ![r] = c] /\ store' = [store EXCEPT ![r] = s]
          /\ email' = [email EXCEPT ![r] = e]
          /\ UNCHANGED <<tables, cached, faults, website, rivals>>
    BY Zenon DEF Admit
  <2>2. c \in Nat
    <3>1. DOMAIN accounts \subseteq Nat
      BY LenProperties DEF Inv, Typed
    <3>2. c \in DOMAIN accounts \/ c = 0
      BY <2>1 DEF None
    <3>3. QED
      BY <3>1, <3>2
  <2>3. UNCHANGED <<accounts, website, rivals>>
    BY <2>1 DEF tables
  <2>4. QED
    BY <2>1, <2>2, <2>3
<1>2. FirstStep[o] \in {"website", "load"}
  BY OperationsAssumption DEF FirstStep, RegistryOperations
<1>3. Typed'
  BY <1>1, <1>2 DEF Inv, Typed, Labels
<1>4. RequestOK(r)'
  BY <1>1, <1>2 DEF Inv, Typed, RequestOK, WebsiteOK, KnownOK
<1>5. \A q \in Requests \ {r} : RequestOK(q)'
  BY <1>1 DEF Inv, Typed, RequestOK, WebsiteOK, KnownOK, Holders
<1>6. QED
  BY <1>3, <1>4, <1>5 DEF Inv

LEMMA WebsiteInv == ASSUME Inv, NEW r \in Requests, GetWebsiteIDForStore(r) PROVE Inv'
<1>1. PICK w \in Nat :
        /\ w # None /\ website' = [website EXCEPT ![r] = w]
  <2>1. PICK w : /\ w \in {WebsiteOf[store[r]], DefaultWebsite}
                 /\ website' = [website EXCEPT ![r] = w]
    BY DEF GetWebsiteIDForStore
  <2>2. w \in Nat /\ w # None
    <3>1. store[r] \in Stores
      BY DEF GetWebsiteIDForStore, Inv, RequestOK, WebsiteOK
    <3>2. QED
      BY <2>1, <3>1, WebsitesExist DEF DefaultWebsite, None
  <2>3. QED
    BY <2>1, <2>2
<1>2. /\ pc' = [pc EXCEPT ![r] = "exists"]
      /\ UNCHANGED <<accounts, store, who, email, rivals>>
  BY DEF GetWebsiteIDForStore, Goto, tables
<1>3. Typed'
  BY <1>1, <1>2 DEF Inv, Typed, Labels
<1>4. RequestOK(r)'
  BY <1>1, <1>2 DEF Inv, Typed, RequestOK, WebsiteOK, KnownOK
<1>5. \A q \in Requests \ {r} : RequestOK(q)'
  BY <1>1, <1>2 DEF Inv, Typed, RequestOK, WebsiteOK, KnownOK, Holders
<1>6. QED
  BY <1>3, <1>4, <1>5 DEF Inv

LEMMA ExistsInv == ASSUME Inv, NEW r \in Requests, EmailExists(r) PROVE Inv'
<1>1. CASE /\ Holders(email[r], website[r]) = {} /\ op[r] \in DOMAIN AfterExists
           /\ Goto(r, AfterExists[op[r]])
           /\ UNCHANGED <<accounts, who, website, email, rivals>>
  <2>1. AfterExists[op[r]] \in {"insert", "write"}
    BY <1>1 DEF AfterExists
  <2>2. PICK label \in {"insert", "write"} :
          pc' = [pc EXCEPT ![r] = label] /\ UNCHANGED store
    BY <1>1, <2>1 DEF Goto
  <2>3. Typed'
    BY <1>1, <2>2 DEF Inv, Typed, Labels
  <2>4. pc[r] = "exists"
    BY DEF EmailExists
  <2>5. RequestOK(r)'
    BY <1>1, <2>2, <2>4 DEF Inv, Typed, RequestOK, WebsiteOK, KnownOK, Holders
  <2>6. \A q \in Requests \ {r} : RequestOK(q)'
    BY <1>1, <2>2 DEF Inv, Typed, RequestOK, WebsiteOK, KnownOK, Holders
  <2>7. QED
    BY <2>3, <2>5, <2>6 DEF Inv
<1>2. CASE \E answer : Reply(r, answer) /\ Forget(r)
  BY <1>2, EndInv DEF EmailExists, tables
<1>3. QED
  BY <1>1, <1>2 DEF EmailExists, tables

LEMMA LoadInv == ASSUME Inv, NEW r \in Requests, LoadForEmail(r) PROVE Inv'
<1>1. CASE Goto(r, "website") /\ UNCHANGED <<accounts, who, website, email, rivals>>
  <2>1. pc' = [pc EXCEPT ![r] = "website"] /\ UNCHANGED store
    BY <1>1 DEF Goto
  <2>2. Typed'
    BY <1>1, <2>1 DEF Inv, Typed, Labels
  <2>3. pc[r] = "load"
    BY DEF LoadForEmail
  <2>4. \A q \in Requests : RequestOK(q)'
    BY <1>1, <2>1, <2>3 DEF Inv, Typed, RequestOK, WebsiteOK, KnownOK, Holders
  <2>5. QED
    BY <2>2, <2>4 DEF Inv
<1>2. CASE \E answer : Reply(r, answer) /\ Forget(r)
  BY <1>2, EndInv DEF LoadForEmail, tables
<1>3. QED
  BY <1>1, <1>2 DEF LoadForEmail, tables

\* Reading the row back keeps no request from anything.
LEMMA ReadBackInv == ASSUME Inv, NEW r \in Requests, ReadBack(r) PROVE Inv'
<1>1. PICK answer : Reply(r, answer)
  BY DEF ReadBack
<1>2. UNCHANGED <<accounts, rivals>>
  BY DEF ReadBack, tables
<1>3. Typed'
  BY <1>1, <1>2 DEF Reply, Inv, Typed, Labels, None
<1>4. RequestOK(r)'
  BY <1>1 DEF Reply, Inv, Typed, RequestOK, WebsiteOK, KnownOK
<1>5. \A q \in Requests \ {r} : RequestOK(q)'
  BY <1>1, <1>2 DEF Reply, Inv, Typed, RequestOK, WebsiteOK, KnownOK, Holders
<1>6. QED
  BY <1>3, <1>4, <1>5 DEF Inv

LEMMA DeleteInv == ASSUME Inv, NEW c \in DOMAIN accounts, Delete(c) PROVE Inv'
<1>1. accounts' = [accounts EXCEPT ![c] = Gone] /\ UNCHANGED locals
  BY DEF Delete
<1>2. Gone \in Record /\ Gone.website = None
  BY DEF Gone, Record, None
<1>3. accounts' \in Seq(Record) /\ DOMAIN accounts' = DOMAIN accounts
      /\ \A i \in DOMAIN accounts : accounts'[i] = IF i = c THEN Gone ELSE accounts[i]
  BY <1>1, <1>2 DEF Inv, Typed
<1>4. Typed'
  BY <1>1, <1>3 DEF Inv, Typed, locals
<1>5. ASSUME NEW q \in Requests PROVE RequestOK(q)'
  <2>1. RequestOK(q) /\ UNCHANGED <<pc, store, website, email, rivals>>
    BY <1>1 DEF Inv, locals
  <2>2. WebsiteOK(q)'
    BY <2>1 DEF RequestOK, WebsiteOK
  <2>3. KnownOK(q)'
    <3>1. SUFFICES ASSUME pc[q] \in {"insert", "write"}
                   PROVE  Holders(email[q], website[q])' \subseteq rivals[q]
      BY <2>1 DEF KnownOK
    <3>2. website[q] # None /\ Holders(email[q], website[q]) \subseteq rivals[q]
      BY <2>1, <3>1 DEF RequestOK, WebsiteOK, KnownOK
    <3>3. {i \in DOMAIN accounts' : /\ accounts'[i].email = email[q]
                                   /\ accounts'[i].website = website[q]}
            \subseteq Holders(email[q], website[q])
      BY <1>2, <1>3, <3>2 DEF Holders
    <3>4. QED
      BY <2>1, <3>2, <3>3 DEF Holders
  <2>4. QED
    BY <2>2, <2>3 DEF RequestOK
<1>6. QED
  BY <1>4, <1>5 DEF Inv

\* Request r ends or goes on to the row it answers with.
Leaves(r) ==
  \E label \in {"idle", "readback"}, w \in Nat :
    /\ pc' = [pc EXCEPT ![r] = label] /\ who' = [who EXCEPT ![r] = w]
    /\ store' = [store EXCEPT ![r] = NoStore]
    /\ website' = [website EXCEPT ![r] = None] /\ email' = [email EXCEPT ![r] = NoEmail]

LEMMA ReplyLeaves == ASSUME NEW r, NEW answer, Reply(r, answer) PROVE Leaves(r)
BY DEF Reply, Leaves, None

LEMMA ReadBackLeaves == ASSUME NEW r, NEW c \in Nat, GotoReadBack(r, c) PROVE Leaves(r)
BY DEF GotoReadBack, Leaves

LEMMA LeavesStep ==
  ASSUME Inv, NEW r \in Requests, Leaves(r)
  PROVE  /\ pc' \in [Requests -> Labels] /\ pc'[r] \in {"idle", "readback"}
         /\ who' \in [Requests -> Nat] /\ website' \in [Requests -> Nat]
         /\ store' \in [Requests -> Stores \cup {NoStore}]
         /\ email' \in [Requests -> Emails \cup {NoEmail}]
         /\ \A q \in Requests \ {r} :
              /\ pc'[q] = pc[q] /\ website'[q] = website[q] /\ store'[q] = store[q]
              /\ email'[q] = email[q]
BY DEF Leaves, Inv, Typed, Labels, None

LEMMA LeavesInv ==
  ASSUME Inv, NEW r \in Requests, Leaves(r), Forget(r), UNCHANGED accounts
  PROVE  Inv'
<1>1. /\ rivals' \in [Requests -> SUBSET Nat]
      /\ \A q \in Requests \ {r} : rivals'[q] = rivals[q]
  BY DEF Forget, Inv, Typed
<1>2. Typed'
  BY <1>1, LeavesStep DEF Inv, Typed
<1>3. RequestOK(r)'
  BY LeavesStep DEF RequestOK, WebsiteOK, KnownOK
<1>4. \A q \in Requests \ {r} : RequestOK(q)'
  BY <1>1, LeavesStep DEF Inv, RequestOK, WebsiteOK, KnownOK, Holders
<1>5. QED
  BY <1>2, <1>3, <1>4 DEF Inv

\* The address of r is stored for c, and the requests that have found it free
\* before count c among their rivals.
LEMMA TookInv ==
  ASSUME Inv, NEW r \in Requests, NEW c \in Nat, Took(r, c), Leaves(r),
         accounts' \in Seq(Record),
         \A i \in DOMAIN accounts' :
           \/ /\ i \in DOMAIN accounts /\ accounts'[i].email = accounts[i].email
              /\ accounts'[i].website = accounts[i].website
           \/ i = c /\ accounts'[i].email = email[r]
  PROVE  Inv'
<1>1. /\ rivals' \in [Requests -> SUBSET Nat]
      /\ \A q \in Requests \ {r} : rivals[q] \subseteq rivals'[q]
      /\ \A q \in Requests \ {r} :
           email[q] = email[r] /\ pc[q] \in {"insert", "write"} => c \in rivals'[q]
  BY DEF Took, Inv, Typed
<1>2. Typed'
  BY <1>1, LeavesStep DEF Inv, Typed
<1>3. RequestOK(r)'
  BY LeavesStep DEF RequestOK, WebsiteOK, KnownOK
<1>4. ASSUME NEW q \in Requests \ {r} PROVE RequestOK(q)'
  <2>1. RequestOK(q)
    BY DEF Inv
  <2>2. WebsiteOK(q)'
    BY <2>1, LeavesStep DEF RequestOK, WebsiteOK
  <2>3. ASSUME pc[q] \in {"insert", "write"}, NEW i \in DOMAIN accounts',
               accounts'[i].email = email[q], accounts'[i].website = website[q]
        PROVE  i \in rivals'[q]
    BY <1>1, <2>1, <2>3 DEF RequestOK, KnownOK, Holders
  <2>4. KnownOK(q)'
    BY <2>3, LeavesStep DEF KnownOK, Holders
  <2>5. QED
    BY <2>2, <2>4 DEF RequestOK
<1>5. QED
  BY <1>2, <1>3, <1>4 DEF Inv

\* What Create does, by its effect on the table.
LEMMA CreateCases ==
  ASSUME Inv, NEW r \in Requests, Create(r)
  PROVE  \/ Leaves(r) /\ Forget(r) /\ UNCHANGED accounts
         \/ /\ Leaves(r) /\ Took(r, Len(accounts) + 1)
            /\ accounts' = Append(accounts,
                 [email |-> email[r], website |-> website[r], store |-> store[r]])
<1>1. Len(accounts) + 1 \in Nat
  BY LenProperties DEF Inv, Typed
<1>2. CASE \E answer : Reply(r, answer) /\ Forget(r) /\ UNCHANGED accounts
  BY <1>2, ReplyLeaves
<1>3. ASSUME NEW applied \in BOOLEAN, NEW reported \in BOOLEAN,
             IF applied
             THEN /\ accounts' = Append(accounts,
                        [email |-> email[r], website |-> website[r], store |-> store[r]])
                  /\ Took(r, Len(accounts) + 1)
             ELSE Forget(r) /\ UNCHANGED accounts,
             IF reported THEN GotoReadBack(r, Len(accounts) + 1) ELSE Reply(r, "error")
      PROVE  \/ Leaves(r) /\ Forget(r) /\ UNCHANGED accounts
             \/ /\ Leaves(r) /\ Took(r, Len(accounts) + 1)
                /\ accounts' = Append(accounts,
                     [email |-> email[r], website |-> website[r], store |-> store[r]])
  <2>1. Leaves(r)
    BY <1>1, <1>3, ReplyLeaves, ReadBackLeaves
  <2>2. QED
    BY <1>3, <2>1
<1>4. QED
  BY <1>2, <1>3 DEF Create

LEMMA CreateInv == ASSUME Inv, NEW r \in Requests, Create(r) PROVE Inv'
<1>1. CASE Leaves(r) /\ Forget(r) /\ UNCHANGED accounts
  BY <1>1, LeavesInv
<1>2. CASE /\ Leaves(r) /\ Took(r, Len(accounts) + 1)
           /\ accounts' = Append(accounts,
                [email |-> email[r], website |-> website[r], store |-> store[r]])
  <2>1. [email |-> email[r], website |-> website[r], store |-> store[r]] \in Record
    BY DEF Inv, Typed, Record
  <2>2. /\ accounts' \in Seq(Record) /\ DOMAIN accounts' = 1..(Len(accounts) + 1)
        /\ \A i \in DOMAIN accounts : accounts'[i] = accounts[i]
        /\ accounts'[Len(accounts) + 1].email = email[r]
        /\ DOMAIN accounts = 1..Len(accounts) /\ Len(accounts) \in Nat
    BY <1>2, <2>1, LenProperties, AppendProperties DEF Inv, Typed
  <2>3. QED
    BY <1>2, <2>2, TookInv
<1>3. QED
  BY <1>1, <1>2, CreateCases

LEMMA UpdateEmailCases ==
  ASSUME Inv, NEW r \in Requests, UpdateEmail(r)
  PROVE  \/ Leaves(r) /\ Forget(r) /\ UNCHANGED accounts
         \/ /\ Leaves(r) /\ Took(r, who[r]) /\ Stored(who[r])
            /\ accounts' = [accounts EXCEPT ![who[r]].email = email[r]]
<1>1. who[r] \in Nat
  BY DEF Inv, Typed
<1>2. CASE \E answer : Reply(r, answer) /\ Forget(r) /\ UNCHANGED accounts
  BY <1>2, ReplyLeaves
<1>3. ASSUME NEW applied \in BOOLEAN, NEW reported \in BOOLEAN,
             IF applied /\ Stored(who[r])
             THEN /\ accounts' = [accounts EXCEPT ![who[r]].email = email[r]]
                  /\ Took(r, who[r])
             ELSE Forget(r) /\ UNCHANGED accounts,
             IF reported THEN GotoReadBack(r, who[r]) ELSE Reply(r, "error")
      PROVE  \/ Leaves(r) /\ Forget(r) /\ UNCHANGED accounts
             \/ /\ Leaves(r) /\ Took(r, who[r]) /\ Stored(who[r])
                /\ accounts' = [accounts EXCEPT ![who[r]].email = email[r]]
  <2>1. Leaves(r)
    BY <1>1, <1>3, ReplyLeaves, ReadBackLeaves
  <2>2. QED
    BY <1>3, <2>1
<1>4. QED
  BY <1>2, <1>3 DEF UpdateEmail

\* The UPDATE of an email leaves the website and every other row alone.
LEMMA UpdateEmailRow ==
  ASSUME Inv, NEW r \in Requests, pc[r] = "write", Stored(who[r]),
         accounts' = [accounts EXCEPT ![who[r]].email = email[r]]
  PROVE  /\ accounts' \in Seq(Record) /\ DOMAIN accounts' = DOMAIN accounts
         /\ accounts'[who[r]].email = email[r]
         /\ \A i \in DOMAIN accounts : accounts'[i].website = accounts[i].website
         /\ \A i \in DOMAIN accounts : i # who[r] => accounts'[i] = accounts[i]
<1>1. who[r] \in DOMAIN accounts /\ accounts[who[r]] \in Record
  BY ElementOfSeq, LenProperties DEF Stored, Inv, Typed
<1>2. PICK row : /\ row = [accounts[who[r]] EXCEPT !.email = email[r]]
                 /\ accounts' = [accounts EXCEPT ![who[r]] = row]
  OBVIOUS
<1>3. row \in Record /\ row.email = email[r] /\ row.website = accounts[who[r]].website
  BY <1>1, <1>2 DEF Record, Inv, Typed
<1>4. accounts' \in Seq(Record)
  BY <1>1, <1>2, <1>3, ExceptSeq DEF Inv, Typed
<1>5. DOMAIN accounts' = DOMAIN accounts
      /\ \A i \in DOMAIN accounts : accounts'[i] = IF i = who[r] THEN row ELSE accounts[i]
  BY <1>2, LenProperties DEF Inv, Typed
<1>6. QED
  BY <1>1, <1>3, <1>4, <1>5

LEMMA UpdateEmailInv == ASSUME Inv, NEW r \in Requests, UpdateEmail(r) PROVE Inv'
<1>1. CASE Leaves(r) /\ Forget(r) /\ UNCHANGED accounts
  BY <1>1, LeavesInv
<1>2. CASE /\ Leaves(r) /\ Took(r, who[r]) /\ Stored(who[r])
           /\ accounts' = [accounts EXCEPT ![who[r]].email = email[r]]
  <2>1. pc[r] = "write" /\ who[r] \in Nat
    BY DEF UpdateEmail, Inv, Typed
  <2>2. /\ accounts' \in Seq(Record) /\ DOMAIN accounts' = DOMAIN accounts
        /\ accounts'[who[r]].email = email[r]
        /\ \A i \in DOMAIN accounts : accounts'[i].website = accounts[i].website
        /\ \A i \in DOMAIN accounts : i # who[r] => accounts'[i] = accounts[i]
    BY <1>2, <2>1, UpdateEmailRow
  <2>3. \A i \in DOMAIN accounts' :
          \/ /\ i \in DOMAIN accounts /\ accounts'[i].email = accounts[i].email
             /\ accounts'[i].website = accounts[i].website
          \/ i = who[r] /\ accounts'[i].email = email[r]
    BY <2>2
  <2>4. QED
    BY <1>2, <2>1, <2>2, <2>3, TookInv
<1>3. QED
  BY <1>1, <1>2, UpdateEmailCases

LEMMA NextInv == ASSUME Inv, [Next]_vars PROVE Inv'
<1>1. CASE UNCHANGED vars
  BY <1>1 DEF vars, Inv, Typed, RequestOK, WebsiteOK, KnownOK, Holders
<1>2. CASE Next
  BY <1>2, AdmitInv, WebsiteInv, ExistsInv, CreateInv, LoadInv, UpdateEmailInv,
     ReadBackInv, DeleteInv DEF Next
<1>3. QED
  BY <1>1, <1>2

\* The invariant of requests and rows that DuplicateMeansRace rests on.
THEOREM Invariant == Spec => []Inv
<1>1. Init => Inv
  BY InitInv
<1>2. Inv /\ [Next]_vars => Inv'
  BY NextInv
<1>3. QED
  BY <1>1, <1>2, PTL DEF Spec
----------------------------------------------------------------------------
\* The request that writes an address is the one that takes the step.
LEMMA WriterSteps ==
  ASSUME Inv, [Next]_vars, NEW r \in Requests, Written(r) # {}
  PROVE  Create(r) \/ UpdateEmail(r)
<1>1. pc[r] \in {"insert", "write"} /\ pc'[r] # pc[r]
  BY DEF Written
<1>2. ASSUME NEW q \in Requests,
             \/ Admit(q) \/ GetWebsiteIDForStore(q) \/ EmailExists(q) \/ Create(q)
             \/ LoadForEmail(q) \/ UpdateEmail(q) \/ ReadBack(q)
      PROVE  q = r
  <2>1. \E label : pc' = [pc EXCEPT ![q] = label]
    BY <1>2 DEF Admit, GetWebsiteIDForStore, EmailExists, Create, LoadForEmail,
       UpdateEmail, ReadBack, Goto, GotoReadBack, Reply
  <2>2. QED
    BY <1>1, <2>1 DEF Inv, Typed
<1>3. ~ (UNCHANGED vars) /\ \A c : ~ Delete(c)
  BY <1>1 DEF vars, Delete, locals
<1>4. ~ (Admit(r) \/ GetWebsiteIDForStore(r) \/ EmailExists(r) \/ LoadForEmail(r) \/ ReadBack(r))
  BY <1>1 DEF Admit, GetWebsiteIDForStore, EmailExists, LoadForEmail, ReadBack
<1>5. QED
  BY <1>2, <1>3, <1>4 DEF Next

\* What is written is the address of the request.
LEMMA WrittenRow ==
  ASSUME Inv, [Next]_vars, NEW r \in Requests, NEW c \in Written(r)
  PROVE  accounts'[c].email = email[r]
<1>1. /\ c \in DOMAIN accounts'
      /\ c \notin DOMAIN accounts \/ accounts'[c].email # accounts[c].email
  BY DEF Written
<1>2. CASE Create(r)
  <2>1. accounts' = Append(accounts,
          [email |-> email[r], website |-> website[r], store |-> store[r]])
    BY <1>1, <1>2, CreateCases
  <2>2. /\ DOMAIN accounts' = 1..(Len(accounts) + 1) /\ DOMAIN accounts = 1..Len(accounts)
        /\ Len(accounts) \in Nat
        /\ \A i \in DOMAIN accounts : accounts'[i] = accounts[i]
        /\ accounts'[Len(accounts) + 1].email = email[r]
    <3>1. [email |-> email[r], website |-> website[r], store |-> store[r]] \in Record
      BY DEF Inv, Typed, Record
    <3>2. QED
      BY <2>1, <3>1, LenProperties, AppendProperties DEF Inv, Typed
  <2>3. QED
    BY <1>1, <2>2
<1>3. CASE UpdateEmail(r)
  <2>1. Stored(who[r]) /\ accounts' = [accounts EXCEPT ![who[r]].email = email[r]]
    BY <1>1, <1>3, UpdateEmailCases
  <2>2. pc[r] = "write"
    BY <1>3 DEF UpdateEmail
  <2>3. QED
    BY <1>1, <2>1, <2>2, UpdateEmailRow
<1>4. QED
  BY <1>2, <1>3, WriterSteps

\* With any number of requests, stores and websites, an address is given to two
\* accounts of a website only when the other one took it while the request was
\* running, or when the request came in through another website.
THEOREM DuplicateTheorem == Spec => DuplicateMeansRace
<1>1. ASSUME Inv, [Next]_vars, NEW r \in Requests, NEW c \in Written(r)
      PROVE  LET a == accounts'[c] IN
             Holders(a.email, a.website) \ {c} # {} =>
               \/ Holders(a.email, a.website) \ {c} \subseteq rivals[r]
               \/ a.website # website[r]
  <2>1. accounts'[c].email = email[r]
    BY <1>1, WrittenRow
  <2>2. Holders(email[r], website[r]) \subseteq rivals[r]
    BY <1>1 DEF Inv, RequestOK, KnownOK, Written
  <2>3. QED
    BY <2>1, <2>2
<1>2. Inv /\ [Next]_vars =>
        \A r \in Requests : \A c \in Written(r) :
          LET a == accounts'[c] IN
          Holders(a.email, a.website) \ {c} # {} =>
            \/ Holders(a.email, a.website) \ {c} \subseteq rivals[r]
            \/ a.website # website[r]
  BY <1>1
<1>3. QED
  BY <1>2, Invariant, PTL DEF Spec, DuplicateMeansRace

----------------------------------------------------------------------------
(* Types, and accounts in a wrong website.                                 *)

\* A request that wants an address has one, and a store; one past its look-up
\* has a website; only CreateCustomer inserts.
ActiveOK(r) ==
  /\ pc[r] \in {"load", "website", "exists", "insert", "write"} =>
       email[r] \in Emails /\ store[r] \in Stores
  /\ pc[r] \in {"exists", "insert", "write"} => website[r] \in Websites
  /\ pc[r] = "insert" => op[r] = "CreateCustomer"

\* Accounts in a wrong website, and requests that are about to insert one there.
Misplaced ==
  {c \in DOMAIN accounts : Stored(c) /\ accounts[c].website # WebsiteOf[accounts[c].store]}
Misplacing ==
  {r \in Requests : /\ op[r] = "CreateCustomer" /\ pc[r] \in {"exists", "insert"}
                    /\ website[r] # WebsiteOf[store[r]]}

TypeInv == TypeOK /\ \A r \in Requests : ActiveOK(r)

\* Both come out of a failed read of the store, one each.
CountInv ==
  /\ IsFiniteSet(Misplaced) /\ IsFiniteSet(Misplacing)
  /\ Cardinality(Misplaced) + Cardinality(Misplacing) <= faults

LEMMA InitTypeInv == Init => TypeInv
<1>1. SUFFICES ASSUME Init PROVE TypeInv
  OBVIOUS
<1>2. accounts \in Seq(Account \cup {Gone}) /\ Len(accounts) <= MaxAccounts
  BY <1>1, EmptySeq, BoundAssumption DEF Init
<1>3. faults \in 0..MaxFaults
  BY <1>1, BoundAssumption DEF Init
<1>4. TypeOK
  BY <1>1, <1>2, <1>3 DEF Init, TypeOK, Labels
<1>5. \A r \in Requests : ActiveOK(r)
  BY <1>1 DEF Init, ActiveOK
<1>6. QED
  BY <1>4, <1>5 DEF TypeInv

LEMMA FaultStep ==
  ASSUME faults \in 0..MaxFaults, NEW applied, NEW reported \in BOOLEAN,
         Statement(applied, reported)
  PROVE  /\ faults' \in 0..MaxFaults /\ faults <= faults'
         /\ ~reported => faults' = faults + 1
BY BoundAssumption DEF Statement

\* What a step of r keeps of the types, and of the other requests.
Tidy(r) ==
  /\ op' \in [Requests -> Operations \cup {"none"}] /\ pc' \in [Requests -> Labels]
  /\ store' \in [Requests -> Stores \cup {NoStore}]
  /\ website' \in [Requests -> Websites \cup {None}]
  /\ email' \in [Requests -> Emails \cup {NoEmail}]
  /\ \A q \in Requests \ {r} :
       /\ op'[q] = op[q] /\ pc'[q] = pc[q] /\ store'[q] = store[q]
       /\ website'[q] = website[q] /\ email'[q] = email[q]

\* Request r ends, or goes on to read the row of c back.
EndsWith(r, c) ==
  \/ c = None /\ \E answer : Reply(r, answer)
  \/ GotoReadBack(r, c)

LEMMA EndStep ==
  ASSUME TypeInv, NEW r \in Requests, NEW c, EndsWith(r, c)
  PROVE  /\ Tidy(r) /\ pc'[r] \in {"idle", "readback"} /\ ActiveOK(r)'
         /\ who' = [who EXCEPT ![r] = c]
<1>1. \E label \in {"idle", "readback"} :
        /\ pc' = [pc EXCEPT ![r] = label] /\ op' = [op EXCEPT ![r] = "none"]
        /\ who' = [who EXCEPT ![r] = c] /\ store' = [store EXCEPT ![r] = NoStore]
        /\ website' = [website EXCEPT ![r] = None]
        /\ email' = [email EXCEPT ![r] = NoEmail]
  BY DEF EndsWith, Reply, GotoReadBack
<1>2. Tidy(r) /\ pc'[r] \in {"idle", "readback"}
  BY <1>1 DEF Tidy, TypeInv, TypeOK, Labels
<1>3. QED
  BY <1>1, <1>2 DEF ActiveOK

LEMMA ForgetStep ==
  ASSUME TypeInv, NEW r \in Requests, Forget(r) \/ UNCHANGED rivals
  PROVE  rivals' \in [Requests -> SUBSET DOMAIN accounts]
BY DEF TypeInv, TypeOK, Forget

\* A step that leaves the table alone.
LEMMA TidyInv ==
  ASSUME TypeInv, NEW r \in Requests, Tidy(r), ActiveOK(r)',
         UNCHANGED <<uniqueKey, accounts>>, cached' \subseteq Stores,
         faults' \in 0..MaxFaults, Forget(r) \/ UNCHANGED rivals,
         who' \in [Requests -> {None} \cup DOMAIN accounts]
  PROVE  TypeInv'
<1>1. rivals' \in [Requests -> SUBSET DOMAIN accounts]
  BY ForgetStep
<1>2. TypeOK'
  BY <1>1 DEF TypeInv, TypeOK, Tidy
<1>3. \A q \in Requests \ {r} : ActiveOK(q)'
  BY DEF TypeInv, ActiveOK, Tidy
<1>4. QED
  BY <1>2, <1>3 DEF TypeInv

LEMMA AdmitTyped ==
  ASSUME TypeInv, NEW r \in Requests, Admit(r)
  PROVE  /\ TypeInv' /\ Tidy(r) /\ UNCHANGED <<accounts, faults>>
         /\ pc'[r] \notin {"exists", "insert"}
<1>1. PICK o \in Operations, c \in {i \in DOMAIN accounts : Stored(i)} \cup {None},
           s \in Stores, e \in Emails :
        /\ pc[r] = "idle"
        /\ c # None <=> o = "UpdateEmail"
        /\ o = "CreateCustomer" =>
             Len(accounts) + Cardinality(Creating) < MaxAccounts
        /\ op' = [op EXCEPT ![r] = o] /\ pc' = [pc EXCEPT ![r] = FirstStep[o]]
        /\ who' = [who EXCEPT ![r] = c] /\ store' = [store EXCEPT ![r] = s]
        /\ email' = [email EXCEPT ![r] = e]
        /\ UNCHANGED <<tables, cached, faults, website, rivals>>
  BY Zenon DEF Admit
<1>2. FirstStep[o] \in {"website", "load"}
  BY OperationsAssumption DEF FirstStep, RegistryOperations
<1>3. Tidy(r) /\ pc'[r] \in {"website", "load"}
  BY <1>1, <1>2 DEF Tidy, TypeInv, TypeOK, Labels
<1>4. ActiveOK(r)'
  BY <1>1, <1>3 DEF ActiveOK, TypeInv, TypeOK
<1>5. who' \in [Requests -> {None} \cup DOMAIN accounts]
  BY <1>1 DEF TypeInv, TypeOK
<1>6. UNCHANGED <<uniqueKey, accounts, cached, faults, rivals>>
  BY <1>1 DEF tables
<1>7. TypeInv'
  BY <1>3, <1>4, <1>5, <1>6, TidyInv DEF TypeInv, TypeOK
<1>8. QED
  BY <1>3, <1>6, <1>7

\* Only a read that fails finds a wrong website.
LEMMA WebsiteTyped ==
  ASSUME TypeInv, NEW r \in Requests, GetWebsiteIDForStore(r)
  PROVE  /\ TypeInv' /\ Tidy(r) /\ UNCHANGED accounts /\ faults <= faults'
         /\ website'[r] # WebsiteOf[store'[r]] => faults' = faults + 1
<1>1. /\ pc[r] = "website" /\ pc' = [pc EXCEPT ![r] = "exists"]
      /\ UNCHANGED <<uniqueKey, accounts, op, store, who, email, rivals>>
  BY DEF GetWebsiteIDForStore, Goto, tables
<1>2. store[r] \in Stores /\ email[r] \in Emails
  BY <1>1 DEF TypeInv, ActiveOK
<1>3. PICK w \in Websites :
        /\ website' = [website EXCEPT ![r] = w]
        /\ cached' \in {cached, cached \cup {store[r]}}
        /\ faults' \in 0..MaxFaults /\ faults <= faults'
        /\ w # WebsiteOf[store[r]] => faults' = faults + 1
  <2>1. /\ WebsiteOf[store[r]] \in Websites /\ DefaultWebsite \in Websites
        /\ faults \in 0..MaxFaults
    BY <1>2 DEF Websites, TypeInv, TypeOK
  <2>2. CASE /\ website' = [website EXCEPT ![r] = WebsiteOf[store[r]]]
             /\ UNCHANGED <<cached, faults>>
    <3>1. faults' \in 0..MaxFaults /\ faults <= faults' /\ cached' \in {cached}
      BY <2>1, <2>2, BoundAssumption
    <3> WebsiteOf[store[r]] \in Websites
      BY <2>1
    <3> WITNESS WebsiteOf[store[r]] \in Websites
    <3>2. QED
      BY <2>2, <3>1
  <2>3. ASSUME NEW ok \in BOOLEAN, Statement(ok, ok),
               website' = [website EXCEPT ![r] =
                             IF ok THEN WebsiteOf[store[r]] ELSE DefaultWebsite],
               cached' = IF ok THEN cached \cup {store[r]} ELSE cached
        PROVE  \E w \in Websites :
                 /\ website' = [website EXCEPT ![r] = w]
                 /\ cached' \in {cached, cached \cup {store[r]}}
                 /\ faults' \in 0..MaxFaults /\ faults <= faults'
                 /\ w # WebsiteOf[store[r]] => faults' = faults + 1
    BY <2>1, <2>3, FaultStep
  <2>4. QED
    BY <2>2, <2>3 DEF GetWebsiteIDForStore
<1>4. Tidy(r) /\ pc'[r] = "exists" /\ website'[r] = w /\ store' = store
  BY <1>1, <1>3 DEF Tidy, TypeInv, TypeOK, Labels
<1>5. ActiveOK(r)'
  BY <1>1, <1>2, <1>4 DEF ActiveOK
<1>6. cached' \subseteq Stores
  BY <1>2, <1>3 DEF TypeInv, TypeOK
<1>7. TypeInv'
  BY <1>1, <1>3, <1>4, <1>5, <1>6, TidyInv DEF TypeInv, TypeOK
<1>8. QED
  BY <1>1, <1>3, <1>4, <1>7

LEMMA ExistsTyped ==
  ASSUME TypeInv, NEW r \in Requests, EmailExists(r)
  PROVE  /\ TypeInv' /\ Tidy(r) /\ UNCHANGED accounts /\ faults <= faults'
         /\ pc'[r] = "insert" => /\ pc[r] = "exists" /\ op'[r] = op[r]
                                 /\ website'[r] = website[r] /\ store'[r] = store[r]
         /\ pc'[r] # "exists"
<1>1. /\ pc[r] = "exists" /\ UNCHANGED <<uniqueKey, accounts, cached>>
      /\ faults' \in 0..MaxFaults /\ faults <= faults'
  BY FaultStep DEF EmailExists, tables, TypeInv, TypeOK
<1>2. CASE /\ op[r] \in DOMAIN AfterExists /\ Goto(r, AfterExists[op[r]])
           /\ UNCHANGED <<who, website, email, rivals>>
  <2>1. \/ op[r] = "CreateCustomer" /\ AfterExists[op[r]] = "insert"
        \/ op[r] = "UpdateEmail" /\ AfterExists[op[r]] = "write"
    BY <1>2 DEF AfterExists
  <2>2. /\ pc' = [pc EXCEPT ![r] = AfterExists[op[r]]]
        /\ UNCHANGED <<op, store, who, website, email, rivals>>
    BY <1>2 DEF Goto
  <2>3. Tidy(r) /\ pc'[r] \in {"insert", "write"} /\ (pc'[r] = "insert" => op[r] = "CreateCustomer")
    BY <2>1, <2>2 DEF Tidy, TypeInv, TypeOK, Labels
  <2>4. ActiveOK(r)'
    BY <1>1, <2>2, <2>3 DEF ActiveOK, TypeInv
  <2>5. TypeInv'
    BY <1>1, <2>2, <2>3, <2>4, TidyInv DEF TypeInv, TypeOK
  <2>6. QED
    BY <1>1, <2>2, <2>3, <2>5
<1>3. CASE Reply(r, "refused") /\ Forget(r)
  <2>1. /\ Tidy(r) /\ pc'[r] \in {"idle", "readback"} /\ ActiveOK(r)'
        /\ who' = [who EXCEPT ![r] = None]
    BY <1>3, EndStep DEF EndsWith
  <2>2. who' \in [Requests -> {None} \cup DOMAIN accounts]
    BY <2>1 DEF TypeInv, TypeOK
  <2>3. TypeInv'
    BY <1>1, <1>3, <2>1, <2>2, TidyInv DEF TypeInv, TypeOK
  <2>4. QED
    BY <1>1, <2>1, <2>3
<1>4. QED
  BY <1>2, <1>3 DEF EmailExists

LEMMA LoadTyped ==
  ASSUME TypeInv, NEW r \in Requests, LoadForEmail(r)
  PROVE  /\ TypeInv' /\ Tidy(r) /\ UNCHANGED accounts /\ faults <= faults'
         /\ pc'[r] \notin {"exists", "insert"}
<1>1. /\ pc[r] = "load" /\ UNCHANGED <<uniqueKey, accounts, cached>>
      /\ faults' \in 0..MaxFaults /\ faults <= faults'
  BY FaultStep DEF LoadForEmail, tables, TypeInv, TypeOK
<1>2. CASE Goto(r, "website") /\ UNCHANGED <<who, website, email, rivals>>
  <2>1. /\ pc' = [pc EXCEPT ![r] = "website"]
        /\ UNCHANGED <<op, store, who, website, email, rivals>>
    BY <1>2 DEF Goto
  <2>2. Tidy(r) /\ pc'[r] = "website"
    BY <2>1 DEF Tidy, TypeInv, TypeOK, Labels
  <2>3. ActiveOK(r)'
    BY <1>1, <2>1, <2>2 DEF ActiveOK, TypeInv
  <2>4. TypeInv'
    BY <1>1, <2>1, <2>2, <2>3, TidyInv DEF TypeInv, TypeOK
  <2>5. QED
    BY <1>1, <2>2, <2>4
<1>3. CASE Reply(r, "error") /\ Forget(r)
  <2>1. /\ Tidy(r) /\ pc'[r] \in {"idle", "readback"} /\ ActiveOK(r)'
        /\ who' = [who EXCEPT ![r] = None]
    BY <1>3, EndStep DEF EndsWith
  <2>2. who' \in [Requests -> {None} \cup DOMAIN accounts]
    BY <2>1 DEF TypeInv, TypeOK
  <2>3. TypeInv'
    BY <1>1, <1>3, <2>1, <2>2, TidyInv DEF TypeInv, TypeOK
  <2>4. QED
    BY <1>1, <2>1, <2>3
<1>4. QED
  BY <1>2, <1>3 DEF LoadForEmail

LEMMA ReadBackTyped ==
  ASSUME TypeInv, NEW r \in Requests, ReadBack(r)
  PROVE  /\ TypeInv' /\ Tidy(r) /\ UNCHANGED accounts /\ faults <= faults'
         /\ pc'[r] \notin {"exists", "insert"}
<1>1. /\ UNCHANGED <<uniqueKey, accounts, cached, rivals>>
      /\ faults' \in 0..MaxFaults /\ faults <= faults'
  BY FaultStep DEF ReadBack, tables, TypeInv, TypeOK
<1>2. EndsWith(r, None)
  BY DEF ReadBack, EndsWith
<1>3. /\ Tidy(r) /\ pc'[r] \in {"idle", "readback"} /\ ActiveOK(r)'
      /\ who' = [who EXCEPT ![r] = None]
  BY <1>2, EndStep
<1>4. who' \in [Requests -> {None} \cup DOMAIN accounts]
  BY <1>3 DEF TypeInv, TypeOK
<1>5. TypeInv'
  BY <1>1, <1>3, <1>4, TidyInv DEF TypeInv, TypeOK
<1>6. QED
  BY <1>1, <1>3, <1>5

\* What a step of r does to the table and to the rivals, r having ended or gone
\* on to the row it answers with.
LEMMA WriteTyped ==
  ASSUME TypeInv, NEW r \in Requests, NEW c, EndsWith(r, c),
         UNCHANGED <<uniqueKey, cached>>, faults' \in 0..MaxFaults,
         accounts' \in Seq(Account \cup {Gone}), Len(accounts') <= MaxAccounts,
         DOMAIN accounts \subseteq DOMAIN accounts',
         c \in {None} \cup DOMAIN accounts',
         Forget(r) \/ \E d \in DOMAIN accounts' : Took(r, d)
  PROVE  TypeInv' /\ Tidy(r) /\ pc'[r] \in {"idle", "readback"}
<1>1. /\ Tidy(r) /\ pc'[r] \in {"idle", "readback"} /\ ActiveOK(r)'
      /\ who' = [who EXCEPT ![r] = c]
  BY EndStep
<1>2. who' \in [Requests -> {None} \cup DOMAIN accounts']
  BY <1>1 DEF TypeInv, TypeOK
<1>3. rivals' \in [Requests -> SUBSET DOMAIN accounts']
  <2>1. rivals \in [Requests -> SUBSET DOMAIN accounts]
    BY DEF TypeInv, TypeOK
  <2>2. CASE Forget(r)
    BY <2>1, <2>2 DEF Forget
  <2>3. ASSUME NEW d \in DOMAIN accounts', Took(r, d)
        PROVE  rivals' \in [Requests -> SUBSET DOMAIN accounts']
    BY <2>1, <2>3 DEF Took
  <2>4. QED
    BY <2>2, <2>3
<1>4. TypeOK'
  BY <1>1, <1>2, <1>3 DEF TypeInv, TypeOK, Tidy
<1>5. \A q \in Requests \ {r} : ActiveOK(q)'
  BY <1>1 DEF TypeInv, ActiveOK, Tidy
<1>6. QED
  BY <1>1, <1>4, <1>5 DEF TypeInv

NewAccount(r) == [email |-> email[r], website |-> website[r], store |-> store[r]]

LEMMA CreateTyped ==
  ASSUME TypeInv, NEW r \in Requests, Create(r)
  PROVE  /\ TypeInv' /\ Tidy(r) /\ pc'[r] \in {"idle", "readback"}
         /\ faults <= faults' /\ pc[r] = "insert" /\ op[r] = "CreateCustomer"
         /\ \/ UNCHANGED accounts
            \/ /\ DOMAIN accounts' = DOMAIN accounts \cup {Len(accounts) + 1}
               /\ \A i \in DOMAIN accounts : accounts'[i] = accounts[i]
               /\ accounts'[Len(accounts) + 1] = NewAccount(r)
<1>1. /\ pc[r] = "insert" /\ UNCHANGED <<uniqueKey, cached>>
      /\ op[r] = "CreateCustomer" /\ NewAccount(r) \in Account
  BY DEF Create, TypeInv, ActiveOK, NewAccount, Account
<1>2. /\ accounts \in Seq(Account \cup {Gone}) /\ Len(accounts) <= MaxAccounts
      /\ Len(accounts) \in Nat /\ DOMAIN accounts = 1..Len(accounts)
      /\ faults \in 0..MaxFaults
  BY LenProperties DEF TypeInv, TypeOK
<1>3. CASE Reply(r, "error") /\ Forget(r) /\ UNCHANGED <<accounts, faults>>
  <2>1. EndsWith(r, None) /\ faults <= faults'
    BY <1>2, <1>3, BoundAssumption DEF EndsWith
  <2>2. TypeInv' /\ Tidy(r) /\ pc'[r] \in {"idle", "readback"}
    BY <1>1, <1>2, <1>3, <2>1, WriteTyped
  <2>3. QED
    BY <1>1, <1>3, <2>1, <2>2
<1>4. ASSUME Len(accounts) < MaxAccounts,
             NEW applied \in BOOLEAN, NEW reported \in BOOLEAN,
             Statement(applied, reported),
             IF applied
             THEN accounts' = Append(accounts, NewAccount(r)) /\ Took(r, Len(accounts) + 1)
             ELSE Forget(r) /\ UNCHANGED accounts,
             IF reported THEN GotoReadBack(r, Len(accounts) + 1) ELSE Reply(r, "error")
      PROVE  /\ TypeInv' /\ Tidy(r) /\ pc'[r] \in {"idle", "readback"}
             /\ faults <= faults'
             /\ \/ UNCHANGED accounts
                \/ /\ DOMAIN accounts' = DOMAIN accounts \cup {Len(accounts) + 1}
                   /\ \A i \in DOMAIN accounts : accounts'[i] = accounts[i]
                   /\ accounts'[Len(accounts) + 1] = NewAccount(r)
  <2>1. faults' \in 0..MaxFaults /\ faults <= faults' /\ (reported => applied)
    BY <1>2, <1>4, FaultStep DEF Statement
  <2>2. CASE applied
    <3>1. /\ accounts' \in Seq(Account \cup {Gone}) /\ Len(accounts') = Len(accounts) + 1
          /\ \A i \in DOMAIN accounts : accounts'[i] = accounts[i]
          /\ accounts'[Len(accounts) + 1] = NewAccount(r)
      BY <1>1, <1>2, <1>4, <2>2, AppendProperties
    <3>2. DOMAIN accounts' = DOMAIN accounts \cup {Len(accounts) + 1}
      <4>1. DOMAIN accounts' = 1..Len(accounts')
        BY <3>1, LenProperties
      <4>2. QED
        BY <1>2, <3>1, <4>1
    <3>3. Len(accounts') <= MaxAccounts
      BY <1>2, <1>4, <3>1, BoundAssumption
    <3>4. \E c \in {None} \cup DOMAIN accounts' : EndsWith(r, c)
      BY <1>4, <3>2 DEF EndsWith
    <3>5. TypeInv' /\ Tidy(r) /\ pc'[r] \in {"idle", "readback"}
      BY <1>1, <1>4, <2>1, <2>2, <3>1, <3>2, <3>3, <3>4, WriteTyped
    <3>6. QED
      BY <2>1, <3>1, <3>2, <3>5
  <2>3. CASE ~applied
    <3>1. EndsWith(r, None)
      BY <1>4, <2>1, <2>3 DEF EndsWith
    <3>2. TypeInv' /\ Tidy(r) /\ pc'[r] \in {"idle", "readback"}
      BY <1>1, <1>2, <1>4, <2>1, <2>3, <3>1, WriteTyped
    <3>3. QED
      BY <1>4, <2>1, <2>3, <3>2
  <2>4. QED
    BY <2>2, <2>3
<1>5. QED
  BY <1>1, <1>3, <1>4 DEF Create, NewAccount

\* The UPDATE leaves website and store of every row alone.
LEMMA UpdateEmailTyped ==
  ASSUME TypeInv, NEW r \in Requests, UpdateEmail(r)
  PROVE  /\ TypeInv' /\ Tidy(r) /\ pc'[r] \in {"idle", "readback"}
         /\ faults <= faults' /\ DOMAIN accounts' = DOMAIN accounts
         /\ \A i \in DOMAIN accounts :
              \/ accounts'[i] = accounts[i]
              \/ /\ accounts[i] # Gone /\ accounts'[i].website = accounts[i].website
                 /\ accounts'[i].store = accounts[i].store
<1>1. /\ pc[r] = "write" /\ UNCHANGED <<uniqueKey, cached>> /\ email[r] \in Emails
      /\ who[r] \in {None} \cup DOMAIN accounts
  BY DEF UpdateEmail, TypeInv, ActiveOK, TypeOK
<1>2. /\ accounts \in Seq(Account \cup {Gone}) /\ Len(accounts) <= MaxAccounts
      /\ Len(accounts) \in Nat /\ DOMAIN accounts = 1..Len(accounts)
      /\ faults \in 0..MaxFaults
  BY LenProperties DEF TypeInv, TypeOK
<1>3. CASE Reply(r, "error") /\ Forget(r) /\ UNCHANGED <<accounts, faults>>
  <2>1. EndsWith(r, None) /\ faults <= faults'
    BY <1>2, <1>3, BoundAssumption DEF EndsWith
  <2>2. TypeInv' /\ Tidy(r) /\ pc'[r] \in {"idle", "readback"}
    BY <1>1, <1>2, <1>3, <2>1, WriteTyped
  <2>3. QED
    BY <1>3, <2>1, <2>2
<1>4. ASSUME NEW applied \in BOOLEAN, NEW reported \in BOOLEAN,
             Statement(applied, reported),
             IF applied /\ Stored(who[r])
             THEN /\ accounts' = [accounts EXCEPT ![who[r]].email = email[r]]
                  /\ Took(r, who[r])
             ELSE Forget(r) /\ UNCHANGED accounts,
             IF reported THEN GotoReadBack(r, who[r]) ELSE Reply(r, "error")
      PROVE  /\ TypeInv' /\ Tidy(r) /\ pc'[r] \in {"idle", "readback"}
             /\ faults <= faults' /\ DOMAIN accounts' = DOMAIN accounts
             /\ \A i \in DOMAIN accounts :
                  \/ accounts'[i] = accounts[i]
                  \/ /\ accounts[i] # Gone /\ accounts'[i].website = accounts[i].website
                     /\ accounts'[i].store = accounts[i].store
  <2>1. faults' \in 0..MaxFaults /\ faults <= faults'
    BY <1>2, <1>4, FaultStep
  <2>2. \E c \in {None} \cup DOMAIN accounts : EndsWith(r, c)
    BY <1>1, <1>4 DEF EndsWith
  <2>3. CASE applied /\ Stored(who[r])
    <3>1. who[r] \in DOMAIN accounts /\ accounts[who[r]] \in Account
      BY <1>2, <2>3, ElementOfSeq DEF Stored
    <3>2. PICK new : /\ new = [accounts[who[r]] EXCEPT !.email = email[r]]
                     /\ accounts' = [accounts EXCEPT ![who[r]] = new]
      BY <1>4, <2>3
    <3>3. /\ new \in Account /\ new.website = accounts[who[r]].website
          /\ new.store = accounts[who[r]].store
      BY <1>1, <3>1, <3>2 DEF Account
    <3>4. /\ accounts' \in Seq(Account \cup {Gone}) /\ Len(accounts') = Len(accounts)
          /\ \A i \in DOMAIN accounts :
               accounts'[i] = IF i = who[r] THEN new ELSE accounts[i]
      BY <1>2, <3>1, <3>2, <3>3, ExceptSeq
    <3>5. DOMAIN accounts' = DOMAIN accounts
      BY <3>2
    <3>6. TypeInv' /\ Tidy(r) /\ pc'[r] \in {"idle", "readback"}
      BY <1>1, <1>2, <1>4, <2>1, <2>2, <2>3, <3>1, <3>4, <3>5, WriteTyped
    <3>7. QED
      BY <2>1, <2>3, <3>3, <3>4, <3>5, <3>6 DEF Stored
  <2>4. CASE ~(applied /\ Stored(who[r]))
    <3>1. TypeInv' /\ Tidy(r) /\ pc'[r] \in {"idle", "readback"}
      BY <1>1, <1>2, <1>4, <2>1, <2>2, <2>4, WriteTyped
    <3>2. QED
      BY <1>4, <2>1, <2>4, <3>1
  <2>5. QED
    BY <2>3, <2>4
<1>5. QED
  BY <1>3, <1>4 DEF UpdateEmail

LEMMA DeleteTyped ==
  ASSUME TypeInv, NEW c \in DOMAIN accounts, Delete(c)
  PROVE  /\ TypeInv' /\ UNCHANGED <<op, pc, store, website, faults>>
         /\ DOMAIN accounts' = DOMAIN accounts
         /\ \A i \in DOMAIN accounts : accounts'[i] \in {accounts[i], Gone}
<1>1. /\ accounts' = [accounts EXCEPT ![c] = Gone]
      /\ UNCHANGED <<uniqueKey, cached, faults, op, pc, who, store, website, email, rivals>>
  BY DEF Delete, locals
<1>2. /\ accounts \in Seq(Account \cup {Gone}) /\ DOMAIN accounts = 1..Len(accounts)
  BY LenProperties DEF TypeInv, TypeOK
<1>3. /\ accounts' \in Seq(Account \cup {Gone}) /\ Len(accounts') = Len(accounts)
      /\ DOMAIN accounts' = DOMAIN accounts
      /\ \A i \in DOMAIN accounts : accounts'[i] \in {accounts[i], Gone}
  BY <1>1, <1>2, ExceptSeq
<1>4. TypeOK'
  BY <1>1, <1>3 DEF TypeInv, TypeOK
<1>5. \A q \in Requests : ActiveOK(q)'
  BY <1>1 DEF TypeInv, ActiveOK
<1>6. QED
  BY <1>1, <1>3, <1>4, <1>5 DEF TypeInv

LEMMA NextTypeInv == TypeInv /\ [Next]_vars => TypeInv'
<1>1. TypeInv /\ UNCHANGED vars => TypeInv'
  BY DEF vars, TypeInv, TypeOK, ActiveOK
<1>2. QED
  BY <1>1, AdmitTyped, WebsiteTyped, ExistsTyped, CreateTyped, LoadTyped,
     UpdateEmailTyped, ReadBackTyped, DeleteTyped DEF Next

----------------------------------------------------------------------------
\* Two finite sets that grow by one together with the bound of their sizes, or
\* when the other one loses a member.
LEMMA Sums ==
  ASSUME NEW A, NEW B, NEW A2, NEW B2, NEW x, NEW f \in Nat, NEW g \in Nat,
         IsFiniteSet(A), IsFiniteSet(B), Cardinality(A) + Cardinality(B) <= f,
         \/ f <= g /\ A2 \subseteq A /\ B2 \subseteq B
         \/ g = f + 1 /\ A2 \subseteq A /\ B2 \subseteq B \cup {x}
         \/ /\ f <= g /\ A2 \subseteq A \cup {x}
            /\ \E y \in B : B2 \subseteq B \ {y}
  PROVE  /\ IsFiniteSet(A2) /\ IsFiniteSet(B2)
         /\ Cardinality(A2) + Cardinality(B2) <= g
<1>1. Cardinality(A) \in Nat /\ Cardinality(B) \in Nat
  BY FS_CardinalityType
<1>2. ASSUME NEW S, NEW T \in SUBSET S, IsFiniteSet(S)
      PROVE  /\ IsFiniteSet(T) /\ Cardinality(T) \in Nat
             /\ Cardinality(T) <= Cardinality(S)
  BY <1>2, FS_Subset, FS_CardinalityType
<1>3. /\ IsFiniteSet(A \cup {x}) /\ IsFiniteSet(B \cup {x})
      /\ Cardinality(A \cup {x}) \in {Cardinality(A), Cardinality(A) + 1}
      /\ Cardinality(B \cup {x}) \in {Cardinality(B), Cardinality(B) + 1}
  BY FS_AddElement
<1>4. CASE f <= g /\ A2 \subseteq A /\ B2 \subseteq B
  BY <1>1, <1>2, <1>4
<1>5. CASE g = f + 1 /\ A2 \subseteq A /\ B2 \subseteq B \cup {x}
  <2>1. /\ IsFiniteSet(A2) /\ IsFiniteSet(B2)
        /\ Cardinality(A2) \in Nat /\ Cardinality(A2) <= Cardinality(A)
        /\ Cardinality(B2) \in Nat /\ Cardinality(B2) <= Cardinality(B \cup {x})
    BY <1>2, <1>3, <1>5
  <2>2. QED
    BY <1>1, <1>3, <1>5, <2>1
<1>6. ASSUME f <= g, A2 \subseteq A \cup {x}, NEW y \in B, B2 \subseteq B \ {y}
      PROVE  /\ IsFiniteSet(A2) /\ IsFiniteSet(B2)
             /\ Cardinality(A2) + Cardinality(B2) <= g
  <2>1. IsFiniteSet(B \ {y}) /\ Cardinality(B \ {y}) = Cardinality(B) - 1
    BY <1>6, FS_RemoveElement
  <2>2. /\ IsFiniteSet(A2) /\ IsFiniteSet(B2)
        /\ Cardinality(A2) \in Nat /\ Cardinality(A2) <= Cardinality(A \cup {x})
        /\ Cardinality(B2) \in Nat /\ Cardinality(B2) <= Cardinality(B \ {y})
    BY <1>2, <1>3, <1>6, <2>1
  <2>3. QED
    BY <1>1, <1>3, <1>6, <2>1, <2>2
<1>7. QED
  BY <1>4, <1>5, <1>6

LEMMA CountStep ==
  ASSUME TypeInv, TypeInv', CountInv, NEW x,
         \/ /\ faults <= faults' /\ Misplaced' \subseteq Misplaced
            /\ Misplacing' \subseteq Misplacing
         \/ /\ faults' = faults + 1 /\ Misplaced' \subseteq Misplaced
            /\ Misplacing' \subseteq Misplacing \cup {x}
         \/ /\ faults <= faults' /\ Misplaced' \subseteq Misplaced \cup {x}
            /\ \E y \in Misplacing : Misplacing' \subseteq Misplacing \ {y}
  PROVE  CountInv'
<1>1. faults \in Nat /\ faults' \in Nat
  BY DEF TypeInv, TypeOK
<1>2. /\ IsFiniteSet(Misplaced) /\ IsFiniteSet(Misplacing)
      /\ Cardinality(Misplaced) + Cardinality(Misplacing) <= faults
  BY DEF CountInv
<1>3. /\ IsFiniteSet(Misplaced') /\ IsFiniteSet(Misplacing')
      /\ Cardinality(Misplaced') + Cardinality(Misplacing') <= faults'
  BY <1>1, <1>2, Sums
<1>4. QED
  BY <1>3 DEF CountInv

LEMMA NextCountInv == TypeInv /\ CountInv /\ [Next]_vars => CountInv'
<1> SUFFICES ASSUME TypeInv, CountInv, [Next]_vars PROVE CountInv'
  OBVIOUS
<1>0. TypeInv' /\ faults \in Nat
  BY NextTypeInv DEF TypeInv, TypeOK
<1>1. ASSUME NEW r \in Requests, Admit(r) \/ LoadForEmail(r) \/ ReadBack(r) PROVE CountInv'
  <2>1. /\ Tidy(r) /\ UNCHANGED accounts /\ faults <= faults'
        /\ pc'[r] \notin {"exists", "insert"}
    BY <1>0, <1>1, AdmitTyped, LoadTyped, ReadBackTyped
  <2>2. Misplaced' \subseteq Misplaced /\ Misplacing' \subseteq Misplacing
    BY <2>1 DEF Misplaced, Misplacing, Stored, Tidy
  <2>3. QED
    BY <1>0, <2>1, <2>2, CountStep
<1>2. ASSUME NEW r \in Requests, GetWebsiteIDForStore(r) PROVE CountInv'
  <2>1. /\ Tidy(r) /\ UNCHANGED accounts /\ faults <= faults'
        /\ website'[r] # WebsiteOf[store'[r]] => faults' = faults + 1
    BY <1>2, WebsiteTyped
  <2>2. /\ Misplaced' \subseteq Misplaced /\ Misplacing' \subseteq Misplacing \cup {r}
        /\ website'[r] = WebsiteOf[store'[r]] => Misplacing' \subseteq Misplacing
    BY <2>1 DEF Misplaced, Misplacing, Stored, Tidy
  <2>3. QED
    BY <1>0, <2>1, <2>2, CountStep
<1>3. ASSUME NEW r \in Requests, EmailExists(r) PROVE CountInv'
  <2>1. /\ Tidy(r) /\ UNCHANGED accounts /\ faults <= faults'
        /\ pc'[r] = "insert" => /\ pc[r] = "exists" /\ op'[r] = op[r]
                                /\ website'[r] = website[r] /\ store'[r] = store[r]
        /\ pc'[r] # "exists"
    BY <1>3, ExistsTyped
  <2>2. Misplaced' \subseteq Misplaced /\ Misplacing' \subseteq Misplacing
    BY <2>1 DEF Misplaced, Misplacing, Stored, Tidy
  <2>3. QED
    BY <1>0, <2>1, <2>2, CountStep
<1>4. ASSUME NEW r \in Requests, Create(r) PROVE CountInv'
  <2>1. /\ Tidy(r) /\ pc'[r] \in {"idle", "readback"}
        /\ faults <= faults' /\ pc[r] = "insert" /\ op[r] = "CreateCustomer"
    BY <1>4, CreateTyped
  <2>2. Misplacing' \subseteq Misplacing \ {r}
    BY <2>1 DEF Misplacing, Tidy
  <2>3. CASE UNCHANGED accounts
    <3>1. Misplaced' \subseteq Misplaced
      BY <2>3 DEF Misplaced, Stored
    <3>2. QED
      BY <1>0, <2>1, <2>2, <3>1, CountStep
  <2>4. CASE /\ DOMAIN accounts' = DOMAIN accounts \cup {Len(accounts) + 1}
             /\ \A i \in DOMAIN accounts : accounts'[i] = accounts[i]
             /\ accounts'[Len(accounts) + 1] = NewAccount(r)
    <3>1. Misplaced' \subseteq Misplaced \cup {Len(accounts) + 1}
      BY <2>4 DEF Misplaced, Stored
    <3>2. CASE website[r] # WebsiteOf[store[r]]
      <4>1. r \in Misplacing
        BY <2>1, <3>2 DEF Misplacing
      <4>2. QED
        BY <1>0, <2>1, <2>2, <3>1, <4>1, CountStep
    <3>3. CASE website[r] = WebsiteOf[store[r]]
      <4>1. Misplaced' \subseteq Misplaced
        BY <2>4, <3>3 DEF Misplaced, Stored, NewAccount
      <4>2. QED
        BY <1>0, <2>1, <2>2, <4>1, CountStep
    <3>4. QED
      BY <3>2, <3>3
  <2>5. QED
    BY <1>4, <2>3, <2>4, CreateTyped
<1>5. ASSUME NEW r \in Requests, UpdateEmail(r) PROVE CountInv'
  <2>1. /\ Tidy(r) /\ pc'[r] \in {"idle", "readback"}
        /\ faults <= faults' /\ DOMAIN accounts' = DOMAIN accounts
        /\ \A i \in DOMAIN accounts :
             \/ accounts'[i] = accounts[i]
             \/ /\ accounts[i] # Gone /\ accounts'[i].website = accounts[i].website
                /\ accounts'[i].store = accounts[i].store
    BY <1>5, UpdateEmailTyped
  <2>2. Misplaced' \subseteq Misplaced /\ Misplacing' \subseteq Misplacing
    BY <2>1 DEF Misplaced, Misplacing, Stored, Tidy
  <2>3. QED
    BY <1>0, <2>1, <2>2, CountStep
<1>6. ASSUME NEW c \in DOMAIN accounts, Delete(c) PROVE CountInv'
  <2>1. /\ UNCHANGED <<op, pc, store, website, faults>> /\ DOMAIN accounts' = DOMAIN accounts
        /\ \A i \in DOMAIN accounts : accounts'[i] \in {accounts[i], Gone}
    BY <1>6, DeleteTyped
  <2>2. Misplaced' \subseteq Misplaced /\ Misplacing' \subseteq Misplacing
    BY <2>1 DEF Misplaced, Misplacing, Stored
  <2>3. QED
    BY <1>0, <2>1, <2>2, CountStep
<1>7. CASE UNCHANGED vars
  BY <1>7 DEF vars, CountInv, Misplaced, Misplacing, Stored
<1>8. QED
  BY <1>1, <1>2, <1>3, <1>4, <1>5, <1>6, <1>7 DEF Next

\* Every failed read of a store (store.go:59) leaves one account in a wrong
\* website at most, however many requests meet the failure at once: it is not
\* cached, and a request inserts one account.
THEOREM WebsitesTheorem == Spec => []WebsitesOK
<1>1. Init => CountInv
  <2> SUFFICES ASSUME Init PROVE CountInv
    OBVIOUS
  <2>1. Misplaced = {} /\ Misplacing = {} /\ faults = 0
    BY DEF Init, Misplaced, Misplacing
  <2>2. QED
    BY <2>1, FS_EmptySet DEF CountInv
<1>2. TypeInv /\ CountInv => WebsitesOK
  <2> SUFFICES ASSUME TypeInv, CountInv PROVE WebsitesOK
    OBVIOUS
  <2>1. /\ Cardinality(Misplaced) \in Nat /\ Cardinality(Misplacing) \in Nat
        /\ Cardinality(Misplaced) + Cardinality(Misplacing) <= faults /\ faults \in Nat
    BY FS_CardinalityType DEF CountInv, TypeInv, TypeOK
  <2>2. Cardinality(Misplaced) <= faults
    BY <2>1
  <2>3. QED
    BY <2>2 DEF Misplaced, MisplacedMeansFailed, WebsitesOK, TypeInv
<1>3. QED
  BY <1>1, <1>2, InitTypeInv, NextTypeInv, NextCountInv, PTL DEF Spec
=============================================================================
