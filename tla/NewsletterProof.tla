-------------------------- MODULE NewsletterProof --------------------------
(***************************************************************************)
(* Theorems about Newsletter for every set of requests, addresses and      *)
(* stores and every bound, with and without the unique key.  Inv says      *)
(* which locals a request has set at which step, that the bounds leave     *)
(* room for whoever is about to insert, and in which order the rows of a   *)
(* customer are subscribed.                                                *)
(***************************************************************************)
EXTENDS Newsletter, SequenceTheorems, FiniteSetTheorems, TLAPS

TablesOK ==
  /\ uniqueKey \in UniqueKeys
  /\ address \in Seq(Emails \cup {NoEmail}) /\ subscribers \in Seq(Subscriber)
  /\ \A i \in DOMAIN subscribers : subscribers[i].owner \in DOMAIN address
  /\ faults \in 0..MaxFaults

LocalsOK ==
  /\ pc \in [Requests -> Labels]
  /\ who \in [Requests -> {None} \cup DOMAIN address]
  /\ store \in [Requests -> Stores \cup {NoStore}]
  /\ email \in [Requests -> Emails \cup {NoEmail}]
  /\ wish \in [Requests -> Wishes]

\* A request about a customer knows it, one that subscribes it knows the store,
\* and one that writes the address knows it.
ActiveOK(r) ==
  /\ pc[r] \in {"columns", "address", "subscribe", "unsubscribe"} =>
       who[r] \in DOMAIN address
  /\ wish[r] = "subscribe" =>
       store[r] \in Stores /\ pc[r] \in {"insert", "columns", "address", "subscribe"}
  /\ pc[r] \in {"insert", "subscribe"} => email[r] \in Emails
  /\ pc[r] = "subscribe" => wish[r] = "subscribe"

\* Requests that may still insert a customer, or a newsletter row.
Inserting == {r \in Requests : pc[r] = "insert"}
Wishing   == {r \in Requests : wish[r] = "subscribe"}

\* The bounds leave room for the rows that are still to be inserted.
RoomOK ==
  /\ IsFiniteSet(Inserting) /\ Len(address) + Cardinality(Inserting) <= MaxAccounts
  /\ IsFiniteSet(Wishing)
  /\ Len(subscribers) + Cardinality(Wishing) <= MaxSubscribers

\* A customer with rows has a latest one; and where subscribing always inserts,
\* a row that is subscribed is followed by subscribed rows of its owner only.
RowsOK ==
  /\ \A i \in DOMAIN subscribers : \E j \in DOMAIN subscribers :
       /\ subscribers[j].owner = subscribers[i].owner
       /\ \A k \in DOMAIN subscribers :
            subscribers[k].owner = subscribers[i].owner => k <= j
  /\ ~uniqueKey =>
       \A i, j \in DOMAIN subscribers :
         (i <= j /\ subscribers[j].owner = subscribers[i].owner
            /\ subscribers[i].subscribed) => subscribers[j].subscribed

Inv == TablesOK /\ LocalsOK /\ (\A r \in Requests : ActiveOK(r)) /\ RoomOK /\ RowsOK

----------------------------------------------------------------------------
\* A finite set and a table that leave room under a bound: the set loses a
\* member when the table gets a row, and gets one only while there is room.
LEMMA Room ==
  ASSUME NEW A, NEW B, NEW x, NEW n \in Nat, NEW m \in Nat, NEW k \in Nat,
         IsFiniteSet(A), n + Cardinality(A) <= k,
         \/ B \subseteq A /\ m = n
         \/ B \subseteq A \cup {x} /\ m = n /\ n + Cardinality(A) < k
         \/ x \in A /\ B \subseteq A \ {x} /\ m = n + 1
  PROVE  IsFiniteSet(B) /\ m + Cardinality(B) <= k
<1>1. Cardinality(A) \in Nat
  BY FS_CardinalityType
<1>2. ASSUME NEW S, NEW T \in SUBSET S, IsFiniteSet(S)
      PROVE  IsFiniteSet(T) /\ Cardinality(T) \in Nat /\ Cardinality(T) <= Cardinality(S)
  BY <1>2, FS_Subset, FS_CardinalityType
<1>3. CASE B \subseteq A /\ m = n
  BY <1>1, <1>2, <1>3
<1>4. CASE B \subseteq A \cup {x} /\ m = n /\ n + Cardinality(A) < k
  <2>1. /\ IsFiniteSet(A \cup {x})
        /\ Cardinality(A \cup {x}) \in {Cardinality(A), Cardinality(A) + 1}
    BY FS_AddElement
  <2>2. IsFiniteSet(B) /\ Cardinality(B) \in Nat /\ Cardinality(B) <= Cardinality(A \cup {x})
    BY <1>2, <1>4, <2>1
  <2>3. QED
    BY <1>1, <1>4, <2>1, <2>2
<1>5. CASE x \in A /\ B \subseteq A \ {x} /\ m = n + 1
  <2>1. IsFiniteSet(A \ {x}) /\ Cardinality(A \ {x}) = Cardinality(A) - 1
    BY <1>5, FS_RemoveElement
  <2>2. IsFiniteSet(B) /\ Cardinality(B) \in Nat /\ Cardinality(B) <= Cardinality(A \ {x})
    BY <1>2, <1>5, <2>1
  <2>3. QED
    BY <1>1, <1>5, <2>1, <2>2
<1>6. QED
  BY <1>3, <1>4, <1>5

LEMMA InitInv == Init => Inv
<1> SUFFICES ASSUME Init PROVE Inv
  OBVIOUS
<1>1. /\ address \in Seq(Emails \cup {NoEmail}) /\ subscribers \in Seq(Subscriber)
      /\ Len(address) = 0 /\ Len(subscribers) = 0 /\ DOMAIN subscribers = {}
      /\ faults \in 0..MaxFaults /\ uniqueKey \in UniqueKeys
  BY BoundAssumption DEF Init
<1>2. TablesOK
  BY <1>1 DEF TablesOK
<1>3. LocalsOK
  BY DEF Init, LocalsOK, Labels, Wishes, None, NoStore, NoEmail
<1>4. \A r \in Requests : ActiveOK(r)
  BY DEF Init, ActiveOK
<1>5. Inserting = {} /\ Wishing = {}
  BY DEF Init, Inserting, Wishing
<1>6. IsFiniteSet({}) /\ Cardinality({}) = 0
  BY FS_EmptySet
<1>7. RoomOK
  BY <1>1, <1>5, <1>6, BoundAssumption DEF RoomOK
<1>8. RowsOK
  BY <1>1 DEF RowsOK
<1>9. QED
  BY <1>2, <1>3, <1>4, <1>7, <1>8 DEF Inv

HadOK == had \subseteq (DOMAIN address) \X (Emails \cup {NoEmail})

\* The inductive invariant is more than the types and what is shown.
LEMMA InvSubscriptions ==
  ASSUME Inv
  PROVE  /\ Len(address) <= MaxAccounts
         /\ HadOK => SubscriptionsOK
<1>1. /\ Cardinality(Inserting) \in Nat /\ Cardinality(Wishing) \in Nat
      /\ Len(address) \in Nat /\ Len(subscribers) \in Nat
      /\ Len(address) + Cardinality(Inserting) <= MaxAccounts
      /\ Len(subscribers) + Cardinality(Wishing) <= MaxSubscribers
  BY FS_CardinalityType DEF Inv, RoomOK, TablesOK
<1>2. Len(address) <= MaxAccounts /\ Len(subscribers) <= MaxSubscribers
  BY <1>1, BoundAssumption
<1>3. HadOK => TypeOK
  BY <1>2 DEF Inv, TablesOK, LocalsOK, TypeOK, HadOK
<1>4. ASSUME ~uniqueKey, NEW c, Receives(c) PROVE IsSubscribed(c)
  <2>1. PICK i \in DOMAIN subscribers : subscribers[i].owner = c /\ subscribers[i].subscribed
    BY <1>4 DEF Receives
  <2>2. PICK j \in DOMAIN subscribers :
          /\ subscribers[j].owner = c
          /\ \A k \in DOMAIN subscribers : subscribers[k].owner = c => k <= j
    BY <2>1 DEF Inv, RowsOK
  <2>3. i <= j
    BY <2>1, <2>2
  <2>4. subscribers[j].subscribed
    BY <1>4, <2>1, <2>2, <2>3 DEF Inv, RowsOK
  <2>5. QED
    BY <2>2, <2>4 DEF IsSubscribed
<1>5. ASSUME NEW c, IsSubscribed(c) PROVE Receives(c)
  BY <1>5 DEF IsSubscribed, Receives
<1>6. QED
  BY <1>2, <1>3, <1>4, <1>5 DEF SubscriptionsOK, ShownAsReached

----------------------------------------------------------------------------
\* What a step of r keeps of the types, and of the other requests.
Tidy(r) ==
  /\ pc' \in [Requests -> Labels]
  /\ who' \in [Requests -> {None} \cup DOMAIN address']
  /\ store' \in [Requests -> Stores \cup {NoStore}]
  /\ email' \in [Requests -> Emails \cup {NoEmail}]
  /\ wish' \in [Requests -> Wishes]
  /\ \A q \in Requests \ {r} :
       /\ pc'[q] = pc[q] /\ who'[q] = who[q] /\ store'[q] = store[q]
       /\ email'[q] = email[q] /\ wish'[q] = wish[q]
  /\ ActiveOK(r)'

\* Customers are added at the end, or change their address.
Growing ==
  /\ address' \in Seq(Emails \cup {NoEmail})
  /\ DOMAIN address \subseteq DOMAIN address'

LEMMA TidyInv ==
  ASSUME Inv, NEW r \in Requests, Tidy(r), Growing, TablesOK', RoomOK', RowsOK'
  PROVE  Inv'
<1>1. LocalsOK'
  BY DEF Tidy, LocalsOK
<1>2. ASSUME NEW q \in Requests \ {r} PROVE ActiveOK(q)'
  BY DEF Inv, ActiveOK, Tidy, Growing
<1>3. QED
  BY <1>1, <1>2 DEF Inv, Tidy

\* The room that is left when a request inserts what it was admitted for.
LEMMA RoomStep ==
  ASSUME Inv, NEW r \in Requests, Tidy(r), TablesOK', pc'[r] # "insert",
         \/ Len(address') = Len(address)
         \/ pc[r] = "insert" /\ Len(address') = Len(address) + 1,
         wish'[r] = "subscribe" => wish[r] = "subscribe",
         \/ Len(subscribers') = Len(subscribers)
         \/ /\ wish[r] = "subscribe" /\ wish'[r] # "subscribe"
            /\ Len(subscribers') = Len(subscribers) + 1
  PROVE  RoomOK'
<1>1. /\ Len(address) \in Nat /\ Len(address') \in Nat /\ MaxAccounts \in Nat
      /\ Len(subscribers) \in Nat /\ Len(subscribers') \in Nat /\ MaxSubscribers \in Nat
  BY BoundAssumption DEF Inv, TablesOK
<1>2. /\ Inserting' \subseteq Inserting
      /\ Inserting' \subseteq Inserting \ {r}
      /\ pc[r] = "insert" => r \in Inserting
  BY DEF Inserting, Tidy
<1>3. /\ Wishing' \subseteq Wishing
      /\ wish'[r] # "subscribe" => Wishing' \subseteq Wishing \ {r}
      /\ wish[r] = "subscribe" => r \in Wishing
  BY DEF Wishing, Tidy
<1>4. /\ IsFiniteSet(Inserting) /\ Len(address) + Cardinality(Inserting) <= MaxAccounts
      /\ IsFiniteSet(Wishing) /\ Len(subscribers) + Cardinality(Wishing) <= MaxSubscribers
  BY DEF Inv, RoomOK
<1>5. IsFiniteSet(Inserting') /\ Len(address') + Cardinality(Inserting') <= MaxAccounts
  BY <1>1, <1>2, <1>4, Room
<1>6. IsFiniteSet(Wishing') /\ Len(subscribers') + Cardinality(Wishing') <= MaxSubscribers
  BY <1>1, <1>3, <1>4, Room
<1>7. QED
  BY <1>5, <1>6 DEF RoomOK

LEMMA FaultType ==
  ASSUME faults \in 0..MaxFaults, NEW applied, NEW reported \in BOOLEAN,
         Statement(applied, reported)
  PROVE  faults' \in 0..MaxFaults /\ (~reported => faults' > 0)
BY BoundAssumption DEF Statement

LEMMA SameRows ==
  ASSUME Inv, UNCHANGED <<uniqueKey, subscribers>> PROVE RowsOK'
BY DEF Inv, RowsOK

\* A request that leaves both tables alone.
LEMMA ReadInv ==
  ASSUME Inv, NEW r \in Requests, Tidy(r), pc'[r] # "insert",
         wish'[r] = "subscribe" => wish[r] = "subscribe",
         UNCHANGED <<uniqueKey, address, subscribers>>, faults' \in 0..MaxFaults
  PROVE  Inv'
<1>1. TablesOK' /\ Growing
  BY DEF Inv, TablesOK, Growing
<1>2. RoomOK' /\ RowsOK'
  BY <1>1, RoomStep, SameRows
<1>3. QED
  BY <1>1, <1>2, TidyInv

\* A request that ends, or goes on to read a row back.
LEMMA EndStep ==
  ASSUME Inv, NEW r \in Requests, Growing,
         NEW label \in {"idle", "readback"}, NEW c \in {None} \cup DOMAIN address',
         GotoWith(r, label, c)
  PROVE  Tidy(r) /\ pc'[r] = label /\ wish'[r] = "keep"
<1>1. /\ pc' \in [Requests -> Labels] /\ pc'[r] = label
      /\ store' \in [Requests -> Stores \cup {NoStore}]
      /\ email' \in [Requests -> Emails \cup {NoEmail}]
      /\ wish' \in [Requests -> Wishes] /\ wish'[r] = "keep"
  BY DEF GotoWith, Inv, LocalsOK, Labels, Wishes
<1>2. who' \in [Requests -> {None} \cup DOMAIN address']
  BY DEF GotoWith, Inv, LocalsOK, Growing
<1>3. \A q \in Requests \ {r} :
        /\ pc'[q] = pc[q] /\ who'[q] = who[q] /\ store'[q] = store[q]
        /\ email'[q] = email[q] /\ wish'[q] = wish[q]
  BY DEF GotoWith, Inv, LocalsOK
<1>4. ActiveOK(r)'
  BY <1>1 DEF ActiveOK
<1>5. QED
  BY <1>1, <1>2, <1>3, <1>4 DEF Tidy

LEMMA ReplyStep ==
  ASSUME Inv, NEW r \in Requests, NEW answer, Reply(r, answer),
         UNCHANGED <<uniqueKey, address, subscribers>>, faults' \in 0..MaxFaults
  PROVE  Inv'
<1>1. Growing
  BY DEF Inv, TablesOK, Growing
<1>2. Tidy(r) /\ pc'[r] = "idle" /\ wish'[r] = "keep"
  BY <1>1, EndStep DEF Reply
<1>3. QED
  BY <1>2, ReadInv

LEMMA ReadBackStep ==
  ASSUME Inv, NEW r \in Requests, pc[r] # "insert", NEW c \in DOMAIN address,
         GotoWith(r, "readback", c),
         UNCHANGED <<uniqueKey, address, subscribers>>, faults' \in 0..MaxFaults
  PROVE  Inv'
<1>1. Growing
  BY DEF Inv, TablesOK, Growing
<1>2. Tidy(r) /\ pc'[r] = "readback" /\ wish'[r] = "keep"
  BY <1>1, EndStep
<1>3. QED
  BY <1>2, ReadInv

----------------------------------------------------------------------------
LEMMA AdmitCreateInv == ASSUME Inv, NEW r \in Requests, AdmitCreate(r) PROVE Inv'
<1>1. PICK s \in Stores, e \in Emails, w \in {"keep", "subscribe"} :
        /\ pc[r] = "idle"
        /\ Len(address) + Cardinality(Inserting) < MaxAccounts
        /\ w = "subscribe" => Len(subscribers) + Cardinality(Wishing) < MaxSubscribers
        /\ pc' = [pc EXCEPT ![r] = "insert"]
        /\ store' = [store EXCEPT ![r] = s] /\ email' = [email EXCEPT ![r] = e]
        /\ wish' = [wish EXCEPT ![r] = w]
        /\ UNCHANGED <<uniqueKey, address, subscribers, faults, who>>
  BY DEF AdmitCreate, Pending, Subscribing, Inserting, Wishing
<1>2. /\ pc'[r] = "insert" /\ store'[r] = s /\ email'[r] = e /\ wish'[r] = w
      /\ Growing /\ TablesOK'
  BY <1>1 DEF Inv, LocalsOK, TablesOK, Growing
<1>3. Tidy(r)
  BY <1>1, <1>2 DEF Tidy, Inv, LocalsOK, ActiveOK, Labels, Wishes
<1>4. Inserting' \subseteq Inserting \cup {r}
  BY <1>3 DEF Inserting, Tidy
<1>5. /\ Wishing' \subseteq Wishing \cup {r}
      /\ w # "subscribe" => Wishing' \subseteq Wishing
  BY <1>2, <1>3 DEF Wishing, Tidy
<1>6. /\ Len(address) \in Nat /\ MaxAccounts \in Nat /\ Len(address') = Len(address)
      /\ Len(subscribers) \in Nat /\ MaxSubscribers \in Nat
      /\ Len(subscribers') = Len(subscribers)
      /\ IsFiniteSet(Inserting) /\ Len(address) + Cardinality(Inserting) <= MaxAccounts
      /\ IsFiniteSet(Wishing) /\ Len(subscribers) + Cardinality(Wishing) <= MaxSubscribers
  BY <1>1, BoundAssumption DEF Inv, TablesOK, RoomOK
<1>7. IsFiniteSet(Inserting') /\ Len(address') + Cardinality(Inserting') <= MaxAccounts
  BY <1>1, <1>4, <1>6, Room
<1>8. IsFiniteSet(Wishing') /\ Len(subscribers') + Cardinality(Wishing') <= MaxSubscribers
  BY <1>1, <1>5, <1>6, Room
<1>9. RoomOK' /\ RowsOK'
  BY <1>1, <1>7, <1>8, SameRows DEF RoomOK
<1>10. QED
  BY <1>2, <1>3, <1>9, TidyInv

LEMMA AdmitUpdateInv == ASSUME Inv, NEW r \in Requests, AdmitUpdate(r) PROVE Inv'
<1>1. PICK c \in DOMAIN address, s \in Stores \cup {NoStore}, w \in Wishes :
        /\ pc[r] = "idle"
        /\ s # NoStore <=> w = "subscribe"
        /\ w = "subscribe" => Len(subscribers) + Cardinality(Wishing) < MaxSubscribers
        /\ pc' = [pc EXCEPT ![r] = "columns"] /\ who' = [who EXCEPT ![r] = c]
        /\ store' = [store EXCEPT ![r] = s] /\ wish' = [wish EXCEPT ![r] = w]
        /\ UNCHANGED <<uniqueKey, address, subscribers, faults, email>>
  BY DEF AdmitUpdate, Subscribing, Wishing
<1>2. /\ pc'[r] = "columns" /\ store'[r] = s /\ who'[r] = c /\ wish'[r] = w
      /\ Growing /\ TablesOK'
  BY <1>1 DEF Inv, LocalsOK, TablesOK, Growing
<1>3. ActiveOK(r)'
  BY <1>1, <1>2 DEF ActiveOK
<1>4. Tidy(r)
  BY <1>1, <1>3 DEF Tidy, Inv, LocalsOK, Labels
<1>5. Inserting' \subseteq Inserting
  BY <1>2, <1>4 DEF Inserting, Tidy
<1>6. /\ Wishing' \subseteq Wishing \cup {r}
      /\ w # "subscribe" => Wishing' \subseteq Wishing
  BY <1>2, <1>4 DEF Wishing, Tidy
<1>7. /\ Len(address) \in Nat /\ MaxAccounts \in Nat /\ Len(address') = Len(address)
      /\ Len(subscribers) \in Nat /\ MaxSubscribers \in Nat
      /\ Len(subscribers') = Len(subscribers)
      /\ IsFiniteSet(Inserting) /\ Len(address) + Cardinality(Inserting) <= MaxAccounts
      /\ IsFiniteSet(Wishing) /\ Len(subscribers) + Cardinality(Wishing) <= MaxSubscribers
  BY <1>1, BoundAssumption DEF Inv, TablesOK, RoomOK
<1>8. IsFiniteSet(Inserting') /\ Len(address') + Cardinality(Inserting') <= MaxAccounts
  BY <1>5, <1>7, Room
<1>9. IsFiniteSet(Wishing') /\ Len(subscribers') + Cardinality(Wishing') <= MaxSubscribers
  BY <1>1, <1>6, <1>7, Room
<1>10. RoomOK' /\ RowsOK'
  BY <1>1, <1>8, <1>9, SameRows DEF RoomOK
<1>11. QED
  BY <1>2, <1>4, <1>10, TidyInv

\* The customer is added at the end of the table, where the request knows it.
LEMMA CreateInv == ASSUME Inv, NEW r \in Requests, Create(r) PROVE Inv'
<1>1. PICK applied \in BOOLEAN, reported \in BOOLEAN :
        /\ Statement(applied, reported)
        /\ address' = IF applied THEN Append(address, email[r]) ELSE address
        /\ \/ /\ reported /\ wish[r] = "subscribe"
              /\ pc' = [pc EXCEPT ![r] = "subscribe"]
              /\ who' = [who EXCEPT ![r] = Len(address) + 1]
              /\ UNCHANGED <<store, email, wish>>
           \/ /\ reported /\ wish[r] = "keep"
              /\ GotoWith(r, "readback", Len(address) + 1)
           \/ ~reported /\ Reply(r, "error")
  BY DEF Create
<1>2. pc[r] = "insert" /\ UNCHANGED <<uniqueKey, subscribers>>
  BY DEF Create
<1>3. /\ address \in Seq(Emails \cup {NoEmail}) /\ email[r] \in Emails
      /\ subscribers \in Seq(Subscriber)
  BY <1>2 DEF Inv, TablesOK, ActiveOK
<1>4. /\ address' \in Seq(Emails \cup {NoEmail})
      /\ Len(address') \in {Len(address), Len(address) + 1}
      /\ DOMAIN address \subseteq DOMAIN address'
      /\ applied => Len(address) + 1 \in DOMAIN address'
  BY <1>1, <1>3
<1>5. reported => Len(address) + 1 \in DOMAIN address'
  BY <1>1, <1>4 DEF Statement
<1>6. Growing /\ faults' \in 0..MaxFaults
  BY <1>1, <1>4, FaultType DEF Growing, Inv, TablesOK
<1>7. TablesOK'
  BY <1>2, <1>3, <1>4, <1>6 DEF TablesOK, Inv
<1>8. /\ Tidy(r) /\ pc'[r] # "insert"
      /\ wish'[r] = "subscribe" => wish[r] = "subscribe"
  <2>1. CASE /\ reported /\ wish[r] = "subscribe"
             /\ pc' = [pc EXCEPT ![r] = "subscribe"]
             /\ who' = [who EXCEPT ![r] = Len(address) + 1]
             /\ UNCHANGED <<store, email, wish>>
    <3>1. who' \in [Requests -> {None} \cup DOMAIN address']
      BY <1>4, <1>5, <2>1 DEF Inv, LocalsOK
    <3>2. /\ pc'[r] = "subscribe" /\ who'[r] \in DOMAIN address'
          /\ pc' \in [Requests -> Labels]
      BY <1>5, <2>1 DEF Inv, LocalsOK, Labels
    <3>3. ActiveOK(r)'
      BY <1>3, <2>1, <3>2 DEF ActiveOK, Inv
    <3>4. QED
      BY <2>1, <3>1, <3>2, <3>3 DEF Tidy, Inv, LocalsOK
  <2>2. CASE reported /\ GotoWith(r, "readback", Len(address) + 1)
    BY <1>5, <1>6, <2>2, EndStep
  <2>3. CASE Reply(r, "error")
    BY <1>6, <2>3, EndStep DEF Reply
  <2>4. QED
    BY <1>1, <2>1, <2>2, <2>3
<1>9. RoomOK'
  BY <1>2, <1>4, <1>7, <1>8, RoomStep
<1>10. QED
  BY <1>2, <1>6, <1>7, <1>8, <1>9, SameRows, TidyInv

LEMMA UpdateColumnsInv == ASSUME Inv, NEW r \in Requests, UpdateColumns(r) PROVE Inv'
<1>1. /\ pc[r] = "columns" /\ UNCHANGED <<uniqueKey, address, subscribers>>
      /\ \E applied, reported \in BOOLEAN : Statement(applied, reported)
      /\ \/ GotoWith(r, "readback", who[r])
         \/ Goto(r, "address")
         \/ Reply(r, "error")
  BY DEF UpdateColumns
<1>2. faults' \in 0..MaxFaults
  BY <1>1, FaultType DEF Inv, TablesOK
<1>3. who[r] \in DOMAIN address
  BY <1>1 DEF Inv, ActiveOK
<1>4. CASE GotoWith(r, "readback", who[r])
  BY <1>1, <1>2, <1>3, <1>4, ReadBackStep
<1>5. CASE Reply(r, "error")
  BY <1>1, <1>2, <1>5, ReplyStep
<1>6. CASE Goto(r, "address")
  <2>1. pc'[r] = "address" /\ ActiveOK(r)'
    BY <1>1, <1>3, <1>6 DEF Goto, ActiveOK, Inv, LocalsOK
  <2>2. Tidy(r)
    BY <1>1, <1>6, <2>1 DEF Tidy, Goto, Inv, LocalsOK, Labels
  <2>3. QED
    BY <1>1, <1>2, <1>6, <2>1, <2>2, ReadInv DEF Goto
<1>7. QED
  BY <1>1, <1>4, <1>5, <1>6

LEMMA ReadAddressInv == ASSUME Inv, NEW r \in Requests, ReadAddress(r) PROVE Inv'
<1>1. /\ pc[r] = "address" /\ UNCHANGED <<uniqueKey, address, subscribers>>
      /\ \E ok \in BOOLEAN : Statement(ok, ok)
      /\ \/ wish[r] = "unsubscribe" /\ Goto(r, "unsubscribe")
         \/ /\ wish[r] = "subscribe" /\ Stored(who[r])
            /\ email' = [email EXCEPT ![r] = address[who[r]]]
            /\ pc' = [pc EXCEPT ![r] = "subscribe"]
            /\ UNCHANGED <<who, store, wish>>
         \/ Reply(r, "panic")
  BY DEF ReadAddress
<1>2. faults' \in 0..MaxFaults
  BY <1>1, FaultType DEF Inv, TablesOK
<1>3. who[r] \in DOMAIN address /\ ActiveOK(r)
  BY <1>1 DEF Inv, ActiveOK
<1>4. CASE Reply(r, "panic")
  BY <1>1, <1>2, <1>4, ReplyStep
<1>5. CASE wish[r] = "unsubscribe" /\ Goto(r, "unsubscribe")
  <2>1. pc'[r] = "unsubscribe" /\ ActiveOK(r)'
    BY <1>1, <1>3, <1>5 DEF Goto, ActiveOK, Inv, LocalsOK
  <2>2. Tidy(r)
    BY <1>1, <1>5, <2>1 DEF Tidy, Goto, Inv, LocalsOK, Labels
  <2>3. QED
    BY <1>1, <1>2, <1>5, <2>1, <2>2, ReadInv DEF Goto
<1>6. CASE /\ wish[r] = "subscribe" /\ Stored(who[r])
           /\ email' = [email EXCEPT ![r] = address[who[r]]]
           /\ pc' = [pc EXCEPT ![r] = "subscribe"]
           /\ UNCHANGED <<who, store, wish>>
  <2>1. address[who[r]] \in Emails
    BY <1>6 DEF Stored, Inv, TablesOK
  <2>2. pc'[r] = "subscribe" /\ email'[r] \in Emails
    BY <1>6, <2>1 DEF Inv, LocalsOK
  <2>3. ActiveOK(r)'
    BY <1>1, <1>3, <1>6, <2>2 DEF ActiveOK
  <2>4. Tidy(r)
    BY <1>1, <1>6, <2>1, <2>3 DEF Tidy, Inv, LocalsOK, Labels
  <2>5. QED
    BY <1>1, <1>2, <1>6, <2>2, <2>4, ReadInv
<1>7. QED
  BY <1>1, <1>4, <1>5, <1>6

LEMMA ReadBackInv == ASSUME Inv, NEW r \in Requests, ReadBack(r) PROVE Inv'
<1>1. PICK ok \in BOOLEAN :
        Statement(ok, ok) /\ \E answer : Reply(r, answer)
  BY DEF ReadBack
<1>2. faults' \in 0..MaxFaults
  BY <1>1, FaultType DEF Inv, TablesOK
<1>3. QED
  BY <1>1, <1>2, ReplyStep DEF ReadBack

----------------------------------------------------------------------------
\* What a request that writes the newsletter rows does besides.
LEMMA WriteInv ==
  ASSUME Inv, NEW r \in Requests, pc[r] \in {"subscribe", "unsubscribe"},
         GotoWith(r, "readback", who[r]), UNCHANGED <<uniqueKey, address>>,
         \E applied, reported \in BOOLEAN : Statement(applied, reported),
         subscribers' \in Seq(Subscriber),
         \A i \in DOMAIN subscribers' : subscribers'[i].owner \in DOMAIN address,
         \/ Len(subscribers') = Len(subscribers)
         \/ wish[r] = "subscribe" /\ Len(subscribers') = Len(subscribers) + 1,
         RowsOK'
  PROVE  Inv'
<1>1. faults' \in 0..MaxFaults
  BY FaultType DEF Inv, TablesOK
<1>2. TablesOK' /\ Growing
  BY <1>1 DEF Inv, TablesOK, Growing
<1>3. who[r] \in DOMAIN address'
  BY DEF Inv, ActiveOK
<1>4. Tidy(r) /\ pc'[r] = "readback" /\ wish'[r] = "keep"
  BY <1>2, <1>3, EndStep
<1>5. RoomOK'
  BY <1>2, <1>4, RoomStep
<1>6. QED
  BY <1>2, <1>4, <1>5, TidyInv

\* The statement of Subscribe leaves the rows alone, subscribes one in the way of
\* the unique key, or adds one.
LEMMA SubscribeCases ==
  ASSUME Inv, NEW r \in Requests, Subscribe(r)
  PROVE  /\ pc[r] = "subscribe" /\ wish[r] = "subscribe"
         /\ who[r] \in DOMAIN address /\ NewRow(r) \in Subscriber
         /\ GotoWith(r, "readback", who[r]) /\ UNCHANGED <<uniqueKey, address>>
         /\ \E applied, reported \in BOOLEAN : Statement(applied, reported)
         /\ \/ UNCHANGED subscribers
            \/ \E i \in InTheWay(r) :
                 subscribers' = [subscribers EXCEPT ![i].subscribed = TRUE]
            \/ subscribers' = Append(subscribers, NewRow(r))
<1>1. pc[r] = "subscribe" /\ ActiveOK(r)
  BY DEF Subscribe, Inv
<1>2. /\ wish[r] = "subscribe" /\ who[r] \in DOMAIN address
      /\ store[r] \in Stores /\ email[r] \in Emails
  BY <1>1 DEF ActiveOK
<1>3. who[r] \in 1..MaxAccounts
  <2>1. Len(address) <= MaxAccounts /\ Len(address) \in Nat
    BY InvSubscriptions DEF Inv, TablesOK
  <2>2. who[r] \in 1..Len(address)
    BY <1>2 DEF Inv, TablesOK
  <2>3. QED
    BY <2>1, <2>2, BoundAssumption
<1>4. TRUE \in BOOLEAN
  BY Zenon
<1>5. NewRow(r) \in Subscriber
  BY <1>2, <1>3, <1>4 DEF NewRow, Subscriber
<1>6. QED
  BY <1>1, <1>2, <1>5 DEF Subscribe

LEMMA Rewritten ==
  ASSUME NEW s \in Seq(Subscriber), NEW t, t = [i \in DOMAIN s |-> t[i]],
         \A i \in DOMAIN s : t[i] \in Subscriber
  PROVE  t \in Seq(Subscriber)
<1>1. Len(s) \in Nat /\ DOMAIN s = 1..Len(s)
  OBVIOUS
<1>2. t \in [1..Len(s) -> Subscriber]
  BY <1>1
<1>3. QED
  BY <1>1, <1>2, SeqDef

\* Rows that keep their owners, where the order does not matter.
LEMMA SameOwners ==
  ASSUME Inv, subscribers' \in Seq(Subscriber), DOMAIN subscribers' = DOMAIN subscribers,
         \A i \in DOMAIN subscribers : subscribers'[i].owner = subscribers[i].owner,
         ~uniqueKey' =>
           \A i, j \in DOMAIN subscribers :
             (i <= j /\ subscribers[j].owner = subscribers[i].owner
                /\ subscribers'[i].subscribed) => subscribers'[j].subscribed
  PROVE  /\ \A i \in DOMAIN subscribers' : subscribers'[i].owner \in DOMAIN address
         /\ Len(subscribers') = Len(subscribers)
         /\ RowsOK'
<1>1. \A i \in DOMAIN subscribers' : subscribers'[i].owner \in DOMAIN address
  BY DEF Inv, TablesOK
<1>2. Len(subscribers') = Len(subscribers)
  BY LenProperties DEF Inv, TablesOK
<1>3. RowsOK'
  BY DEF Inv, RowsOK
<1>4. QED
  BY <1>1, <1>2, <1>3

LEMMA SubscribeInv == ASSUME Inv, NEW r \in Requests, Subscribe(r) PROVE Inv'
<1>1. /\ pc[r] = "subscribe" /\ wish[r] = "subscribe"
      /\ who[r] \in DOMAIN address /\ NewRow(r) \in Subscriber
      /\ GotoWith(r, "readback", who[r]) /\ UNCHANGED <<uniqueKey, address>>
      /\ \E applied, reported \in BOOLEAN : Statement(applied, reported)
      /\ \/ UNCHANGED subscribers
         \/ \E i \in InTheWay(r) :
              subscribers' = [subscribers EXCEPT ![i].subscribed = TRUE]
         \/ subscribers' = Append(subscribers, NewRow(r))
  BY SubscribeCases
<1>2. /\ subscribers \in Seq(Subscriber) /\ Len(subscribers) \in Nat
      /\ \A i \in DOMAIN subscribers : subscribers[i].owner \in DOMAIN address
  BY DEF Inv, TablesOK
<1>3. CASE UNCHANGED subscribers
  BY <1>1, <1>2, <1>3, SameRows, WriteInv
<1>4. ASSUME NEW i \in InTheWay(r),
             subscribers' = [subscribers EXCEPT ![i].subscribed = TRUE]
      PROVE  Inv'
  <2>1. i \in DOMAIN subscribers /\ uniqueKey
    BY <1>4 DEF InTheWay
  <2>2. ~(~uniqueKey')
    BY <1>1, <2>1, Zenon
  <2>3. TRUE \in BOOLEAN
    BY Zenon
  <2>4. subscribers' \in Seq(Subscriber)
    <3>1. ASSUME NEW j \in DOMAIN subscribers PROVE subscribers'[j] \in Subscriber
      <4>1. subscribers[j] \in Subscriber
        BY <1>2
      <4>2. [subscribers[j] EXCEPT !.subscribed = TRUE] \in Subscriber
        BY <2>3, <4>1 DEF Subscriber
      <4>3. QED
        BY <1>4, <4>1, <4>2
    <3>2. subscribers' = [j \in DOMAIN subscribers |-> subscribers'[j]]
      BY <1>4
    <3>3. QED
      BY <1>2, <3>1, <3>2, Rewritten
  <2>5. /\ DOMAIN subscribers' = DOMAIN subscribers
        /\ \A j \in DOMAIN subscribers : subscribers'[j].owner = subscribers[j].owner
    BY <1>2, <1>4, <2>1 DEF Subscriber
  <2>6. QED
    BY <1>1, <2>2, <2>4, <2>5, SameOwners, WriteInv
<1>5. CASE subscribers' = Append(subscribers, NewRow(r))
  <2>1. /\ subscribers' \in Seq(Subscriber) /\ Len(subscribers') = Len(subscribers) + 1
        /\ DOMAIN subscribers' = DOMAIN subscribers \cup {Len(subscribers) + 1}
        /\ \A i \in DOMAIN subscribers : subscribers'[i] = subscribers[i]
        /\ subscribers'[Len(subscribers) + 1] = NewRow(r)
    BY <1>1, <1>2, <1>5
  <2>2. NewRow(r).owner = who[r] /\ NewRow(r).subscribed
    BY DEF NewRow
  <2>3. \A i \in DOMAIN subscribers : i \in Nat /\ i <= Len(subscribers)
    BY <1>2
  <2>4. \A i \in DOMAIN subscribers' : subscribers'[i].owner \in DOMAIN address
    BY <1>1, <1>2, <2>1, <2>2
  <2>5. ASSUME NEW i \in DOMAIN subscribers'
        PROVE  \E j \in DOMAIN subscribers' :
                 /\ subscribers'[j].owner = subscribers'[i].owner
                 /\ \A k \in DOMAIN subscribers' :
                      subscribers'[k].owner = subscribers'[i].owner => k <= j
    <3>1. CASE subscribers'[i].owner = who[r]
      BY <1>2, <2>1, <2>2, <2>3, <3>1
    <3>2. CASE subscribers'[i].owner # who[r]
      BY <2>1, <2>2, <3>2 DEF Inv, RowsOK
    <3>3. QED
      BY <3>1, <3>2
  <2>6. ASSUME ~uniqueKey', NEW i \in DOMAIN subscribers', NEW j \in DOMAIN subscribers',
               i <= j, subscribers'[j].owner = subscribers'[i].owner,
               subscribers'[i].subscribed
        PROVE  subscribers'[j].subscribed
    <3>1. CASE j = Len(subscribers) + 1
      BY <2>1, <2>2, <3>1
    <3>2. CASE j # Len(subscribers) + 1
      <4>1. i \in DOMAIN subscribers /\ j \in DOMAIN subscribers
        BY <1>2, <2>1, <2>3, <2>6, <3>2
      <4>2. ~uniqueKey
        BY <1>1, <2>6
      <4>3. subscribers[j].subscribed
        BY <2>1, <2>6, <4>1, <4>2 DEF Inv, RowsOK
      <4>4. QED
        BY <2>1, <4>1, <4>3
    <3>3. QED
      BY <3>1, <3>2
  <2>7. RowsOK'
    BY <2>5, <2>6 DEF RowsOK
  <2>8. QED
    BY <1>1, <2>1, <2>4, <2>7, WriteInv
<1>6. QED
  BY <1>1, <1>3, <1>4, <1>5

\* All rows of the customer end, or none.
LEMMA UnsubscribeInv == ASSUME Inv, NEW r \in Requests, Unsubscribe(r) PROVE Inv'
<1>1. PICK applied \in BOOLEAN, reported \in BOOLEAN :
        /\ Statement(applied, reported)
        /\ subscribers' =
             [i \in DOMAIN subscribers |->
                IF applied /\ subscribers[i].owner = who[r]
                THEN [subscribers[i] EXCEPT !.subscribed = FALSE]
                ELSE subscribers[i]]
  BY DEF Unsubscribe
<1>2. /\ pc[r] = "unsubscribe" /\ GotoWith(r, "readback", who[r])
      /\ UNCHANGED <<uniqueKey, address>>
  BY DEF Unsubscribe
<1>3. subscribers \in Seq(Subscriber)
  BY DEF Inv, TablesOK
<1>4. FALSE \in BOOLEAN
  BY Zenon
<1>5. /\ subscribers' \in Seq(Subscriber) /\ DOMAIN subscribers' = DOMAIN subscribers
      /\ \A i \in DOMAIN subscribers : subscribers'[i].owner = subscribers[i].owner
  <2>1. ASSUME NEW i \in DOMAIN subscribers
        PROVE  subscribers'[i] \in Subscriber /\ subscribers'[i].owner = subscribers[i].owner
    <3>1. subscribers[i] \in Subscriber
      BY <1>3
    <3>2. /\ [subscribers[i] EXCEPT !.subscribed = FALSE] \in Subscriber
          /\ [subscribers[i] EXCEPT !.subscribed = FALSE].owner = subscribers[i].owner
      BY <1>4, <3>1 DEF Subscriber
    <3>3. QED
      BY <1>1, <3>1, <3>2
  <2>2. /\ DOMAIN subscribers' = DOMAIN subscribers
        /\ subscribers' = [i \in DOMAIN subscribers |-> subscribers'[i]]
    BY <1>1
  <2>3. QED
    BY <1>3, <2>1, <2>2, Rewritten
<1>6. ASSUME ~uniqueKey', NEW i \in DOMAIN subscribers, NEW j \in DOMAIN subscribers,
             i <= j, subscribers[j].owner = subscribers[i].owner,
             subscribers'[i].subscribed
      PROVE  subscribers'[j].subscribed
  <2>1. ~uniqueKey
    BY <1>2, <1>6
  <2>2. CASE applied /\ subscribers[i].owner = who[r]
    <3>1. subscribers[i] \in Subscriber
      BY <1>3
    <3>2. ~subscribers'[i].subscribed
      BY <1>1, <2>2, <3>1 DEF Subscriber
    <3>3. QED
      BY <1>6, <3>2
  <2>3. CASE ~(applied /\ subscribers[i].owner = who[r])
    <3>1. subscribers'[i] = subscribers[i] /\ subscribers'[j] = subscribers[j]
      BY <1>1, <1>6, <2>3
    <3>2. QED
      BY <1>6, <2>1, <3>1 DEF Inv, RowsOK
  <2>4. QED
    BY <2>2, <2>3
<1>7. /\ \A i \in DOMAIN subscribers' : subscribers'[i].owner \in DOMAIN address
      /\ Len(subscribers') = Len(subscribers) /\ RowsOK'
  BY <1>5, <1>6, SameOwners
<1>8. QED
  BY <1>1, <1>2, <1>5, <1>7, WriteInv

----------------------------------------------------------------------------
\* Other requests change or delete the address of a customer.
LEMMA AddressInv ==
  ASSUME Inv, NEW c \in DOMAIN address, ChangeEmail(c) \/ Delete(c) PROVE Inv'
<1>1. /\ \E e \in Emails \cup {NoEmail} : address' = [address EXCEPT ![c] = e]
      /\ UNCHANGED <<uniqueKey, subscribers, faults, pc, who, store, email, wish>>
  BY DEF ChangeEmail, Delete
<1>2. /\ address' \in Seq(Emails \cup {NoEmail}) /\ DOMAIN address' = DOMAIN address
      /\ Len(address') = Len(address)
  BY <1>1 DEF Inv, TablesOK
<1>3. TablesOK' /\ LocalsOK' /\ RowsOK'
  BY <1>1, <1>2, SameRows DEF Inv, TablesOK, LocalsOK
<1>4. \A r \in Requests : ActiveOK(r)'
  BY <1>1, <1>2 DEF Inv, ActiveOK
<1>5. Inserting' = Inserting /\ Wishing' = Wishing
  BY <1>1 DEF Inserting, Wishing
<1>6. RoomOK'
  BY <1>1, <1>2, <1>5 DEF Inv, RoomOK
<1>7. QED
  BY <1>3, <1>4, <1>6 DEF Inv

LEMMA NextInv == Inv /\ [Next]_vars => Inv'
<1>1. ASSUME Inv, UNCHANGED vars PROVE Inv'
  BY <1>1 DEF vars, Inv, TablesOK, LocalsOK, ActiveOK, RoomOK, RowsOK, Inserting, Wishing
<1>2. QED
  BY <1>1, AdmitCreateInv, AdmitUpdateInv, CreateInv, UpdateColumnsInv, ReadAddressInv,
     SubscribeInv, UnsubscribeInv, ReadBackInv, AddressInv DEF Next, Handle

----------------------------------------------------------------------------
\* The addresses customers have had: their present ones, those that requests are
\* about to subscribe for them, and those on their rows.
HadInv ==
  /\ HadOK
  /\ \A c \in DOMAIN address : <<c, address[c]>> \in had
  /\ \A r \in Requests : pc[r] = "subscribe" => <<who[r], email[r]>> \in had
  /\ OwnAddress

LEMMA InitHad == Init => HadInv
<1> SUFFICES ASSUME Init PROVE HadInv
  OBVIOUS
<1>1. DOMAIN address = {} /\ DOMAIN subscribers = {} /\ had = {}
  BY DEF Init
<1>2. \A r \in Requests : pc[r] # "subscribe"
  BY DEF Init
<1>3. QED
  BY <1>1, <1>2 DEF HadInv, HadOK, OwnAddress

\* The rows of a step bear owners and addresses that rows bore before, or
\* those of the request that subscribes.
LEMMA RowsStep ==
  ASSUME Inv, [Next]_vars, NEW i \in DOMAIN subscribers'
  PROVE  \/ /\ i \in DOMAIN subscribers
            /\ subscribers'[i].owner = subscribers[i].owner
            /\ subscribers'[i].email = subscribers[i].email
         \/ \E r \in Requests :
              /\ pc[r] = "subscribe" /\ subscribers'[i].owner = who[r]
              /\ subscribers'[i].email = email[r]
<1>1. subscribers \in Seq(Subscriber)
  BY DEF Inv, TablesOK
<1>2. CASE UNCHANGED subscribers
  BY <1>2
<1>3. ASSUME NEW r \in Requests, Subscribe(r)
      PROVE  \/ /\ i \in DOMAIN subscribers
                /\ subscribers'[i].owner = subscribers[i].owner
                /\ subscribers'[i].email = subscribers[i].email
             \/ /\ pc[r] = "subscribe" /\ subscribers'[i].owner = who[r]
                /\ subscribers'[i].email = email[r]
  <2>1. /\ pc[r] = "subscribe" /\ NewRow(r) \in Subscriber
        /\ \/ UNCHANGED subscribers
           \/ \E j \in InTheWay(r) :
                subscribers' = [subscribers EXCEPT ![j].subscribed = TRUE]
           \/ subscribers' = Append(subscribers, NewRow(r))
    BY <1>3, SubscribeCases
  <2>2. ASSUME NEW j \in InTheWay(r),
               subscribers' = [subscribers EXCEPT ![j].subscribed = TRUE]
        PROVE  /\ i \in DOMAIN subscribers
               /\ subscribers'[i].owner = subscribers[i].owner
               /\ subscribers'[i].email = subscribers[i].email
    <3>1. i \in DOMAIN subscribers /\ subscribers[i] \in Subscriber
      BY <1>1, <2>2
    <3>2. \/ subscribers'[i] = subscribers[i]
          \/ subscribers'[i] = [subscribers[i] EXCEPT !.subscribed = TRUE]
      BY <2>2, <3>1
    <3>3. QED
      BY <3>1, <3>2 DEF Subscriber
  <2>3. CASE subscribers' = Append(subscribers, NewRow(r))
    <3>1. \/ i \in DOMAIN subscribers /\ subscribers'[i] = subscribers[i]
          \/ subscribers'[i] = NewRow(r)
      BY <1>1, <2>1, <2>3
    <3>2. NewRow(r).owner = who[r] /\ NewRow(r).email = email[r]
      BY DEF NewRow
    <3>3. QED
      BY <2>1, <3>1, <3>2
  <2>4. QED
    BY <2>1, <2>2, <2>3, <1>2
<1>4. ASSUME NEW r \in Requests, Unsubscribe(r)
      PROVE  /\ i \in DOMAIN subscribers
             /\ subscribers'[i].owner = subscribers[i].owner
             /\ subscribers'[i].email = subscribers[i].email
  <2>1. PICK applied \in BOOLEAN :
          subscribers' =
            [j \in DOMAIN subscribers |->
               IF applied /\ subscribers[j].owner = who[r]
               THEN [subscribers[j] EXCEPT !.subscribed = FALSE]
               ELSE subscribers[j]]
    BY <1>4 DEF Unsubscribe
  <2>2. i \in DOMAIN subscribers /\ subscribers[i] \in Subscriber
    BY <1>1, <2>1
  <2>3. \/ subscribers'[i] = subscribers[i]
        \/ subscribers'[i] = [subscribers[i] EXCEPT !.subscribed = FALSE]
    BY <2>1, <2>2
  <2>4. QED
    BY <2>2, <2>3 DEF Subscriber
<1>5. ASSUME \/ \E r \in Requests :
                  \/ AdmitCreate(r) \/ AdmitUpdate(r) \/ Create(r)
                  \/ UpdateColumns(r) \/ ReadAddress(r) \/ ReadBack(r)
             \/ \E c \in DOMAIN address : ChangeEmail(c) \/ Delete(c)
             \/ UNCHANGED vars
      PROVE  UNCHANGED subscribers
  BY <1>5 DEF AdmitCreate, AdmitUpdate, Create, UpdateColumns, ReadAddress, ReadBack,
     ChangeEmail, Delete, vars
<1>6. QED
  BY <1>2, <1>3, <1>4, <1>5 DEF Next, Handle

\* A request comes to subscribe with the address that it has just given the
\* customer, or has just read.
LEMMA ComesToSubscribe ==
  ASSUME Inv, [Next]_vars, NEW q \in Requests, pc'[q] = "subscribe"
  PROVE  \/ /\ pc[q] = "subscribe" /\ who'[q] = who[q] /\ email'[q] = email[q]
         \/ /\ who'[q] \in DOMAIN address /\ address[who'[q]] = email'[q]
         \/ /\ who'[q] \in DOMAIN address' /\ address'[who'[q]] = email'[q]
<1>1. CASE UNCHANGED <<pc, who, email>>
  BY <1>1
<1>2. ASSUME NEW r \in Requests, Create(r)
      PROVE  \/ pc[q] = "subscribe" /\ who'[q] = who[q] /\ email'[q] = email[q]
             \/ who'[q] \in DOMAIN address' /\ address'[who'[q]] = email'[q]
  <2>1. pc[r] = "insert" /\ email[r] \in Emails /\ address \in Seq(Emails \cup {NoEmail})
    BY <1>2 DEF Create, Inv, ActiveOK, TablesOK
  <2>2. PICK applied \in BOOLEAN, reported \in BOOLEAN :
          /\ Statement(applied, reported)
          /\ address' = IF applied THEN Append(address, email[r]) ELSE address
          /\ \/ /\ reported /\ wish[r] = "subscribe"
                /\ pc' = [pc EXCEPT ![r] = "subscribe"]
                /\ who' = [who EXCEPT ![r] = Len(address) + 1]
                /\ UNCHANGED <<store, email, wish>>
             \/ \E label \in {"readback", "idle"} : \E c : GotoWith(r, label, c)
    BY <1>2 DEF Create, Reply
  <2>3. CASE /\ reported
             /\ pc' = [pc EXCEPT ![r] = "subscribe"]
             /\ who' = [who EXCEPT ![r] = Len(address) + 1]
             /\ UNCHANGED email
    <3>1. address' = Append(address, email[r])
      BY <2>2, <2>3 DEF Statement
    <3>2. /\ Len(address) + 1 \in DOMAIN address'
          /\ address'[Len(address) + 1] = email[r]
      BY <2>1, <3>1
    <3>3. q = r => who'[q] = Len(address) + 1
      BY <2>3 DEF Inv, LocalsOK
    <3>4. q # r => pc[q] = "subscribe" /\ who'[q] = who[q]
      BY <2>3 DEF Inv, LocalsOK
    <3>5. QED
      BY <2>3, <3>2, <3>3, <3>4
  <2>4. ASSUME NEW label \in {"readback", "idle"}, NEW c, GotoWith(r, label, c)
        PROVE  pc[q] = "subscribe" /\ who'[q] = who[q] /\ email'[q] = email[q]
    BY <2>4 DEF GotoWith, Inv, LocalsOK
  <2>5. QED
    BY <2>2, <2>3, <2>4
<1>3. ASSUME NEW r \in Requests, ReadAddress(r)
      PROVE  \/ pc[q] = "subscribe" /\ who'[q] = who[q] /\ email'[q] = email[q]
             \/ who'[q] \in DOMAIN address /\ address[who'[q]] = email'[q]
  <2>1. \/ Goto(r, "unsubscribe")
        \/ /\ Stored(who[r]) /\ email' = [email EXCEPT ![r] = address[who[r]]]
           /\ pc' = [pc EXCEPT ![r] = "subscribe"] /\ UNCHANGED who
        \/ GotoWith(r, "idle", None)
    BY <1>3 DEF ReadAddress, Reply
  <2>2. QED
    BY <2>1 DEF Goto, GotoWith, Stored, Inv, LocalsOK
<1>4. ASSUME NEW r \in Requests,
             \/ AdmitCreate(r) \/ AdmitUpdate(r) \/ UpdateColumns(r)
             \/ Subscribe(r) \/ Unsubscribe(r) \/ ReadBack(r)
      PROVE  pc[q] = "subscribe" /\ who'[q] = who[q] /\ email'[q] = email[q]
  BY <1>4 DEF AdmitCreate, AdmitUpdate, UpdateColumns, Subscribe, Unsubscribe, ReadBack,
     Reply, Goto, GotoWith, Inv, LocalsOK
<1>5. ASSUME \/ \E c \in DOMAIN address : ChangeEmail(c) \/ Delete(c)
             \/ UNCHANGED vars
      PROVE  UNCHANGED <<pc, who, email>>
  BY <1>5 DEF ChangeEmail, Delete, vars
<1>6. QED
  BY <1>1, <1>2, <1>3, <1>4, <1>5 DEF Next, Handle

LEMMA HadStep == Inv /\ Inv' /\ HadInv /\ [Next]_vars => HadInv'
<1> SUFFICES ASSUME Inv, Inv', HadInv, [Next]_vars PROVE HadInv'
  OBVIOUS
<1>1. /\ had \subseteq had'
      /\ \A c \in DOMAIN address' : <<c, address'[c]>> \in had'
      /\ \A p \in had' : p \in had \/ \E c \in DOMAIN address' : p = <<c, address'[c]>>
  BY DEF Next, vars, HadInv
<1>2. DOMAIN address \subseteq DOMAIN address'
  <2>1. address \in Seq(Emails \cup {NoEmail})
    BY DEF Inv, TablesOK
  <2>2. \/ address' = address
        \/ \E e \in Emails : address' = Append(address, e)
        \/ \E c \in DOMAIN address, e \in Emails \cup {NoEmail} :
             address' = [address EXCEPT ![c] = e]
    <3>1. ASSUME NEW r \in Requests, Create(r)
          PROVE  address' = address \/ \E e \in Emails : address' = Append(address, e)
      BY <3>1 DEF Create, Inv, ActiveOK
    <3>2. ASSUME NEW r \in Requests,
                 \/ AdmitCreate(r) \/ AdmitUpdate(r) \/ UpdateColumns(r)
                 \/ ReadAddress(r) \/ Subscribe(r) \/ Unsubscribe(r) \/ ReadBack(r)
          PROVE  address' = address
      BY <3>2 DEF AdmitCreate, AdmitUpdate, UpdateColumns, ReadAddress, Subscribe,
         Unsubscribe, ReadBack
    <3>3. QED
      BY <3>1, <3>2 DEF Next, Handle, ChangeEmail, Delete, vars
  <2>3. QED
    BY <2>1, <2>2
<1>3. HadOK'
  <2>1. ASSUME NEW p \in had' PROVE p \in (DOMAIN address') \X (Emails \cup {NoEmail})
    <3>1. CASE p \in had
      BY <1>2, <3>1 DEF HadInv, HadOK
    <3>2. ASSUME NEW c \in DOMAIN address', p = <<c, address'[c]>>
          PROVE  p \in (DOMAIN address') \X (Emails \cup {NoEmail})
      BY <3>2 DEF Inv, TablesOK
    <3>3. QED
      BY <1>1, <3>1, <3>2
  <2>2. QED
    BY <2>1 DEF HadOK
<1>4. ASSUME NEW q \in Requests, pc'[q] = "subscribe"
      PROVE  <<who'[q], email'[q]>> \in had'
  BY <1>1, <1>4, ComesToSubscribe DEF HadInv
<1>5. OwnAddress'
  BY <1>1, RowsStep DEF HadInv, OwnAddress
<1>6. QED
  BY <1>1, <1>3, <1>4, <1>5 DEF HadInv

\* The variables keep their types, and where subscribing always inserts a row the
\* latest one, which the account page shows (newsletter.go:22), tells whether the
\* customer receives the newsletter: in whatever order any number of requests
\* subscribe and unsubscribe, change the address and lose their statements.
THEOREM SubscriptionsTheorem == Spec => []SubscriptionsOK
<1>1. Inv /\ HadInv => SubscriptionsOK
  BY InvSubscriptions DEF HadInv
<1>2. QED
  BY <1>1, InitInv, NextInv, InitHad, HadStep, PTL DEF Spec

\* Every row bears an address its owner has had, though requests write addresses
\* that they read statements before, and customers change theirs meanwhile.
THEOREM OwnAddressTheorem == Spec => []OwnAddress
<1>1. HadInv => OwnAddress
  BY DEF HadInv
<1>2. QED
  BY <1>1, InitInv, NextInv, InitHad, HadStep, PTL DEF Spec

----------------------------------------------------------------------------
\* Nobody but Subscribe makes a customer receive the newsletter.
LEMMA ConsentStep ==
  ASSUME Inv, [Next]_vars, NEW c \in DOMAIN address, ~Receives(c), Receives(c)'
  PROVE  \E r \in Requests :
           /\ pc[r] = "subscribe" /\ pc'[r] # "subscribe"
           /\ \/ who[r] = c
              \/ /\ uniqueKey
                 /\ \E i \in DOMAIN subscribers :
                      /\ subscribers[i].owner = c
                      /\ subscribers[i].email = email[r]
<1>1. ~UNCHANGED subscribers
  BY DEF Receives
<1>2. PICK r \in Requests : Subscribe(r) \/ Unsubscribe(r)
  <2>1. ~UNCHANGED vars
    BY <1>1 DEF vars
  <2>2. \A d : ~ChangeEmail(d) /\ ~Delete(d)
    BY <1>1 DEF ChangeEmail, Delete
  <2>3. PICK r \in Requests :
          \/ AdmitCreate(r) \/ AdmitUpdate(r) \/ Create(r) \/ UpdateColumns(r)
          \/ ReadAddress(r) \/ Subscribe(r) \/ Unsubscribe(r) \/ ReadBack(r)
    BY <2>1, <2>2 DEF Next, Handle
  <2>4. ~(AdmitCreate(r) \/ AdmitUpdate(r) \/ Create(r) \/ UpdateColumns(r)
          \/ ReadAddress(r) \/ ReadBack(r))
    BY <1>1 DEF AdmitCreate, AdmitUpdate, Create, UpdateColumns, ReadAddress, ReadBack
  <2>5. QED
    BY <2>3, <2>4
<1>3. subscribers \in Seq(Subscriber)
  BY DEF Inv, TablesOK
<1>4. PICK i \in DOMAIN subscribers' :
        subscribers'[i].owner = c /\ subscribers'[i].subscribed
  BY DEF Receives
<1>5. CASE Subscribe(r)
  <2>1. /\ pc[r] = "subscribe" /\ who[r] \in DOMAIN address
        /\ NewRow(r) \in Subscriber /\ GotoWith(r, "readback", who[r])
        /\ \/ \E j \in InTheWay(r) :
                subscribers' = [subscribers EXCEPT ![j].subscribed = TRUE]
           \/ subscribers' = Append(subscribers, NewRow(r))
    BY <1>1, <1>5, SubscribeCases
  <2>2. pc'[r] # "subscribe"
    BY <2>1 DEF GotoWith, Inv, LocalsOK
  <2>3. ASSUME NEW j \in InTheWay(r),
               subscribers' = [subscribers EXCEPT ![j].subscribed = TRUE]
        PROVE  /\ uniqueKey
               /\ \E k \in DOMAIN subscribers :
                    subscribers[k].owner = c /\ subscribers[k].email = email[r]
    <3>1. /\ j \in DOMAIN subscribers /\ uniqueKey /\ subscribers[j].email = email[r]
          /\ subscribers[j] \in Subscriber
      BY <1>3, <2>3 DEF InTheWay
    <3>2. i = j
      BY <1>4, <2>3, <3>1 DEF Receives
    <3>3. subscribers[j].owner = c
      BY <1>4, <2>3, <3>1, <3>2 DEF Subscriber
    <3>4. QED
      BY <3>1, <3>3
  <2>4. CASE subscribers' = Append(subscribers, NewRow(r))
    <3>1. i \notin DOMAIN subscribers
      BY <1>3, <1>4, <2>1, <2>4 DEF Receives
    <3>2. subscribers'[i] = NewRow(r)
      BY <1>3, <2>1, <2>4, <3>1
    <3>3. who[r] = c
      BY <1>4, <3>2 DEF NewRow
    <3>4. QED
      BY <2>1, <2>2, <3>3
  <2>5. QED
    BY <2>1, <2>2, <2>3, <2>4
<1>6. CASE Unsubscribe(r)
  <2>1. i \in DOMAIN subscribers /\ subscribers[i] \in Subscriber
    BY <1>3, <1>4, <1>6 DEF Unsubscribe
  <2>2. subscribers[i].owner = c /\ subscribers[i].subscribed
    BY <1>4, <1>6, <2>1 DEF Unsubscribe, Subscriber
  <2>3. QED
    BY <2>1, <2>2 DEF Receives
<1>7. QED
  BY <1>2, <1>5, <1>6

\* A customer starts to receive the newsletter by its own request only, or,
\* where there is a unique key, by the request of somebody who has the address
\* that one of its rows still bears (newsletter.go:39).
THEOREM ConsentTheorem == Spec => OwnConsent
<1>1. Inv /\ [Next]_vars =>
        [\A c \in DOMAIN address :
           (~Receives(c) /\ Receives(c)') =>
             \E r \in Requests :
               /\ pc[r] = "subscribe" /\ pc'[r] # "subscribe"
               /\ \/ who[r] = c
                  \/ /\ uniqueKey
                     /\ \E i \in DOMAIN subscribers :
                          /\ subscribers[i].owner = c
                          /\ subscribers[i].email = email[r]]_vars
  BY ConsentStep
<1>2. QED
  BY <1>1, InitInv, NextInv, PTL DEF Spec, OwnConsent
=============================================================================
