--------------------------- MODULE WishlistProof ---------------------------
(***************************************************************************)
(* Theorems about Wishlist for every set of customers, requests, products  *)
(* and every bound, with or without the unique key on customer_id.  Inv    *)
(* carries OnlyOwnerChanges, AddInv adds what AddedOrReported needs, and   *)
(* TypeInv that the ids left suffice for all that is still to be added.    *)
(***************************************************************************)
EXTENDS Wishlist, SequenceTheorems, FiniteSetTheorems, TLAPS

Row == [id : Nat \ {0}, list : Nat, product : Skus, qty : Int]

Typed ==
  /\ lists \in Seq(Customers) /\ items \subseteq Row /\ nextItem \in Nat \ {0}
  /\ op \in [Requests -> Operations \cup {"none"}]
  /\ pc \in [Requests -> Labels]
  /\ who \in [Requests -> Customers \cup {None}]
  /\ own \in [Requests -> Nat] /\ found \in [Requests -> Nat]
  /\ todo \in [Requests -> Seq(Wants)]

\* Ids are handed out once.
IdsOK ==
  /\ \A i \in items : i.id < nextItem
  /\ \A i, j \in items : i.id = j.id => i = j

\* A request is of a customer, and past GetOrCreate it holds a wishlist of it.
OwnOK(r) ==
  /\ pc[r] # "idle" => who[r] \in Customers /\ op[r] \in Operations
  /\ pc[r] \in {"own", "find", "save", "remove", "count"} =>
       own[r] \in DOMAIN lists /\ lists[own[r]] = who[r]

\* The item that a request has found is, while it exists, in that wishlist.
FoundOK(r) ==
  found[r] # None =>
    /\ pc[r] = "save" /\ found[r] < nextItem
    /\ \A i \in items : i.id = found[r] => i.list = own[r]

\* There is a product left while one is to be added.
TodoOK(r) ==
  (\/ pc[r] \in {"find", "save"}
   \/ op[r] = "AddProductsToWishlist" /\ pc[r] \in {"get", "create", "own"})
     => todo[r] # <<>>

RequestOK(r) == OwnOK(r) /\ FoundOK(r) /\ TodoOK(r)

Inv == Typed /\ IdsOK /\ \A r \in Requests : RequestOK(r)

----------------------------------------------------------------------------
LEMMA InitInv == Init => Inv
BY DEF Init, Inv, Typed, IdsOK, RequestOK, OwnOK, FoundOK, TodoOK, None, Labels

\* A basket is a sequence.
LEMMA BasketType == Baskets \subseteq Seq(Wants)
<1>1. MaxBasket \in Nat
  BY BoundAssumption
<1>2. ASSUME NEW b \in Baskets PROVE b \in Seq(Wants)
  <2>1. PICK m \in 0..MaxBasket : b \in [1..m -> Wants]
    BY DEF Baskets, BoundedSeq, SeqOf
  <2>2. m \in Nat
    BY <1>1
  <2>3. QED
    BY <2>1, <2>2, SeqDef
<1>3. QED
  BY <1>2

\* A request that answers or goes on leaves the others as they are, as long as
\* wishlists keep their owners and items their wishlists.
LEMMA OthersOK ==
  ASSUME Inv, NEW r \in Requests, NEW q \in Requests \ {r},
         pc'[q] = pc[q], op'[q] = op[q], who'[q] = who[q], own'[q] = own[q],
         found'[q] = found[q], todo'[q] = todo[q],
         \A l \in DOMAIN lists : l \in DOMAIN lists' /\ lists'[l] = lists[l],
         nextItem' >= nextItem, nextItem' \in Nat,
         \A i \in items' : i.id = nextItem \/ \E j \in items : j.id = i.id /\ j.list = i.list
  PROVE  RequestOK(q)'
<1>1. RequestOK(q)
  BY DEF Inv
<1>2. OwnOK(q)' /\ TodoOK(q)'
  BY <1>1 DEF RequestOK, OwnOK, TodoOK
<1>3. FoundOK(q)'
  <2>1. SUFFICES ASSUME found'[q] # None
                 PROVE  /\ pc'[q] = "save" /\ found'[q] < nextItem'
                        /\ \A i \in items' : i.id = found'[q] => i.list = own'[q]
    BY DEF FoundOK
  <2>2. /\ pc[q] = "save" /\ found[q] < nextItem
        /\ \A i \in items : i.id = found[q] => i.list = own[q]
    BY <1>1, <2>1 DEF RequestOK, FoundOK
  <2>3. found[q] \in Nat /\ nextItem \in Nat
    BY DEF Inv, Typed
  <2>4. pc'[q] = "save" /\ found'[q] < nextItem'
    BY <2>2, <2>3
  <2>5. ASSUME NEW i \in items', i.id = found'[q] PROVE i.list = own'[q]
    <3>1. i.id # nextItem
      BY <2>2, <2>3, <2>5
    <3>2. PICK j \in items : j.id = i.id /\ j.list = i.list
      BY <3>1
    <3>3. QED
      BY <2>2, <2>5, <3>2
  <2>6. QED
    BY <2>4, <2>5
<1>4. QED
  BY <1>2, <1>3 DEF RequestOK

LEMMA ReplyStep ==
  ASSUME Inv, NEW r \in Requests, NEW answer, Reply(r, answer)
  PROVE  /\ op' \in [Requests -> Operations \cup {"none"}]
         /\ pc' \in [Requests -> Labels]
         /\ who' \in [Requests -> Customers \cup {None}]
         /\ own' \in [Requests -> Nat] /\ found' \in [Requests -> Nat]
         /\ todo' \in [Requests -> Seq(Wants)]
         /\ \A q \in Requests \ {r} :
              /\ pc'[q] = pc[q] /\ op'[q] = op[q] /\ who'[q] = who[q]
              /\ own'[q] = own[q] /\ found'[q] = found[q] /\ todo'[q] = todo[q]
         /\ RequestOK(r)'
<1>1. /\ op' \in [Requests -> Operations \cup {"none"}]
      /\ pc' \in [Requests -> Labels] /\ pc'[r] = "idle"
      /\ who' \in [Requests -> Customers \cup {None}]
      /\ own' \in [Requests -> Nat] /\ found' \in [Requests -> Nat]
      /\ found'[r] = None /\ todo' \in [Requests -> Seq(Wants)]
  BY DEF Reply, Inv, Typed, Labels, None
<1>2. RequestOK(r)'
  BY <1>1 DEF RequestOK, OwnOK, FoundOK, TodoOK
<1>3. QED
  BY <1>1, <1>2 DEF Reply, Inv, Typed

\* A reply when no row has changed.
LEMMA ReplyInv ==
  ASSUME Inv, NEW r \in Requests, NEW answer, Reply(r, answer), UNCHANGED tables
  PROVE  Inv'
<1>1. Typed'
  BY ReplyStep DEF Inv, Typed, tables
<1>2. IdsOK'
  BY DEF Inv, IdsOK, tables
<1>3. \A q \in Requests \ {r} : RequestOK(q)'
  BY ReplyStep, OthersOK DEF tables, Inv, Typed
<1>4. QED
  BY <1>1, <1>2, <1>3, ReplyStep DEF Inv

LEMMA CountInv == ASSUME Inv, NEW r \in Requests, CountItems(r) PROVE Inv'
<1>1. PICK ok \in BOOLEAN : Reply(r, IF ok THEN "ok" ELSE "error")
  BY DEF CountItems
<1>2. QED
  BY <1>1, ReplyInv DEF CountItems

LEMMA AdmitInv == ASSUME Inv, NEW r \in Requests, Admit(r) PROVE Inv'
<1>1. PICK o \in Operations, c \in Customers, basket \in Baskets :
        /\ o = "AddProductsToWishlist" => basket # <<>>
        /\ pc[r] = "idle" /\ op' = [op EXCEPT ![r] = o] /\ who' = [who EXCEPT ![r] = c]
        /\ todo' = [todo EXCEPT ![r] = basket]
        /\ pc' = [pc EXCEPT ![r] = "get"]
        /\ UNCHANGED <<tables, own, found>>
  BY DEF Admit
<1>2. basket \in Seq(Wants)
  BY BasketType
<1>3. Typed'
  BY <1>1, <1>2 DEF Inv, Typed, tables, Labels
<1>4. IdsOK'
  BY <1>1 DEF Inv, IdsOK, tables
<1>5. \A q \in Requests \ {r} : RequestOK(q)'
  BY <1>1, OthersOK DEF tables, Inv, Typed
<1>6. RequestOK(r)'
  <2>1. found[r] = None
    BY <1>1 DEF Inv, RequestOK, FoundOK
  <2>2. QED
    BY <1>1, <2>1 DEF RequestOK, OwnOK, FoundOK, TodoOK, Inv, Typed
<1>7. QED
  BY <1>3, <1>4, <1>5, <1>6 DEF Inv

LEMMA GetListInv == ASSUME Inv, NEW r \in Requests, GetList(r) PROVE Inv'
<1>1. pc[r] = "get" /\ UNCHANGED tables
  BY DEF GetList
<1>2. CASE \E answer : Reply(r, answer)
  BY <1>1, <1>2, ReplyInv
<1>3. CASE /\ \/ /\ \E l \in ListsOf(who[r]) : own' = [own EXCEPT ![r] = l]
                 /\ pc' = [pc EXCEPT ![r] = "own"]
              \/ UNCHANGED own /\ pc' = [pc EXCEPT ![r] = "create"]
           /\ UNCHANGED <<op, who, todo, found>>
  <2>1. \A l \in ListsOf(who[r]) : l \in DOMAIN lists /\ l \in Nat /\ lists[l] = who[r]
    BY DEF ListsOf, Inv, Typed
  <2>2. Typed'
    BY <1>1, <1>3, <2>1 DEF Inv, Typed, tables, Labels
  <2>3. IdsOK'
    BY <1>1 DEF Inv, IdsOK, tables
  <2>4. \A q \in Requests \ {r} : RequestOK(q)'
    BY <1>1, <1>3, OthersOK DEF tables, Inv, Typed
  <2>5. RequestOK(r)
    BY DEF Inv
  <2>6. OwnOK(r)'
    BY <1>1, <1>3, <2>1, <2>5 DEF RequestOK, OwnOK, Inv, Typed, tables
  <2>7. FoundOK(r)' /\ TodoOK(r)'
    BY <1>1, <1>3, <2>5 DEF RequestOK, FoundOK, TodoOK, Inv, Typed
  <2>8. QED
    BY <2>2, <2>3, <2>4, <2>6, <2>7 DEF Inv, RequestOK
<1>4. QED
  BY <1>2, <1>3 DEF GetList, Goto, work

LEMMA CreateListInv == ASSUME Inv, NEW r \in Requests, CreateList(r) PROVE Inv'
<1>1. pc[r] = "create" /\ UNCHANGED <<items, nextItem>>
  BY DEF CreateList
<1>2. PICK applied \in BOOLEAN :
        /\ lists' = IF applied THEN Append(lists, who[r]) ELSE lists
        /\ \/ \E answer : Reply(r, answer)
           \/ /\ applied /\ own' = [own EXCEPT ![r] = Len(lists')]
              /\ pc' = [pc EXCEPT ![r] = "own"]
              /\ UNCHANGED <<op, who, todo, found>>
  <2>1. CASE UNCHANGED lists /\ \E answer : Reply(r, answer)
    BY <2>1
  <2>2. CASE ~(UNCHANGED lists /\ \E answer : Reply(r, answer))
    BY <2>2 DEF CreateList, Goto, Statement
  <2>3. QED
    BY <2>1, <2>2
<1>3. who[r] \in Customers /\ lists \in Seq(Customers) /\ RequestOK(r)
  BY <1>1 DEF Inv, Typed, RequestOK, OwnOK
<1>4. /\ lists' \in Seq(Customers)
      /\ \A l \in DOMAIN lists : l \in DOMAIN lists' /\ lists'[l] = lists[l]
      /\ applied => Len(lists') \in DOMAIN lists' /\ lists'[Len(lists')] = who[r]
                    /\ Len(lists') \in Nat
  BY <1>2, <1>3
<1>5. IdsOK'
  BY <1>1 DEF Inv, IdsOK
<1>6. CASE \E answer : Reply(r, answer)
  <2>1. Typed'
    BY <1>1, <1>4, <1>6, ReplyStep DEF Inv, Typed
  <2>2. \A q \in Requests \ {r} : RequestOK(q)'
    BY <1>1, <1>4, <1>6, ReplyStep, OthersOK DEF Inv, Typed
  <2>3. QED
    BY <2>1, <2>2, <1>5, <1>6, ReplyStep DEF Inv
<1>7. CASE /\ applied /\ own' = [own EXCEPT ![r] = Len(lists')]
           /\ pc' = [pc EXCEPT ![r] = "own"]
           /\ UNCHANGED <<op, who, todo, found>>
  <2>1. Typed'
    BY <1>1, <1>4, <1>7 DEF Inv, Typed, Labels
  <2>2. \A q \in Requests \ {r} : RequestOK(q)'
    BY <1>1, <1>4, <1>7, OthersOK DEF Inv, Typed
  <2>3. OwnOK(r)'
    BY <1>1, <1>3, <1>4, <1>7 DEF RequestOK, OwnOK, Inv, Typed
  <2>4. FoundOK(r)' /\ TodoOK(r)'
    BY <1>1, <1>3, <1>7 DEF RequestOK, FoundOK, TodoOK, Inv, Typed
  <2>5. QED
    BY <2>1, <2>2, <2>3, <2>4, <1>5 DEF Inv, RequestOK
<1>8. QED
  BY <1>2, <1>6, <1>7

LEMMA OwnershipInv == ASSUME Inv, NEW r \in Requests, CheckOwnership(r) PROVE Inv'
<1>1. pc[r] = "own" /\ UNCHANGED tables /\ RequestOK(r)
  BY DEF CheckOwnership, Inv
<1>2. CASE \E answer : Reply(r, answer)
  BY <1>1, <1>2, ReplyInv
<1>3. CASE ~\E answer : Reply(r, answer)
  <2>1. PICK label \in {"count", "find", "remove"} :
          /\ label = "find" => op[r] = "AddProductsToWishlist"
          /\ pc' = [pc EXCEPT ![r] = label]
          /\ UNCHANGED <<op, who, own, todo, found>>
    <3>1. op[r] \in {"Wishlist", "AddProductsToWishlist", "RemoveProductsFromWishlist"}
      BY <1>1, OperationsAssumption DEF RequestOK, OwnOK, WishlistOperations
    <3>2. QED
      BY <3>1, <1>3 DEF CheckOwnership, Goto, work
  <2>2. Typed'
    BY <1>1, <2>1 DEF Inv, Typed, tables, Labels
  <2>3. IdsOK'
    BY <1>1 DEF Inv, IdsOK, tables
  <2>4. \A q \in Requests \ {r} : RequestOK(q)'
    BY <1>1, <2>1, OthersOK DEF tables, Inv, Typed
  <2>5. OwnOK(r)' /\ FoundOK(r)' /\ TodoOK(r)'
    BY <1>1, <2>1 DEF RequestOK, OwnOK, FoundOK, TodoOK, Inv, Typed, tables
  <2>6. QED
    BY <2>2, <2>3, <2>4, <2>5 DEF Inv, RequestOK
<1>4. QED
  BY <1>2, <1>3

----------------------------------------------------------------------------
\* What NextProduct does besides reporting.
Advance(r) ==
  /\ todo' = [todo EXCEPT ![r] = Tail(@)]
  /\ found' = [found EXCEPT ![r] = None]
  /\ Goto(r, IF Len(todo[r]) = 1 THEN "count" ELSE "find")

LEMMA NextProductStep ==
  ASSUME Inv, NEW r \in Requests, pc[r] \in {"find", "save"},
         Advance(r), UNCHANGED <<lists, own>>
  PROVE  /\ op' \in [Requests -> Operations \cup {"none"}]
         /\ pc' \in [Requests -> Labels]
         /\ who' \in [Requests -> Customers \cup {None}]
         /\ own' \in [Requests -> Nat] /\ found' \in [Requests -> Nat]
         /\ todo' \in [Requests -> Seq(Wants)] /\ todo'[r] # todo[r]
         /\ \A q \in Requests \ {r} :
              /\ pc'[q] = pc[q] /\ op'[q] = op[q] /\ who'[q] = who[q]
              /\ own'[q] = own[q] /\ found'[q] = found[q] /\ todo'[q] = todo[q]
         /\ RequestOK(r)'
<1>1. RequestOK(r) /\ todo[r] \in Seq(Wants) /\ todo[r] # <<>>
  BY DEF Inv, Typed, RequestOK, TodoOK
<1>2. Tail(todo[r]) \in Seq(Wants) /\ Len(Tail(todo[r])) = Len(todo[r]) - 1
      /\ Len(todo[r]) \in Nat
  BY <1>1, HeadTailProperties, LenProperties
<1>3. /\ todo' = [todo EXCEPT ![r] = Tail(todo[r])]
      /\ found' = [found EXCEPT ![r] = None]
      /\ pc' = [pc EXCEPT ![r] = IF Len(todo[r]) = 1 THEN "count" ELSE "find"]
      /\ UNCHANGED <<op, who, own, lists>>
  BY DEF Advance, Goto
<1>4. todo'[r] = Tail(todo[r]) /\ found'[r] = None /\ pc'[r] \in {"count", "find"}
      /\ (pc'[r] = "find" => Len(todo[r]) # 1)
  BY <1>3 DEF Inv, Typed
<1>5. pc'[r] = "find" => todo'[r] # <<>>
  <2>1. SUFFICES ASSUME pc'[r] = "find", Tail(todo[r]) = <<>> PROVE FALSE
    BY <1>4
  <2>2. Len(Tail(todo[r])) = 0
    BY <1>2, <2>1, EmptySeq
  <2>3. QED
    BY <1>2, <1>4, <2>1, <2>2
<1>6. todo'[r] # todo[r]
  <2>1. SUFFICES ASSUME Tail(todo[r]) = todo[r] PROVE FALSE
    BY <1>4
  <2>2. Len(todo[r]) = Len(todo[r]) - 1
    BY <1>2, <2>1
  <2>3. QED
    BY <1>2, <2>2
<1>7. OwnOK(r)' /\ FoundOK(r)' /\ TodoOK(r)'
  BY <1>1, <1>3, <1>4, <1>5 DEF RequestOK, OwnOK, FoundOK, TodoOK, Inv, Typed
<1>8. QED
  BY <1>2, <1>3, <1>6, <1>7 DEF RequestOK, Inv, Typed, Labels, None

LEMMA FindInv == ASSUME Inv, NEW r \in Requests, FindItem(r) PROVE Inv'
<1>1. pc[r] = "find" /\ UNCHANGED <<tables, own>> /\ RequestOK(r)
  BY DEF FindItem, Inv
<1>2. IdsOK'
  BY <1>1 DEF Inv, IdsOK, tables
<1>3. CASE Advance(r)
  <2>1. UNCHANGED <<lists, own>>
    BY <1>1 DEF tables
  <2>2. Typed'
    BY <1>1, <1>3, <2>1, NextProductStep DEF Inv, Typed, tables
  <2>3. ASSUME NEW q \in Requests \ {r} PROVE RequestOK(q)'
    <3>1. /\ pc'[q] = pc[q] /\ op'[q] = op[q] /\ who'[q] = who[q]
          /\ own'[q] = own[q] /\ found'[q] = found[q] /\ todo'[q] = todo[q]
      BY <1>1, <1>3, <2>1, NextProductStep
    <3>2. QED
      BY <1>1, <3>1, OthersOK DEF tables, Inv, Typed
  <2>4. QED
    BY <2>1, <2>2, <2>3, <1>1, <1>2, <1>3, NextProductStep DEF Inv
<1>4. CASE ~Advance(r)
  <2>1. found[r] = None
    BY <1>1 DEF RequestOK, FoundOK
  <2>2. PICK id \in Nat :
          /\ found' = [found EXCEPT ![r] = id]
          /\ id = None \/ \E i \in items : i.id = id /\ i.list = own[r]
    <3>1. CASE UNCHANGED found
      <4>1. found' = [found EXCEPT ![r] = None] /\ None \in Nat
        BY <2>1, <3>1 DEF Inv, Typed, None
      <4>2. QED
        BY <4>1
    <3>2. CASE \E i \in items : i.list = own[r] /\ found' = [found EXCEPT ![r] = i.id]
      BY <3>2 DEF Inv, Typed, Row
    <3>3. QED
      BY <1>4, <3>1, <3>2 DEF FindItem, RowsOf, NextProduct, Advance
  <2>3. pc' = [pc EXCEPT ![r] = "save"] /\ UNCHANGED <<op, who, own, todo>>
    BY <1>1, <1>4 DEF FindItem, Goto, NextProduct, Advance
  <2>4. Typed'
    BY <1>1, <2>2, <2>3 DEF Inv, Typed, tables, Labels
  <2>5. \A q \in Requests \ {r} : RequestOK(q)'
    BY <1>1, <2>2, <2>3, OthersOK DEF tables, Inv, Typed
  <2>6. OwnOK(r)' /\ TodoOK(r)'
    BY <1>1, <2>3 DEF RequestOK, OwnOK, TodoOK, Inv, Typed, tables
  <2>7. FoundOK(r)'
    BY <1>1, <2>2, <2>3 DEF FoundOK, Inv, Typed, IdsOK, tables
  <2>8. QED
    BY <2>4, <2>5, <2>6, <2>7, <1>2 DEF Inv, RequestOK
<1>5. QED
  BY <1>3, <1>4

----------------------------------------------------------------------------
\* An UPDATE leaves ids and wishlists of items alone, an INSERT adds an item of
\* the next id to the wishlist of the request.
LEMMA SavedRows ==
  ASSUME Inv, NEW r \in Requests, pc[r] = "save"
  PROVE  /\ Saved(r) \subseteq Row
         /\ \A i \in Saved(r) :
              \/ \E j \in items : j.id = i.id /\ j.list = i.list /\ j.product = i.product
              \/ found[r] = None /\ i.id = nextItem
         /\ \A i, j \in Saved(r) : i.id = j.id => i = j
         /\ \A l : l # own[r] => {i \in Saved(r) : i.list = l} = {i \in items : i.list = l}
<1> DEFINE want == Head(todo[r])
           qty  == Corrected(want.qty)
<1>1. RequestOK(r) /\ todo[r] \in Seq(Wants) /\ todo[r] # <<>>
  BY DEF Inv, Typed, RequestOK, TodoOK
<1>2. want \in Wants
  BY <1>1, HeadTailProperties
<1> HIDE DEF want
<1>3. want.sku \in Skus /\ want.qty \in Int
  BY <1>2, QuantityAssumption DEF Wants
<1>8. qty \in Int
  BY <1>3 DEF Corrected, qty
<1> HIDE DEF qty
<1>4. items \subseteq Row
  BY DEF Inv, Typed
<1>5. CASE found[r] # None
  <2> DEFINE update(i) == IF i.id = found[r] THEN [i EXCEPT !.qty = qty] ELSE i
  <2>1. Saved(r) = {update(i) : i \in items}
    BY <1>5 DEF Saved, want, qty
  <2>2. \A i \in items : /\ update(i) \in Row /\ update(i).id = i.id
                         /\ update(i).list = i.list /\ update(i).product = i.product
    BY <1>4, <1>8 DEF Row
  <2>3. \A i \in items : i.list # own[r] => update(i) = i
    BY <1>1, <1>5 DEF RequestOK, FoundOK
  <2> HIDE DEF update
  <2>4. \A i, j \in items : update(i).id = update(j).id => i = j
    BY <2>2 DEF Inv, IdsOK
  <2>5. ASSUME NEW l, l # own[r]
        PROVE  {i \in Saved(r) : i.list = l} = {i \in items : i.list = l}
    BY <2>1, <2>2, <2>3, <2>5
  <2>6. QED
    BY <2>1, <2>2, <2>4, <2>5
<1>6. CASE found[r] = None
  <2> DEFINE new == [id |-> nextItem, list |-> own[r], product |-> want.sku, qty |-> qty]
  <2>1. Saved(r) = items \cup {new}
    BY <1>6 DEF Saved, want, qty
  <2>2. new \in Row /\ new.id = nextItem /\ new.list = own[r]
    BY <1>3, <1>8 DEF Row, Inv, Typed
  <2> HIDE DEF new
  <2>3. \A i \in items : i.id # nextItem
    BY <1>4 DEF Inv, IdsOK, Typed, Row
  <2>4. QED
    BY <2>1, <2>2, <2>3, <1>4, <1>6 DEF Inv, IdsOK
<1>7. QED
  BY <1>5, <1>6

LEMMA SaveInv ==
  ASSUME Inv, NEW r \in Requests, SaveItem(r)
  PROVE  Inv' /\ todo'[r] # todo[r]
<1>1. PICK applied \in BOOLEAN :
        /\ items' = IF applied THEN Saved(r) ELSE items
        /\ nextItem' = IF applied /\ found[r] = None THEN nextItem + 1 ELSE nextItem
        /\ Advance(r)
  BY DEF SaveItem, NextProduct, Advance
<1>2. pc[r] = "save" /\ UNCHANGED <<lists, own>>
  BY DEF SaveItem
<1>4. nextItem \in Nat \ {0} /\ nextItem' \in Nat \ {0} /\ nextItem' >= nextItem
      /\ items \subseteq Row
  BY <1>1 DEF Inv, Typed
<1>5. /\ items' \subseteq Row
      /\ \A i, j \in items' : i.id = j.id => i = j
      /\ \A i \in items' : \/ \E j \in items : j.id = i.id /\ j.list = i.list
                           \/ i.id = nextItem /\ nextItem' = nextItem + 1
  <2>1. CASE applied
    <3>1. items' = Saved(r) /\ (found[r] = None => nextItem' = nextItem + 1)
      BY <1>1, <2>1
    <3>2. Saved(r) \subseteq Row /\ \A i, j \in Saved(r) : i.id = j.id => i = j
      BY <1>2, SavedRows
    <3>3. \A i \in Saved(r) : \/ \E j \in items : j.id = i.id /\ j.list = i.list
                              \/ found[r] = None /\ i.id = nextItem
      BY <1>2, SavedRows
    <3>4. items' \subseteq Row /\ \A i, j \in items' : i.id = j.id => i = j
      BY <3>1, <3>2
    <3>5. ASSUME NEW i \in items'
          PROVE  \/ \E j \in items : j.id = i.id /\ j.list = i.list
                 \/ i.id = nextItem /\ nextItem' = nextItem + 1
      BY <3>1, <3>3, <3>5
    <3>6. QED
      BY <3>4, <3>5
  <2>2. CASE ~applied
    <3>1. items' = items
      BY <1>1, <2>2
    <3>2. \A i, j \in items : i.id = j.id => i = j
      BY DEF Inv, IdsOK
    <3>3. items' \subseteq Row /\ \A i, j \in items' : i.id = j.id => i = j
      BY <1>4, <3>1, <3>2
    <3>4. \A i \in items' : \E j \in items : j.id = i.id /\ j.list = i.list
      BY <3>1
    <3>5. QED
      BY <3>3, <3>4
  <2>3. QED
    BY <2>1, <2>2
<1>6. Typed'
  BY <1>1, <1>2, <1>4, <1>5, NextProductStep DEF Inv, Typed
<1>7. IdsOK'
  <2>1. ASSUME NEW i \in items' PROVE i.id < nextItem'
    <3>1. CASE \E j \in items : j.id = i.id
      BY <3>1, <1>4 DEF Inv, IdsOK, Row
    <3>2. CASE i.id = nextItem /\ nextItem' = nextItem + 1
      BY <3>2, <1>4
    <3>3. QED
      BY <3>1, <3>2, <1>5
  <2>2. QED
    BY <2>1, <1>5 DEF IdsOK
<1>8. ASSUME NEW q \in Requests \ {r} PROVE RequestOK(q)'
  <2>1. /\ pc'[q] = pc[q] /\ op'[q] = op[q] /\ who'[q] = who[q]
        /\ own'[q] = own[q] /\ found'[q] = found[q] /\ todo'[q] = todo[q]
    BY <1>1, <1>2, NextProductStep
  <2>2. QED
    BY <1>2, <1>4, <1>5, <2>1, OthersOK
<1>9. QED
  BY <1>1, <1>2, <1>6, <1>7, <1>8, NextProductStep DEF Inv

LEMMA RemoveInv == ASSUME Inv, NEW r \in Requests, RemoveItems(r) PROVE Inv'
<1>1. /\ pc[r] = "remove" /\ UNCHANGED <<lists, nextItem>> /\ items' \subseteq items
      /\ RequestOK(r)
  BY DEF RemoveItems, Inv
<1>2. IdsOK'
  BY <1>1 DEF Inv, IdsOK
<1>3. CASE \E answer : Reply(r, answer)
  <2>1. Typed'
    BY <1>1, <1>3, ReplyStep DEF Inv, Typed
  <2>2. ASSUME NEW q \in Requests \ {r} PROVE RequestOK(q)'
    <3>1. /\ pc'[q] = pc[q] /\ op'[q] = op[q] /\ who'[q] = who[q]
          /\ own'[q] = own[q] /\ found'[q] = found[q] /\ todo'[q] = todo[q]
      BY <1>3, ReplyStep
    <3>2. QED
      BY <1>1, <3>1, OthersOK DEF Inv, Typed
  <2>3. QED
    BY <2>1, <2>2, <1>2, <1>3, ReplyStep DEF Inv
<1>4. CASE pc' = [pc EXCEPT ![r] = "count"] /\ UNCHANGED <<op, who, own, todo, found>>
  <2>1. Typed'
    BY <1>1, <1>4 DEF Inv, Typed, Labels
  <2>2. ASSUME NEW q \in Requests \ {r} PROVE RequestOK(q)'
    BY <1>1, <1>4, OthersOK DEF Inv, Typed
  <2>3. RequestOK(r)'
    BY <1>1, <1>4 DEF RequestOK, OwnOK, FoundOK, TodoOK, Inv, Typed
  <2>4. QED
    BY <2>1, <2>2, <2>3, <1>2 DEF Inv
<1>5. QED
  BY <1>3, <1>4 DEF RemoveItems, Goto

LEMMA NextInv == Inv /\ [Next]_vars => Inv'
<1>1. ASSUME Inv, UNCHANGED vars PROVE Inv'
  BY <1>1 DEF vars, Inv, Typed, IdsOK, RequestOK, OwnOK, FoundOK, TodoOK
<1>2. QED
  BY <1>1, AdmitInv, GetListInv, CreateListInv, OwnershipInv, FindInv, SaveInv,
     RemoveInv, CountInv DEF Next

THEOREM Invariant == Spec => []Inv
<1>1. QED
  BY InitInv, NextInv, PTL DEF Spec

----------------------------------------------------------------------------
\* A step that changes the items of a wishlist is one of a request of its owner:
\* the check of the resolver, made before all statements, holds until the last
\* of them, and the item found by the SELECT is still in that wishlist when the
\* UPDATE runs (wishlist.go:177).
LEMMA OwnerStep ==
  ASSUME Inv, [Next]_vars, NEW l \in Lists,
         {i \in items' : i.list = l} # {i \in items : i.list = l}
  PROVE  \E r \in Requests :
           /\ \/ pc[r] = "save" /\ todo'[r] # todo[r]
              \/ pc[r] = "remove" /\ pc'[r] # "remove"
           /\ who[r] = lists[l]
<1>1. items' # items
  OBVIOUS
<1>2. PICK r \in Requests : SaveItem(r) \/ RemoveItems(r)
  <2>1. ~UNCHANGED vars
    BY <1>1 DEF vars
  <2>2. PICK r \in Requests :
          \/ Admit(r) \/ GetList(r) \/ CreateList(r) \/ CheckOwnership(r)
          \/ FindItem(r) \/ SaveItem(r) \/ RemoveItems(r) \/ CountItems(r)
    BY <2>1 DEF Next
  <2>3. ~(Admit(r) \/ GetList(r) \/ CheckOwnership(r) \/ FindItem(r) \/ CountItems(r))
    BY <1>1 DEF Admit, GetList, CheckOwnership, FindItem, CountItems, tables
  <2>4. ~CreateList(r)
    BY <1>1 DEF CreateList
  <2>5. QED
    BY <2>2, <2>3, <2>4
<1>3. RequestOK(r) /\ pc[r] \in {"save", "remove"}
  BY <1>2 DEF Inv, SaveItem, RemoveItems
<1>4. who[r] = lists[own[r]]
  BY <1>3 DEF RequestOK, OwnOK
<1>5. CASE SaveItem(r)
  <2>1. pc[r] = "save" /\ items' \in {Saved(r), items}
    BY <1>5 DEF SaveItem
  <2>2. l = own[r]
    BY <2>1, <1>1, SavedRows
  <2>3. QED
    BY <2>1, <2>2, <1>4, <1>5, SaveInv
<1>6. CASE RemoveItems(r)
  <2>1. items' = items \ Doomed(r)
    BY <1>1, <1>6 DEF RemoveItems
  <2>2. l = own[r]
    BY <2>1 DEF Doomed
  <2>3. pc[r] = "remove" /\ pc'[r] # "remove"
    BY <1>6 DEF RemoveItems, Reply, Goto, Inv, Typed
  <2>4. QED
    BY <2>2, <2>3, <1>4
<1>7. QED
  BY <1>2, <1>5, <1>6

\* Whatever wishlist and item ids clients name, the items of a wishlist change
\* only in a request of its owner.
THEOREM OwnerTheorem == Spec => OnlyOwnerChanges
<1>1. Inv /\ [Next]_vars =>
        [\A l \in Lists :
           {i \in items' : i.list = l} # {i \in items : i.list = l}
             => \E r \in Requests :
                  /\ \/ pc[r] = "save" /\ todo'[r] # todo[r]
                     \/ pc[r] = "remove" /\ pc'[r] # "remove"
                  /\ who[r] = lists[l]]_vars
  BY OwnerStep
<1>2. QED
  BY <1>1, Invariant, PTL DEF Spec, OnlyOwnerChanges

----------------------------------------------------------------------------
(* Every product asked for is added or reported.                           *)

\* No item was ever removed: every id handed out still has its row.
Kept == \A k \in Nat \ {0} : k < nextItem => \E i \in items : i.id = k

\* The products that request r has still to add.
Pending(r) == {want.sku : want \in ToSet(todo[r])}

\* Products are asked for by additions only, and all are dealt with at the end.
AskedOK(r) ==
  /\ asked[r] \subseteq Skus /\ reported[r] \subseteq Skus
  /\ op[r] # "AddProductsToWishlist" => asked[r] = {} /\ todo[r] = <<>>
  /\ pc[r] \in {"get", "create", "own"} => asked[r] \subseteq Pending(r)
  /\ pc[r] = "count" => todo[r] = <<>>
  /\ pc[r] = "remove" => op[r] # "AddProductsToWishlist"

\* The item that a request has found holds the product it is about to add.
SkuOK(r) ==
  found[r] # None =>
    \A i \in items : i.id = found[r] => i.product = Head(todo[r]).sku

Covered(r) ==
  pc[r] \in {"find", "save", "count"} /\ Kept =>
    \A sku \in asked[r] :
      sku \in reported[r] \/ sku \in Pending(r) \/ RowsOf(own[r], sku) # {}

LocalsOK ==
  asked \in [Requests -> SUBSET Skus] /\ reported \in [Requests -> SUBSET Skus]

AddInv == /\ Inv /\ LocalsOK
          /\ \A r \in Requests : AskedOK(r) /\ SkuOK(r) /\ Covered(r)

\* Rows keep their ids, wishlists and products; new ones have the next id.
Evolved ==
  /\ nextItem' >= nextItem
  /\ \A i \in items' :
       \/ \E j \in items : j.id = i.id /\ j.list = i.list /\ j.product = i.product
       \/ i.id = nextItem

LEMMA KeptBefore ==
  ASSUME Inv, Inv', Evolved, Kept'
  PROVE  /\ Kept
         /\ \A i \in items : \E j \in items' :
              j.id = i.id /\ j.list = i.list /\ j.product = i.product
<1>1. nextItem \in Nat /\ nextItem' \in Nat /\ nextItem' >= nextItem
  BY DEF Inv, Typed, Evolved
<1>2. ASSUME NEW k \in Nat \ {0}, k < nextItem
      PROVE  \E i \in items' : i.id = k /\ \E j \in items :
               j.id = k /\ j.list = i.list /\ j.product = i.product
  <2>1. k < nextItem'
    BY <1>1, <1>2
  <2>2. k # nextItem
    BY <1>1, <1>2
  <2>3. PICK i \in items' : i.id = k
    BY <1>2, <2>1 DEF Kept
  <2>4. QED
    BY <2>2, <2>3 DEF Evolved
<1>3. Kept
  BY <1>1, <1>2 DEF Kept
<1>4. ASSUME NEW i \in items
      PROVE  \E j \in items' : j.id = i.id /\ j.list = i.list /\ j.product = i.product
  <2>1. i.id \in Nat \ {0} /\ i.id < nextItem
    BY <1>1 DEF Inv, Typed, Row, IdsOK
  <2>2. QED
    BY <1>2, <2>1 DEF Inv, IdsOK
<1>5. QED
  BY <1>3, <1>4

LEMMA RowsKept ==
  ASSUME Inv, Inv', Evolved, Kept', NEW l, NEW sku, RowsOf(l, sku) # {}
  PROVE  {i \in items' : i.list = l /\ i.product = sku} # {}
BY KeptBefore DEF RowsOf

\* Whatever a request does, the others keep what they know.
LEMMA OthersCovered ==
  ASSUME AddInv, Inv', Evolved, NEW q \in Requests,
         pc'[q] = pc[q], op'[q] = op[q], own'[q] = own[q], found'[q] = found[q],
         todo'[q] = todo[q], asked'[q] = asked[q], reported'[q] = reported[q]
  PROVE  AskedOK(q)' /\ SkuOK(q)' /\ Covered(q)'
<1>1. Pending(q)' = Pending(q)
  BY DEF Pending
<1>2. AskedOK(q)'
  BY <1>1 DEF AddInv, AskedOK
<1>3. SkuOK(q)'
  <2>1. SUFFICES ASSUME found[q] # None, NEW i \in items', i.id = found[q]
                 PROVE  i.product = Head(todo[q]).sku
    BY DEF SkuOK
  <2>2. found[q] < nextItem /\ found[q] \in Nat /\ nextItem \in Nat
    BY <2>1 DEF AddInv, Inv, Typed, RequestOK, FoundOK
  <2>3. PICK j \in items : j.id = i.id /\ j.product = i.product
    BY <2>1, <2>2 DEF Evolved
  <2>4. QED
    BY <2>1, <2>3 DEF AddInv, SkuOK
<1>4. Covered(q)'
  <2>1. SUFFICES ASSUME pc[q] \in {"find", "save", "count"}, Kept', NEW sku \in asked[q],
                        sku \notin reported[q], sku \notin Pending(q)
                 PROVE  RowsOf(own[q], sku)' # {}
    BY <1>1 DEF Covered
  <2>2. RowsOf(own[q], sku) # {}
    BY <2>1, KeptBefore DEF AddInv, Covered
  <2>3. {i \in items' : i.list = own[q] /\ i.product = sku} # {}
    BY <2>1, <2>2, RowsKept DEF AddInv
  <2>4. QED
    BY <2>3 DEF RowsOf
<1>5. QED
  BY <1>2, <1>3, <1>4

\* A request that has answered has nothing left to cover.
LEMMA ReplyCovered ==
  ASSUME AddInv, Inv', Evolved, NEW r \in Requests, NEW answer, Reply(r, answer)
  PROVE  AddInv'
<1>1. LocalsOK'
  BY DEF Reply, AddInv, LocalsOK
<1>2. AskedOK(r)' /\ SkuOK(r)' /\ Covered(r)'
  BY DEF Reply, AddInv, LocalsOK, Inv, Typed, AskedOK, SkuOK, Covered
<1>3. ASSUME NEW q \in Requests \ {r} PROVE AskedOK(q)' /\ SkuOK(q)' /\ Covered(q)'
  <2>1. /\ pc'[q] = pc[q] /\ op'[q] = op[q] /\ own'[q] = own[q] /\ found'[q] = found[q]
        /\ todo'[q] = todo[q] /\ asked'[q] = asked[q] /\ reported'[q] = reported[q]
    BY DEF Reply, AddInv, LocalsOK, Inv, Typed
  <2>2. QED
    BY <2>1, OthersCovered
<1>4. QED
  BY <1>1, <1>2, <1>3 DEF AddInv

\* A step before the first product, or past the last: only the program counter
\* and the wishlist of the request change.
LEMMA PlainCovered ==
  ASSUME AddInv, Inv', Evolved, NEW r \in Requests,
         NEW from, NEW label, pc[r] = from, pc' = [pc EXCEPT ![r] = label],
         \/ from \in {"get", "create"} /\ label \in {"create", "own"}
         \/ from = "own" /\ label = "find"
         \/ from \in {"own", "remove"} /\ label \in {"count", "remove"}
            /\ op[r] # "AddProductsToWishlist",
         own' = own \/ (\E l : own' = [own EXCEPT ![r] = l]),
         UNCHANGED <<op, found, todo, asked, reported>>
  PROVE  AddInv'
<1>1. LocalsOK'
  BY DEF AddInv, LocalsOK
<1>2. pc'[r] = label /\ Pending(r)' = Pending(r) /\ AskedOK(r) /\ found[r] = None
  BY DEF AddInv, Inv, Typed, RequestOK, FoundOK, Pending
<1>3. AskedOK(r)'
  BY <1>2 DEF AskedOK
<1>4. SkuOK(r)' /\ Covered(r)'
  BY <1>2 DEF SkuOK, Covered, AskedOK
<1>5. ASSUME NEW q \in Requests \ {r} PROVE AskedOK(q)' /\ SkuOK(q)' /\ Covered(q)'
  BY OthersCovered DEF AddInv, Inv, Typed
<1>6. QED
  BY <1>1, <1>3, <1>4, <1>5 DEF AddInv

LEMMA Unchanged == ASSUME Inv, UNCHANGED <<items, nextItem>> PROVE Evolved
BY DEF Inv, Typed, Evolved

LEMMA AdmitCovered == ASSUME AddInv, Inv', NEW r \in Requests, Admit(r) PROVE AddInv'
<1>1. PICK o \in Operations, basket \in Baskets :
        /\ o # "AddProductsToWishlist" => basket = <<>>
        /\ pc[r] = "idle" /\ op' = [op EXCEPT ![r] = o]
        /\ todo' = [todo EXCEPT ![r] = basket]
        /\ asked' = [asked EXCEPT ![r] = {want.sku : want \in ToSet(basket)}]
        /\ pc' = [pc EXCEPT ![r] = "get"]
        /\ UNCHANGED <<tables, own, found, reported>>
  BY DEF Admit
<1>2. basket \in Seq(Wants)
  BY BasketType
<1>3. {want.sku : want \in ToSet(basket)} \subseteq Skus
  <2>1. ASSUME NEW want \in ToSet(basket) PROVE want.sku \in Skus
    <3>1. PICK n \in 1..Len(basket) : want = basket[n]
      BY <1>2, LenProperties DEF ToSet
    <3>2. want \in Wants
      BY <1>2, <3>1, ElementOfSeq
    <3>3. QED
      BY <3>2 DEF Wants
  <2>2. QED
    BY <2>1
<1>4. (basket = <<>>) => {want.sku : want \in ToSet(basket)} = {}
  BY DEF ToSet
<1>5. Evolved
  BY <1>1, Unchanged DEF tables, AddInv
<1>6. LocalsOK'
  BY <1>1, <1>3 DEF AddInv, LocalsOK
<1>7. AskedOK(r)'
  <2>1. /\ asked'[r] = {want.sku : want \in ToSet(basket)} /\ todo'[r] = basket
        /\ op'[r] = o /\ pc'[r] = "get" /\ reported'[r] \subseteq Skus
    BY <1>1 DEF AddInv, LocalsOK, Inv, Typed
  <2>2. Pending(r)' = {want.sku : want \in ToSet(basket)}
    BY <2>1 DEF Pending
  <2>3. QED
    BY <2>1, <2>2, <1>1, <1>3, <1>4 DEF AskedOK
<1>8. SkuOK(r)' /\ Covered(r)'
  <2>1. found[r] = None
    BY <1>1 DEF AddInv, Inv, RequestOK, FoundOK
  <2>2. QED
    BY <2>1, <1>1 DEF SkuOK, Covered, AddInv, Inv, Typed
<1>9. ASSUME NEW q \in Requests \ {r} PROVE AskedOK(q)' /\ SkuOK(q)' /\ Covered(q)'
  BY <1>1, <1>5, OthersCovered DEF AddInv, LocalsOK, Inv, Typed
<1>10. QED
  BY <1>6, <1>7, <1>8, <1>9 DEF AddInv

LEMMA GetCovered == ASSUME AddInv, Inv', NEW r \in Requests, GetList(r) PROVE AddInv'
<1>1. Evolved
  BY Unchanged DEF AddInv, GetList, tables
<1>2. CASE \E answer : Reply(r, answer)
  BY <1>1, <1>2, ReplyCovered
<1>3. CASE ~\E answer : Reply(r, answer)
  <2>1. PICK label \in {"own", "create"} :
          /\ pc[r] = "get" /\ pc' = [pc EXCEPT ![r] = label]
          /\ own' = own \/ (\E l : own' = [own EXCEPT ![r] = l])
          /\ UNCHANGED <<op, found, todo, asked, reported>>
    BY <1>3 DEF GetList, Goto, work
  <2>2. QED
    BY <1>1, <2>1, PlainCovered
<1>4. QED
  BY <1>2, <1>3

LEMMA CreateCovered == ASSUME AddInv, Inv', NEW r \in Requests, CreateList(r) PROVE AddInv'
<1>1. Evolved
  BY Unchanged DEF AddInv, CreateList
<1>2. CASE \E answer : Reply(r, answer)
  BY <1>1, <1>2, ReplyCovered
<1>3. CASE ~\E answer : Reply(r, answer)
  <2>1. /\ pc[r] = "create" /\ pc' = [pc EXCEPT ![r] = "own"]
        /\ \E l : own' = [own EXCEPT ![r] = l]
        /\ UNCHANGED <<op, found, todo, asked, reported>>
    BY <1>3 DEF CreateList, Goto
  <2>2. QED
    BY <1>1, <2>1, PlainCovered
<1>4. QED
  BY <1>2, <1>3

LEMMA OwnershipCovered ==
  ASSUME AddInv, Inv', NEW r \in Requests, CheckOwnership(r) PROVE AddInv'
<1>1. Evolved
  BY Unchanged DEF AddInv, CheckOwnership, tables
<1>2. CASE \E answer : Reply(r, answer)
  BY <1>1, <1>2, ReplyCovered
<1>3. CASE ~\E answer : Reply(r, answer)
  <2>1. op[r] \in {"Wishlist", "AddProductsToWishlist", "RemoveProductsFromWishlist"}
    BY OperationsAssumption DEF AddInv, Inv, RequestOK, OwnOK, WishlistOperations,
       CheckOwnership
  <2>2. PICK label \in {"count", "find", "remove"} :
          /\ label # "find" => op[r] # "AddProductsToWishlist"
          /\ pc[r] = "own" /\ pc' = [pc EXCEPT ![r] = label]
          /\ UNCHANGED <<own, op, found, todo, asked, reported>>
    BY <2>1, <1>3 DEF CheckOwnership, Goto, work
  <2>3. QED
    BY <1>1, <2>2, PlainCovered
<1>4. QED
  BY <1>2, <1>3

LEMMA RemoveCovered == ASSUME AddInv, Inv', NEW r \in Requests, RemoveItems(r) PROVE AddInv'
<1>1. Evolved
  BY DEF AddInv, Inv, Typed, Evolved, RemoveItems
<1>2. CASE \E answer : Reply(r, answer)
  BY <1>1, <1>2, ReplyCovered
<1>3. CASE ~\E answer : Reply(r, answer)
  <2>1. /\ pc[r] = "remove" /\ pc' = [pc EXCEPT ![r] = "count"]
        /\ UNCHANGED <<own, op, found, todo, asked, reported>>
    BY <1>3 DEF RemoveItems, Goto
  <2>2. op[r] # "AddProductsToWishlist"
    BY <2>1 DEF AddInv, AskedOK
  <2>3. QED
    BY <1>1, <2>1, <2>2, PlainCovered
<1>4. QED
  BY <1>2, <1>3

LEMMA CountCovered == ASSUME AddInv, Inv', NEW r \in Requests, CountItems(r) PROVE AddInv'
<1>1. Evolved
  BY Unchanged DEF AddInv, CountItems, tables
<1>2. QED
  BY <1>1, ReplyCovered DEF CountItems

----------------------------------------------------------------------------
\* What NextProduct leaves to do.
LEMMA TailPending ==
  ASSUME AddInv, NEW r \in Requests, pc[r] \in {"find", "save"}
  PROVE  /\ todo[r] \in Seq(Wants) /\ todo[r] # <<>> /\ Head(todo[r]) \in Wants
         /\ Tail(todo[r]) \in Seq(Wants) /\ op[r] = "AddProductsToWishlist"
         /\ Len(todo[r]) = 1 => Tail(todo[r]) = <<>>
         /\ \A sku \in Pending(r) :
              \/ sku = Head(todo[r]).sku
              \/ sku \in {want.sku : want \in ToSet(Tail(todo[r]))}
<1>1. todo[r] \in Seq(Wants) /\ todo[r] # <<>>
  BY DEF AddInv, Inv, Typed, RequestOK, TodoOK
<1>2. /\ Head(todo[r]) \in Wants /\ Tail(todo[r]) \in Seq(Wants)
      /\ Len(Tail(todo[r])) = Len(todo[r]) - 1 /\ Len(todo[r]) \in Nat \ {0}
      /\ Head(todo[r]) = todo[r][1]
      /\ \A n \in 1..(Len(todo[r]) - 1) : Tail(todo[r])[n] = todo[r][n + 1]
  BY <1>1, HeadTailProperties, LenProperties
<1>3. Len(todo[r]) = 1 => Tail(todo[r]) = <<>>
  <2>1. SUFFICES ASSUME Len(todo[r]) = 1 PROVE Tail(todo[r]) = <<>>
    OBVIOUS
  <2>2. Len(Tail(todo[r])) = 0
    BY <1>2, <2>1
  <2>3. QED
    BY <1>2, <2>2, EmptySeq
<1>4. op[r] = "AddProductsToWishlist"
  BY <1>1 DEF AddInv, AskedOK
<1>5. ASSUME NEW sku \in Pending(r), sku # Head(todo[r]).sku
      PROVE  sku \in {want.sku : want \in ToSet(Tail(todo[r]))}
  <2>1. PICK n \in 1..Len(todo[r]) : sku = todo[r][n].sku
    BY <1>1, LenProperties DEF Pending, ToSet
  <2>2. n # 1 /\ (n - 1) \in 1..Len(Tail(todo[r]))
    BY <1>2, <1>5, <2>1
  <2>3. Tail(todo[r])[n - 1] = todo[r][n]
    BY <1>2, <2>1, <2>2
  <2>4. Tail(todo[r])[n - 1] \in ToSet(Tail(todo[r]))
    BY <1>2, <2>2, LenProperties DEF ToSet
  <2>5. QED
    BY <2>1, <2>3, <2>4
<1>6. QED
  BY <1>1, <1>2, <1>3, <1>4, <1>5

\* The wishlist has the product that a request has saved, if nothing was removed.
LEMMA SavedProduct ==
  ASSUME AddInv, Inv', Evolved, NEW r \in Requests, pc[r] = "save", items' = Saved(r), Kept'
  PROVE  {i \in items' : i.list = own[r] /\ i.product = Head(todo[r]).sku} # {}
<1> DEFINE want == Head(todo[r])
           qty  == Corrected(want.qty)
<1>1. CASE found[r] = None
  <2> DEFINE new == [id |-> nextItem, list |-> own[r], product |-> want.sku, qty |-> qty]
  <2>1. new \in items'
    BY <1>1 DEF Saved, want, qty
  <2>2. new.list = own[r] /\ new.product = Head(todo[r]).sku
    OBVIOUS
  <2> HIDE DEF new
  <2>3. QED
    BY <2>1, <2>2
<1>2. CASE found[r] # None
  <2>1. /\ found[r] \in Nat \ {0} /\ found[r] < nextItem
        /\ \A i \in items : i.id = found[r] => i.list = own[r] /\ i.product = Head(todo[r]).sku
    BY <1>2 DEF AddInv, Inv, Typed, RequestOK, FoundOK, SkuOK, None
  <2>2. PICK i \in items : i.id = found[r]
    BY <2>1, KeptBefore DEF AddInv, Kept
  <2>3. PICK j \in items' : j.id = i.id /\ j.list = i.list /\ j.product = i.product
    BY KeptBefore DEF AddInv
  <2>4. QED
    BY <2>1, <2>2, <2>3
<1>3. QED
  BY <1>1, <1>2

\* After NextProduct, r still covers what it was asked, when the product it leaves
\* behind is reported or in the wishlist.
LEMMA NextProductCovered ==
  ASSUME AddInv, Inv', Evolved, NEW r \in Requests, pc[r] \in {"find", "save"},
         Advance(r), UNCHANGED own, NEW more \in SUBSET Skus,
         reported' = [reported EXCEPT ![r] = reported[r] \cup more],
         \/ Head(todo[r]).sku \in more
         \/ Kept' => {i \in items' : i.list = own[r] /\ i.product = Head(todo[r]).sku} # {}
  PROVE  AddInv'
<1>1. /\ todo' = [todo EXCEPT ![r] = Tail(todo[r])]
      /\ found' = [found EXCEPT ![r] = None]
      /\ pc' = [pc EXCEPT ![r] = IF Len(todo[r]) = 1 THEN "count" ELSE "find"]
      /\ UNCHANGED <<op, own, asked>>
  BY DEF Advance, Goto
<1>2. /\ todo'[r] = Tail(todo[r]) /\ found'[r] = None /\ reported'[r] = reported[r] \cup more
      /\ pc'[r] \in {"count", "find"} /\ (pc'[r] = "count" => Len(todo[r]) = 1)
  BY <1>1 DEF AddInv, Inv, Typed, LocalsOK
<1>3. LocalsOK'
  BY <1>1 DEF AddInv, LocalsOK
<1>4. Pending(r)' = {want.sku : want \in ToSet(Tail(todo[r]))}
  BY <1>2 DEF Pending
<1>5. AskedOK(r)'
  BY <1>1, <1>2, TailPending DEF AddInv, AskedOK, LocalsOK
<1>6. SkuOK(r)'
  BY <1>2 DEF SkuOK
<1>7. Covered(r)'
  <2>1. SUFFICES ASSUME Kept', NEW sku \in asked[r], sku \notin reported[r] \cup more,
                        sku \notin Pending(r)'
                 PROVE  {i \in items' : i.list = own[r] /\ i.product = sku} # {}
    BY <1>1, <1>2 DEF Covered, RowsOf
  <2>2. CASE sku \in Pending(r)
    <3>1. sku = Head(todo[r]).sku
      BY <2>1, <2>2, <1>4, TailPending
    <3>2. QED
      BY <2>1, <3>1
  <2>3. CASE sku \notin Pending(r)
    <3>1. RowsOf(own[r], sku) # {}
      BY <2>1, <2>3, KeptBefore DEF AddInv, Covered
    <3>2. QED
      BY <2>1, <3>1, RowsKept DEF AddInv
  <2>4. QED
    BY <2>2, <2>3
<1>8. ASSUME NEW q \in Requests \ {r} PROVE AskedOK(q)' /\ SkuOK(q)' /\ Covered(q)'
  BY <1>1, OthersCovered DEF AddInv, LocalsOK, Inv, Typed
<1>9. QED
  BY <1>3, <1>5, <1>6, <1>7, <1>8 DEF AddInv

LEMMA FindCovered == ASSUME AddInv, Inv', NEW r \in Requests, FindItem(r) PROVE AddInv'
<1>1. Evolved
  BY Unchanged DEF AddInv, FindItem, tables
<1>2. pc[r] = "find" /\ UNCHANGED <<tables, own>>
  BY DEF FindItem
<1>3. CASE NextProduct(r, TRUE)
  <2>1. Advance(r)
    BY <1>3 DEF NextProduct, Advance
  <2>2. reported' = [reported EXCEPT ![r] = reported[r] \cup {Head(todo[r]).sku}]
    BY <1>3 DEF NextProduct
  <2>3. {Head(todo[r]).sku} \subseteq Skus
    BY <1>2, TailPending DEF Wants
  <2>4. QED
    BY <1>1, <1>2, <2>1, <2>2, <2>3, NextProductCovered
<1>4. CASE /\ \/ UNCHANGED found
              \/ \E i \in RowsOf(own[r], Head(todo[r]).sku) :
                   found' = [found EXCEPT ![r] = i.id]
           /\ Goto(r, "save") /\ UNCHANGED <<todo, reported>>
  <2>1. pc' = [pc EXCEPT ![r] = "save"] /\ UNCHANGED <<op, asked>>
    BY <1>4 DEF Goto
  <2>2. LocalsOK'
    BY <1>4, <2>1 DEF AddInv, LocalsOK
  <2>3. pc'[r] = "save" /\ Pending(r)' = Pending(r) /\ AskedOK(r) /\ found[r] = None
    BY <1>2, <1>4, <2>1 DEF AddInv, Inv, Typed, RequestOK, FoundOK, Pending
  <2>4. AskedOK(r)'
    BY <1>4, <2>1, <2>3 DEF AskedOK
  <2>5. SkuOK(r)'
    <3>1. CASE UNCHANGED found
      BY <2>3, <3>1 DEF SkuOK
    <3>2. ASSUME NEW i \in RowsOf(own[r], Head(todo[r]).sku),
                 found' = [found EXCEPT ![r] = i.id]
          PROVE  SkuOK(r)'
      BY <1>2, <1>4, <3>2 DEF SkuOK, RowsOf, AddInv, Inv, Typed, IdsOK, tables
    <3>3. QED
      BY <1>4, <3>1, <3>2
  <2>6. Covered(r)'
    BY <1>2, <1>4, <2>1, <2>3 DEF Covered, AddInv, Kept, RowsOf, tables
  <2>7. ASSUME NEW q \in Requests \ {r} PROVE AskedOK(q)' /\ SkuOK(q)' /\ Covered(q)'
    <3>1. found'[q] = found[q]
      BY <1>4 DEF AddInv, Inv, Typed
    <3>2. QED
      BY <1>1, <1>2, <1>4, <2>1, <3>1, OthersCovered DEF AddInv, LocalsOK, Inv, Typed
  <2>8. QED
    BY <2>2, <2>4, <2>5, <2>6, <2>7 DEF AddInv
<1>5. QED
  BY <1>3, <1>4 DEF FindItem

LEMMA SaveCovered == ASSUME AddInv, Inv', NEW r \in Requests, SaveItem(r) PROVE AddInv'
<1>1. pc[r] = "save" /\ UNCHANGED <<lists, own>>
  BY DEF SaveItem
<1>2. items' = Saved(r) \/ items' = items
  BY DEF SaveItem
<1>3. nextItem' >= nextItem
  BY DEF SaveItem, AddInv, Inv, Typed
<1>4. Evolved
  <2>1. \A i \in Saved(r) :
          \/ \E j \in items : j.id = i.id /\ j.list = i.list /\ j.product = i.product
          \/ i.id = nextItem
    BY <1>1, SavedRows DEF AddInv
  <2>2. QED
    BY <1>2, <1>3, <2>1 DEF Evolved
<1>5. Advance(r)
  BY DEF SaveItem, NextProduct, Advance
<1>6. Head(todo[r]).sku \in Skus
  BY <1>1, TailPending DEF Wants
<1>7. CASE items' = Saved(r) /\ reported' = [reported EXCEPT ![r] = reported[r] \cup {}]
  <2>1. Kept' => {i \in items' : i.list = own[r] /\ i.product = Head(todo[r]).sku} # {}
    BY <1>1, <1>4, <1>7, SavedProduct
  <2>2. {} \in SUBSET Skus /\ pc[r] \in {"find", "save"} /\ UNCHANGED own
    BY <1>1
  <2>3. QED
    BY <1>4, <1>5, <1>7, <2>1, <2>2, NextProductCovered
<1>8. CASE reported' = [reported EXCEPT ![r] = reported[r] \cup {Head(todo[r]).sku}]
  <2>1. /\ {Head(todo[r]).sku} \in SUBSET Skus /\ pc[r] \in {"find", "save"}
        /\ Head(todo[r]).sku \in {Head(todo[r]).sku} /\ UNCHANGED own
    BY <1>1, <1>6
  <2>2. QED
    BY <1>4, <1>5, <1>8, <2>1, NextProductCovered
<1>9. QED
  <2>1. PICK applied \in BOOLEAN, acknowledged \in BOOLEAN :
          /\ acknowledged => applied
          /\ items' = IF applied THEN Saved(r) ELSE items
          /\ reported' = [reported EXCEPT ![r] =
                             IF acknowledged THEN @ ELSE @ \cup {Head(todo[r]).sku}]
    BY DEF SaveItem, NextProduct, Statement
  <2>2. CASE acknowledged
    BY <2>1, <2>2, <1>7
  <2>3. CASE ~acknowledged
    BY <2>1, <2>3, <1>8
  <2>4. QED
    BY <2>2, <2>3

----------------------------------------------------------------------------
LEMMA InitCovered == Init => AddInv
<1>1. SUFFICES ASSUME Init PROVE AddInv
  OBVIOUS
<1>2. LocalsOK
  BY <1>1 DEF Init, LocalsOK
<1>3. ASSUME NEW r \in Requests PROVE AskedOK(r) /\ SkuOK(r) /\ Covered(r)
  BY <1>1 DEF Init, AskedOK, SkuOK, Covered
<1>4. QED
  BY <1>1, <1>2, <1>3, InitInv DEF AddInv

LEMMA NextCovered == AddInv /\ [Next]_vars => AddInv'
<1>1. SUFFICES ASSUME AddInv, [Next]_vars PROVE AddInv'
  OBVIOUS
<1>2. Inv'
  BY <1>1, NextInv DEF AddInv
<1>3. CASE UNCHANGED vars
  BY <1>1, <1>2, <1>3
     DEF vars, AddInv, LocalsOK, AskedOK, SkuOK, Covered, Kept, Pending, RowsOf
<1>4. CASE Next
  <2>1. PICK r \in Requests :
          \/ Admit(r) \/ GetList(r) \/ CreateList(r) \/ CheckOwnership(r)
          \/ FindItem(r) \/ SaveItem(r) \/ RemoveItems(r) \/ CountItems(r)
    BY <1>4 DEF Next
  <2>2. CASE Admit(r) \/ GetList(r) \/ CreateList(r) \/ CheckOwnership(r)
    BY <1>1, <1>2, <2>2, AdmitCovered, GetCovered, CreateCovered, OwnershipCovered
  <2>3. CASE FindItem(r) \/ SaveItem(r) \/ RemoveItems(r) \/ CountItems(r)
    BY <1>1, <1>2, <2>3, FindCovered, SaveCovered, RemoveCovered, CountCovered
  <2>4. QED
    BY <2>1, <2>2, <2>3
<1>5. QED
  BY <1>1, <1>3, <1>4

\* When there are as many items as ids were handed out, no row is missing.
LEMMA AllKept == ASSUME Inv, Cardinality(items) = nextItem - 1 PROVE Kept
<1> DEFINE Ids == 1..(nextItem - 1)
           f   == [i \in items |-> i.id]
<1>1. nextItem \in Nat \ {0} /\ items \subseteq Row
  BY DEF Inv, Typed
<1>2. \A i \in items : i.id \in Ids
  BY <1>1 DEF Inv, IdsOK, Row
<1>3. IsFiniteSet(Ids) /\ Cardinality(Ids) = nextItem - 1
  BY <1>1, FS_Interval
<1>4. f \in Injection(items, Ids)
  BY <1>2 DEF Inv, IdsOK, Injection, IsInjective
<1>5. f \in Surjection(items, Ids)
  <2> HIDE DEF f, Ids
  <2>1. QED
    BY <1>3, <1>4, FS_Injection
<1>6. ASSUME NEW k \in Nat \ {0}, k < nextItem PROVE \E i \in items : i.id = k
  <2>1. k \in Ids
    BY <1>1, <1>6
  <2>2. PICK i \in items : f[i] = k
    BY <1>5, <2>1 DEF Surjection
  <2>3. QED
    BY <2>2
<1>7. QED
  BY <1>6 DEF Kept

LEMMA AnswerStep ==
  ASSUME AddInv, NEW r \in Requests, pc[r] = "count", Cardinality(items) = nextItem - 1
  PROVE  \A sku \in asked[r] : sku \in reported[r] \/ RowsOf(own[r], sku) # {}
<1>1. Kept
  BY AllKept DEF AddInv
<1>2. todo[r] = <<>>
  BY DEF AddInv, AskedOK
<1>3. Pending(r) = {}
  BY <1>2 DEF Pending, ToSet
<1>4. QED
  BY <1>1, <1>3 DEF AddInv, Covered

\* The answer of addProductsToWishlist covers every product asked for, whatever
\* other requests add meanwhile and whichever statements fail or lose their
\* acknowledgement, as long as no item was ever removed.
THEOREM AddedTheorem == Spec => AddedOrReported
<1>1. AddInv /\ [Next]_vars =>
        [\A r \in Requests :
           (pc[r] = "count" /\ result'[r] = "ok" /\ Cardinality(items) = nextItem - 1)
             => \A sku \in asked[r] :
                  sku \in reported[r] \/ RowsOf(own[r], sku) # {}]_vars
  BY AnswerStep
<1>2. QED
  BY <1>1, InitCovered, NextCovered, PTL DEF Spec, AddedOrReported

----------------------------------------------------------------------------
(* The types, of which the last id handed out is the hard part: it stays   *)
(* below the bound because every product still to be added is counted.     *)

\* The products named in the mutations under way, each with its place.
Outstanding == {p \in Requests \X (Nat \ {0}) : p[2] <= Len(todo[p[1]])}

\* What a request still adds was asked for, and what it saves is for sale.
BasketOK(r) ==
  /\ Pending(r) \subseteq asked[r] /\ Len(todo[r]) <= MaxBasket
  /\ pc[r] = "save" => Head(todo[r]).sku \in Products
  /\ pc[r] = "idle" => reported[r] = {}

\* Every product outstanding may still take an id.
IdsLeft ==
  /\ IsFiniteSet(Outstanding)
  /\ nextItem + Cardinality(Outstanding) <= MaxItems + 1

TypeInv == TypeOK /\ (\A r \in Requests : BasketOK(r)) /\ IdsLeft

LEMMA InitTypeInv == Init => TypeInv
<1> SUFFICES ASSUME Init PROVE TypeInv
  OBVIOUS
<1>1. /\ faults \in 0..MaxFaults /\ nextItem \in 1..MaxItems + 1 /\ Len(lists) <= MaxLists
      /\ lists \in Seq(Customers)
  BY BoundAssumption DEF Init
<1>2. TypeOK
  BY <1>1 DEF Init, TypeOK, Labels, None
<1>3. \A r \in Requests : todo[r] = <<>> /\ Len(todo[r]) = 0
  BY DEF Init
<1>4. Outstanding = {}
  BY <1>3 DEF Outstanding
<1>5. IsFiniteSet(Outstanding) /\ Cardinality(Outstanding) = 0
  BY <1>4, FS_EmptySet
<1>6. IdsLeft
  BY <1>1, <1>5 DEF IdsLeft
<1>7. \A r \in Requests : ToSet(todo[r]) = {} /\ pc[r] = "idle" /\ reported[r] = {}
  BY <1>3 DEF ToSet, Init
<1>8. \A r \in Requests : BasketOK(r)
  BY <1>3, <1>7, BoundAssumption DEF BasketOK, Pending
<1>9. QED
  BY <1>2, <1>6, <1>8 DEF TypeInv

LEMMA FaultType ==
  ASSUME faults \in 0..MaxFaults, NEW applied, NEW acknowledged \in BOOLEAN,
         Statement(applied, acknowledged)
  PROVE  faults' \in 0..MaxFaults
BY BoundAssumption DEF Statement

\* Ids are left while products leave the set of the outstanding ones, each of
\* them taking at most one.
LEMMA LeftStep ==
  ASSUME Inv, Inv', IdsLeft,
         \/ nextItem' = nextItem /\ Outstanding' \subseteq Outstanding
         \/ /\ nextItem' \in {nextItem, nextItem + 1}
            /\ \E p \in Outstanding : Outstanding' \subseteq Outstanding \ {p}
  PROVE  IdsLeft'
<1>1. /\ nextItem \in Nat /\ nextItem' \in Nat /\ MaxItems \in Nat
      /\ IsFiniteSet(Outstanding) /\ Cardinality(Outstanding) \in Nat
      /\ nextItem + Cardinality(Outstanding) <= MaxItems + 1
  BY FS_CardinalityType, BoundAssumption DEF Inv, Typed, IdsLeft
<1>2. CASE nextItem' = nextItem /\ Outstanding' \subseteq Outstanding
  <2>1. /\ IsFiniteSet(Outstanding') /\ Cardinality(Outstanding') \in Nat
        /\ Cardinality(Outstanding') <= Cardinality(Outstanding)
    BY <1>1, <1>2, FS_Subset, FS_CardinalityType
  <2>2. QED
    BY <1>1, <1>2, <2>1 DEF IdsLeft
<1>3. ASSUME nextItem' \in {nextItem, nextItem + 1}, NEW p \in Outstanding,
             Outstanding' \subseteq Outstanding \ {p}
      PROVE  IdsLeft'
  <2>1. /\ IsFiniteSet(Outstanding \ {p})
        /\ Cardinality(Outstanding \ {p}) = Cardinality(Outstanding) - 1
    BY <1>1, <1>3, FS_RemoveElement
  <2>2. /\ IsFiniteSet(Outstanding') /\ Cardinality(Outstanding') \in Nat
        /\ Cardinality(Outstanding') <= Cardinality(Outstanding \ {p})
    BY <2>1, <1>3, FS_Subset, FS_CardinalityType
  <2>3. QED
    BY <1>1, <1>3, <2>1, <2>2 DEF IdsLeft
<1>4. QED
  BY <1>2, <1>3

\* The product in front is outstanding, and no longer when it is dealt with.
LEMMA Dealt ==
  ASSUME Inv, NEW r \in Requests, todo[r] # <<>>, todo' = [todo EXCEPT ![r] = Tail(@)]
  PROVE  \E p \in Outstanding : Outstanding' \subseteq Outstanding \ {p}
<1>1. todo[r] \in Seq(Wants) /\ todo \in [Requests -> Seq(Wants)]
  BY DEF Inv, Typed
<1>2. Len(todo[r]) \in Nat \ {0} /\ Len(Tail(todo[r])) = Len(todo[r]) - 1
  BY <1>1
<1>3. <<r, Len(todo[r])>> \in Outstanding
  BY <1>2 DEF Outstanding
<1>4. \A q \in Requests : Len(todo[q]) \in Nat /\ Len(todo'[q]) \in Nat
                          /\ Len(todo'[q]) <= Len(todo[q])
  BY <1>1, <1>2
<1>5. ASSUME NEW p \in Outstanding' PROVE p \in Outstanding \ {<<r, Len(todo[r])>>}
  <2>1. p \in Requests \X (Nat \ {0}) /\ p[2] <= Len(todo'[p[1]])
    BY <1>5 DEF Outstanding
  <2>2. p[1] \in Requests /\ p[2] \in Nat
    BY <2>1
  <2>3. p[2] <= Len(todo[p[1]])
    BY <2>1, <2>2, <1>4
  <2>4. p # <<r, Len(todo[r])>>
    <3>1. SUFFICES ASSUME p[1] = r, p[2] = Len(todo[r]) PROVE FALSE
      BY <2>1
    <3>2. Len(todo'[p[1]]) = Len(todo[r]) - 1
      BY <3>1, <1>1, <1>2
    <3>3. QED
      BY <2>1, <3>1, <3>2, <1>2
  <2>5. QED
    BY <2>1, <2>3, <2>4 DEF Outstanding
<1>6. QED
  BY <1>3, <1>5

Answers == {"none", "ok", "denied", "error"}

\* What a step of r keeps of the types, and of the other requests.
Tidy(r) ==
  /\ op' \in [Requests -> Operations \cup {"none"}] /\ pc' \in [Requests -> Labels]
  /\ who' \in [Requests -> Customers \cup {None}]
  /\ own' \in [Requests -> Lists \cup {None}]
  /\ named' \in [Requests -> Lists \cup {None}]
  /\ found' \in [Requests -> Items \cup {None}]
  /\ result' \in [Requests -> Answers]
  /\ \A q \in Requests \ {r} :
       /\ pc'[q] = pc[q] /\ todo'[q] = todo[q]
       /\ asked'[q] = asked[q] /\ reported'[q] = reported[q]
  /\ asked'[r] \subseteq Skus /\ reported'[r] \subseteq asked'[r]
  /\ BasketOK(r)'

TablesType ==
  /\ lists \in Seq(Customers) /\ Len(lists) <= MaxLists
  /\ items \subseteq [id : Items, list : Lists, product : Products, qty : Nat \ {0}]
  /\ nextItem \in 1..MaxItems + 1 /\ faults \in 0..MaxFaults

LEMMA TidyInv ==
  ASSUME TypeInv, NEW r \in Requests, Tidy(r), TablesType', IdsLeft'
  PROVE  TypeInv'
<1>1. TypeOK'
  BY DEF TypeInv, TypeOK, Tidy, TablesType, Answers
<1>2. ASSUME NEW q \in Requests \ {r} PROVE BasketOK(q)'
  BY DEF TypeInv, BasketOK, Tidy, Pending
<1>3. QED
  BY <1>1, <1>2 DEF TypeInv, Tidy

LEMMA TablesOK == TypeInv => TablesType
BY DEF TypeInv, TypeOK, TablesType

LEMMA SameLeft ==
  ASSUME Inv, Inv', IdsLeft, UNCHANGED <<nextItem, todo>>
  PROVE  IdsLeft'
BY LeftStep DEF Outstanding

\* An answer gives up what was still to be added.
LEMMA ReplyTidy ==
  ASSUME AddInv, Inv', TypeInv, NEW r \in Requests, NEW answer \in Answers,
         Reply(r, answer)
  PROVE  Tidy(r) /\ (UNCHANGED nextItem => IdsLeft')
<1>1. /\ pc'[r] = "idle" /\ todo' = [todo EXCEPT ![r] = <<>>]
      /\ todo'[r] = <<>> /\ asked'[r] = {} /\ reported'[r] = {}
  BY DEF Reply, AddInv, LocalsOK, Inv, Typed
<1>2. \A q \in Requests \ {r} :
        /\ pc'[q] = pc[q] /\ todo'[q] = todo[q]
        /\ asked'[q] = asked[q] /\ reported'[q] = reported[q]
  BY DEF Reply, AddInv, LocalsOK, Inv, Typed
<1>3. BasketOK(r)'
  <2>1. ToSet(todo'[r]) = {} /\ Len(todo'[r]) = 0
    BY <1>1 DEF ToSet
  <2>2. QED
    BY <1>1, <2>1, BoundAssumption DEF BasketOK, Pending
<1>4. Tidy(r)
  BY <1>1, <1>2, <1>3 DEF Tidy, Reply, TypeInv, TypeOK, Labels, Answers, None
<1>5. Outstanding' \subseteq Outstanding
  <2>1. \A q \in Requests \ {r} : todo'[q] = todo[q]
    BY <1>2
  <2>2. \A p \in Outstanding' : p[1] \in Requests /\ p[1] # r
    BY <1>1 DEF Outstanding
  <2>3. QED
    BY <2>1, <2>2 DEF Outstanding
<1>6. UNCHANGED nextItem => IdsLeft'
  BY <1>5, LeftStep DEF AddInv, TypeInv
<1>7. QED
  BY <1>4, <1>6

\* A step that adds and saves nothing: to another label but "save" and "idle".
LEMMA GotoTidy ==
  ASSUME AddInv, Inv', TypeInv, NEW r \in Requests,
         NEW label \in Labels \ {"idle"},
         label = "save" => Head(todo[r]).sku \in Products,
         Goto(r, label), UNCHANGED <<todo, reported>>,
         own' \in [Requests -> Lists \cup {None}],
         found' \in [Requests -> Items \cup {None}]
  PROVE  Tidy(r) /\ (UNCHANGED nextItem => IdsLeft')
<1>1. pc'[r] = label /\ pc' \in [Requests -> Labels]
  BY DEF Goto, TypeInv, TypeOK
<1>2. BasketOK(r)'
  BY <1>1 DEF Goto, BasketOK, Pending, TypeInv
<1>3. Tidy(r)
  BY <1>1, <1>2 DEF Tidy, Goto, TypeInv, TypeOK, Answers
<1>4. UNCHANGED nextItem => IdsLeft'
  BY SameLeft DEF AddInv, TypeInv
<1>5. QED
  BY <1>3, <1>4

LEMMA NextProductTidy ==
  ASSUME AddInv, Inv', TypeInv, NEW r \in Requests, pc[r] \in {"find", "save"},
         NEW failed \in BOOLEAN, NextProduct(r, failed), UNCHANGED own
  PROVE  /\ Tidy(r)
         /\ nextItem' \in {nextItem, nextItem + 1} => IdsLeft'
<1> DEFINE seq == todo[r]
<1>1. /\ seq \in Seq(Wants) /\ seq # <<>> /\ pc \in [Requests -> Labels]
      /\ todo \in [Requests -> Seq(Wants)] /\ Pending(r) \subseteq asked[r]
      /\ Len(seq) <= MaxBasket /\ MaxBasket \in Nat
      /\ reported[r] \subseteq asked[r] /\ asked[r] \subseteq Skus
      /\ reported \in [Requests -> SUBSET Skus]
  BY BoundAssumption DEF AddInv, LocalsOK, Inv, Typed, RequestOK, TodoOK, TypeInv, TypeOK,
     BasketOK
<1>2. /\ Tail(seq) \in Seq(Wants) /\ Len(seq) \in Nat \ {0}
      /\ Len(Tail(seq)) = Len(seq) - 1
      /\ \A k \in 1..Len(Tail(seq)) : Tail(seq)[k] = seq[k + 1]
  BY <1>1
<1>3. /\ todo' = [todo EXCEPT ![r] = Tail(seq)] /\ todo'[r] = Tail(seq)
      /\ reported'[r] = IF failed THEN reported[r] \cup {Head(seq).sku} ELSE reported[r]
      /\ \A q \in Requests \ {r} : reported'[q] = reported[q] /\ todo'[q] = todo[q]
      /\ pc'[r] \in {"count", "find"} /\ UNCHANGED <<op, who, named, asked, result>>
      /\ \A q \in Requests \ {r} : pc'[q] = pc[q]
      /\ pc' \in [Requests -> Labels]
  BY <1>1 DEF NextProduct, Goto, Labels
<1>4. \A k \in 1..Len(seq) : seq[k].sku \in Pending(r)
  BY <1>1 DEF Pending, ToSet
<1>5. Head(seq).sku \in Pending(r)
  BY <1>1, <1>2, <1>4
<1>6. Pending(r)' \subseteq asked[r]
  <2>1. ASSUME NEW want \in ToSet(todo'[r]) PROVE want.sku \in asked[r]
    <3>1. PICK k \in 1..Len(Tail(seq)) : want = Tail(seq)[k]
      <4>1. PICK k \in DOMAIN Tail(seq) : want = Tail(seq)[k]
        BY <2>1, <1>3, Zenon DEF ToSet
      <4>2. DOMAIN Tail(seq) = 1..Len(Tail(seq))
        BY <1>2
      <4>3. QED
        BY <4>1, <4>2
    <3>2. want = seq[k + 1] /\ k + 1 \in 1..Len(seq)
      BY <3>1, <1>2
    <3>3. QED
      BY <3>2, <1>1, <1>4
  <2>2. QED
    BY <2>1 DEF Pending
<1>7. BasketOK(r)'
  BY <1>1, <1>2, <1>3, <1>6 DEF BasketOK
<1>8. Tidy(r)
  BY <1>1, <1>3, <1>5, <1>7 DEF Tidy, NextProduct, TypeInv, TypeOK, Answers, None
<1>9. ASSUME nextItem' \in {nextItem, nextItem + 1} PROVE IdsLeft'
  <2>1. \E p \in Outstanding : Outstanding' \subseteq Outstanding \ {p}
    BY <1>1, <1>3, Dealt DEF AddInv
  <2>2. QED
    BY <1>9, <2>1, LeftStep DEF AddInv, TypeInv
<1>10. QED
  BY <1>8, <1>9

----------------------------------------------------------------------------
\* A basket names at most MaxBasket products.
LEMMA BasketBound ==
  ASSUME NEW b \in Baskets PROVE Len(b) \in Nat /\ Len(b) <= MaxBasket
<1>1. MaxBasket \in Nat
  BY BoundAssumption
<1>2. PICK m \in 0..MaxBasket : b \in [1..m -> Wants]
  BY DEF Baskets, BoundedSeq, SeqOf
<1>3. Len(b) = m
  BY <1>1, <1>2, BasketType, LenProperties
<1>4. QED
  BY <1>1, <1>2, <1>3

\* A mutation is admitted while every request may take a whole basket of ids.
LEMMA AdmitLeft ==
  ASSUME Inv, Inv', IdsLeft, IsFiniteSet(Requests),
         \A r \in Requests : Len(todo'[r]) <= MaxBasket, UNCHANGED nextItem,
         nextItem - 1 + MaxBasket * Cardinality(Requests) <= MaxItems
  PROVE  IdsLeft'
<1>1. /\ MaxBasket \in Nat /\ MaxItems \in Nat /\ nextItem \in Nat
      /\ Cardinality(Requests) \in Nat
  BY BoundAssumption, FS_CardinalityType DEF Inv, Typed
<1> DEFINE all == Requests \X (1..MaxBasket)
<1>2. IsFiniteSet(1..MaxBasket) /\ Cardinality(1..MaxBasket) = MaxBasket
  BY <1>1, FS_Interval
<1>3. IsFiniteSet(all) /\ Cardinality(all) = Cardinality(Requests) * MaxBasket
  BY <1>2, FS_Product
<1>4. \A r \in Requests : Len(todo'[r]) \in Nat
  BY DEF Inv, Typed
<1>5. Outstanding' \subseteq all
  BY <1>1, <1>4 DEF Outstanding
<1> HIDE DEF all
<1>6. /\ IsFiniteSet(Outstanding') /\ Cardinality(Outstanding') \in Nat
      /\ Cardinality(Outstanding') <= Cardinality(all)
  BY <1>3, <1>5, FS_Subset, FS_CardinalityType
<1>7. Cardinality(Requests) * MaxBasket = MaxBasket * Cardinality(Requests)
  BY <1>1
<1>8. MaxBasket * Cardinality(Requests) \in Nat
  BY <1>1
<1>9. QED
  BY <1>1, <1>3, <1>6, <1>7, <1>8 DEF IdsLeft

LEMMA AdmitTyped ==
  ASSUME AddInv, Inv', TypeInv, IsFiniteSet(Requests), NEW r \in Requests, Admit(r)
  PROVE  TypeInv'
<1>1. PICK o \in Operations, c \in Customers, l \in Lists, basket \in Baskets :
        /\ pc[r] = "idle"
        /\ o = "AddProductsToWishlist" <=> basket # <<>>
        /\ o = "AddProductsToWishlist" =>
             nextItem - 1 + MaxBasket * Cardinality(Requests) <= MaxItems
        /\ op' = [op EXCEPT ![r] = o] /\ who' = [who EXCEPT ![r] = c]
        /\ named' = [named EXCEPT ![r] = l]
        /\ todo' = [todo EXCEPT ![r] = basket]
        /\ asked' = [asked EXCEPT ![r] = {want.sku : want \in ToSet(basket)}]
        /\ pc' = [pc EXCEPT ![r] = "get"]
        /\ result' = [result EXCEPT ![r] = "none"]
        /\ UNCHANGED <<tables, faults, own, found, reported>>
  BY Zenon DEF Admit
<1>2. basket \in Seq(Wants) /\ Len(basket) \in Nat /\ Len(basket) <= MaxBasket
  BY BasketType, BasketBound
<1>3. /\ todo'[r] = basket /\ pc'[r] = "get" /\ reported'[r] = {}
      /\ asked'[r] = {want.sku : want \in ToSet(basket)}
      /\ \A q \in Requests \ {r} :
           /\ pc'[q] = pc[q] /\ todo'[q] = todo[q]
           /\ asked'[q] = asked[q] /\ reported'[q] = reported[q]
  BY <1>1 DEF AddInv, LocalsOK, Inv, Typed, TypeInv, BasketOK
<1>4. asked'[r] \subseteq Skus
  <2>1. ASSUME NEW want \in ToSet(basket) PROVE want.sku \in Skus
    <3>1. PICK k \in DOMAIN basket : want = basket[k]
      BY Zenon DEF ToSet
    <3>2. basket[k] \in Wants
      BY <1>2
    <3>3. QED
      BY <3>1, <3>2 DEF Wants
  <2>2. QED
    BY <1>3, <2>1
<1>5. BasketOK(r)'
  BY <1>2, <1>3 DEF BasketOK, Pending
<1>6. Tidy(r)
  BY <1>1, <1>3, <1>4, <1>5 DEF Tidy, TypeInv, TypeOK, Labels, Answers
<1>7. IdsLeft'
  <2>1. CASE o = "AddProductsToWishlist"
    <3>1. \A q \in Requests : Len(todo'[q]) <= MaxBasket
      BY <1>2, <1>3 DEF TypeInv, BasketOK
    <3>2. UNCHANGED nextItem
      BY <1>1 DEF tables
    <3>3. QED
      BY <1>1, <2>1, <3>1, <3>2, AdmitLeft DEF AddInv, TypeInv
  <2>2. CASE o # "AddProductsToWishlist"
    <3>1. todo'[r] = <<>> /\ Len(todo'[r]) = 0 /\ UNCHANGED nextItem
      BY <1>1, <1>3, <2>2 DEF tables
    <3>2. \A p \in Outstanding' : p[1] \in Requests /\ p[1] # r
      BY <3>1 DEF Outstanding
    <3>3. Outstanding' \subseteq Outstanding
      BY <3>2, <1>3 DEF Outstanding
    <3>4. QED
      BY <3>1, <3>3, LeftStep DEF AddInv, TypeInv
  <2>3. QED
    BY <2>1, <2>2
<1>8. TablesType'
  BY <1>1, TablesOK DEF TablesType, tables
<1>9. QED
  BY <1>6, <1>7, <1>8, TidyInv

LEMMA GetListTyped ==
  ASSUME AddInv, Inv', TypeInv, NEW r \in Requests, GetList(r) PROVE TypeInv'
<1>1. /\ pc[r] = "get" /\ UNCHANGED tables
      /\ \E ok \in BOOLEAN : Statement(ok, ok)
  BY DEF GetList
<1>2. TablesType'
  BY <1>1, FaultType, TablesOK DEF tables, TablesType
<1>3. UNCHANGED nextItem
  BY <1>1 DEF tables
<1>4. CASE Reply(r, "error")
  BY <1>2, <1>3, <1>4, ReplyTidy, TidyInv DEF Answers
<1>5. CASE /\ \/ Goto(r, "own") /\ \E l \in ListsOf(who[r]) : own' = [own EXCEPT ![r] = l]
              \/ Goto(r, "create") /\ UNCHANGED own
           /\ UNCHANGED <<todo, found, reported>>
  <2>1. /\ own' \in [Requests -> Lists \cup {None}]
        /\ found' \in [Requests -> Items \cup {None}]
    <3>1. ListsOf(who[r]) \subseteq Lists
      BY BoundAssumption DEF ListsOf, Lists, TypeInv, TypeOK
    <3>2. QED
      BY <1>5, <3>1 DEF TypeInv, TypeOK
  <2>2. QED
    BY <1>2, <1>3, <1>5, <2>1, GotoTidy, TidyInv DEF Labels
<1>6. QED
  BY <1>4, <1>5 DEF GetList, work

LEMMA CreateListTyped ==
  ASSUME AddInv, Inv', TypeInv, NEW r \in Requests, CreateList(r) PROVE TypeInv'
<1>1. pc[r] = "create" /\ UNCHANGED <<items, nextItem>> /\ who[r] \in Customers
  BY DEF CreateList, AddInv, Inv, RequestOK, OwnOK
<1>2. CASE Reply(r, "error") /\ UNCHANGED <<lists, faults>>
  <2>1. TablesType'
    BY <1>1, <1>2, TablesOK DEF TablesType
  <2>2. QED
    BY <1>1, <1>2, <2>1, ReplyTidy, TidyInv DEF Answers
<1>3. ASSUME Len(lists) < MaxLists, NEW applied \in BOOLEAN, NEW acknowledged \in BOOLEAN,
             Statement(applied, acknowledged),
             lists' = IF applied THEN Append(lists, who[r]) ELSE lists,
             \/ Reply(r, "error")
             \/ /\ acknowledged /\ own' = [own EXCEPT ![r] = Len(lists')]
                /\ Goto(r, "own") /\ UNCHANGED <<todo, found, reported>>
      PROVE  TypeInv'
  <2>1. lists \in Seq(Customers) /\ MaxLists \in Nat
    BY BoundAssumption DEF TypeInv, TypeOK
  <2>2. /\ lists' \in Seq(Customers) /\ Len(lists') \in Nat /\ Len(lists') <= MaxLists
        /\ applied => Len(lists') \in Lists
    BY <1>1, <1>3, <2>1 DEF Lists
  <2>3. TablesType'
    BY <1>1, <1>3, <2>2, FaultType, TablesOK DEF TablesType
  <2>4. CASE Reply(r, "error")
    BY <1>1, <2>3, <2>4, ReplyTidy, TidyInv DEF Answers
  <2>5. CASE /\ acknowledged /\ own' = [own EXCEPT ![r] = Len(lists')]
             /\ Goto(r, "own") /\ UNCHANGED <<todo, found, reported>>
    <3>1. Len(lists') \in Lists
      BY <1>3, <2>2, <2>5 DEF Statement
    <3>2. /\ own' \in [Requests -> Lists \cup {None}]
          /\ found' \in [Requests -> Items \cup {None}]
      BY <2>5, <3>1 DEF TypeInv, TypeOK
    <3>3. QED
      BY <1>1, <2>3, <2>5, <3>2, GotoTidy, TidyInv DEF Labels
  <2>6. QED
    BY <1>3, <2>4, <2>5
<1>4. QED
  BY <1>2, <1>3 DEF CreateList

LEMMA OwnershipTyped ==
  ASSUME AddInv, Inv', TypeInv, NEW r \in Requests, CheckOwnership(r) PROVE TypeInv'
<1>1. pc[r] = "own" /\ UNCHANGED <<tables, faults>>
  BY DEF CheckOwnership
<1>2. TablesType' /\ UNCHANGED nextItem
  BY <1>1, TablesOK DEF tables, TablesType
<1>3. CASE Reply(r, "denied")
  BY <1>2, <1>3, ReplyTidy, TidyInv DEF Answers
<1>4. CASE ~Reply(r, "denied")
  <2>1. op[r] \in {"Wishlist", "AddProductsToWishlist", "RemoveProductsFromWishlist"}
    BY <1>1, OperationsAssumption DEF AddInv, Inv, RequestOK, OwnOK, WishlistOperations
  <2>2. /\ Goto(r, "count") \/ Goto(r, "find") \/ Goto(r, "remove")
        /\ UNCHANGED <<own, todo, found, reported>>
    BY <1>4, <2>1 DEF CheckOwnership, work
  <2>3. /\ own' \in [Requests -> Lists \cup {None}]
        /\ found' \in [Requests -> Items \cup {None}]
    BY <2>2 DEF TypeInv, TypeOK
  <2>4. QED
    BY <1>2, <2>2, <2>3, GotoTidy, TidyInv DEF Labels
<1>5. QED
  BY <1>3, <1>4

LEMMA FindTyped ==
  ASSUME AddInv, Inv', TypeInv, NEW r \in Requests, FindItem(r) PROVE TypeInv'
<1>1. /\ pc[r] = "find" /\ UNCHANGED <<tables, own>>
      /\ \E ok \in BOOLEAN : Statement(ok, ok)
  BY DEF FindItem
<1>2. TablesType' /\ UNCHANGED nextItem
  BY <1>1, FaultType, TablesOK DEF tables, TablesType
<1>3. CASE NextProduct(r, TRUE)
  BY <1>1, <1>2, <1>3, NextProductTidy, TidyInv
<1>4. CASE /\ Head(todo[r]).sku \notin UnknownSkus /\ Goto(r, "save")
           /\ \/ UNCHANGED found
              \/ \E i \in items : found' = [found EXCEPT ![r] = i.id]
           /\ UNCHANGED <<todo, reported>>
  <2>1. Head(todo[r]).sku \in Products
    <3>1. todo[r] \in Seq(Wants) /\ todo[r] # <<>>
      BY <1>1 DEF AddInv, Inv, Typed, RequestOK, TodoOK
    <3>2. Head(todo[r]) \in Wants
      BY <3>1
    <3>3. QED
      BY <1>4, <3>2 DEF Wants, Skus
  <2>2. /\ own' \in [Requests -> Lists \cup {None}]
        /\ found' \in [Requests -> Items \cup {None}]
    BY <1>1, <1>4 DEF TypeInv, TypeOK
  <2>3. QED
    BY <1>2, <1>4, <2>1, <2>2, GotoTidy, TidyInv DEF Labels
<1>5. QED
  BY <1>3, <1>4 DEF FindItem, RowsOf

LEMMA SaveTyped ==
  ASSUME AddInv, Inv', TypeInv, NEW r \in Requests, SaveItem(r) PROVE TypeInv'
<1>1. PICK applied \in BOOLEAN, acknowledged \in BOOLEAN :
        /\ Statement(applied, acknowledged)
        /\ items' = IF applied THEN Saved(r) ELSE items
        /\ nextItem' = IF applied /\ found[r] = None THEN nextItem + 1 ELSE nextItem
        /\ NextProduct(r, ~acknowledged)
  BY DEF SaveItem
<1>2. pc[r] = "save" /\ UNCHANGED <<lists, own>>
  BY DEF SaveItem
<1>3. nextItem' \in {nextItem, nextItem + 1}
  BY <1>1
<1>4. (~acknowledged) \in BOOLEAN
  BY Zenon
<1>5. Tidy(r) /\ IdsLeft'
  BY <1>1, <1>2, <1>3, <1>4, NextProductTidy
<1>6. /\ MaxItems \in Nat /\ nextItem' \in Nat \ {0} /\ nextItem \in Nat \ {0}
      /\ Cardinality(Outstanding') \in Nat
      /\ nextItem' + Cardinality(Outstanding') <= MaxItems + 1
  BY <1>5, BoundAssumption, FS_CardinalityType DEF IdsLeft, AddInv, Inv, Typed
<1>7. nextItem' \in 1..MaxItems + 1
  BY <1>6
<1>8. items' \subseteq [id : Items, list : Lists, product : Products, qty : Nat \ {0}]
  <2> DEFINE want == Head(todo[r])
             qty  == Corrected(want.qty)
  <2>1. todo[r] \in Seq(Wants) /\ todo[r] # <<>>
    BY <1>2 DEF AddInv, Inv, Typed, RequestOK, TodoOK
  <2>2. want.qty \in Int /\ want.sku \in Products
    <3>1. want \in Wants
      BY <2>1, HeadTailProperties
    <3>2. BasketOK(r)
      BY DEF TypeInv
    <3>3. want.sku \in Products
      BY <1>2, <3>2 DEF BasketOK
    <3>4. QED
      BY <3>1, <3>3, QuantityAssumption DEF Wants
  <2> HIDE DEF want
  <2>3. qty \in Nat \ {0}
    BY <2>2 DEF Corrected
  <2>4. own[r] \in Lists
    BY <1>2, BoundAssumption
    DEF AddInv, Inv, RequestOK, OwnOK, Lists, TypeInv, TypeOK
  <2> HIDE DEF qty
  <2>5. items \subseteq [id : Items, list : Lists, product : Products, qty : Nat \ {0}]
    BY DEF TypeInv, TypeOK
  <2>6. CASE applied /\ found[r] = None
    <3>1. nextItem \in Items
      BY <1>1, <1>6, <2>6 DEF Items
    <3>2. items' = items \cup {[id |-> nextItem, list |-> own[r], product |-> want.sku,
                                qty |-> qty]}
      BY <1>1, <2>6 DEF Saved, want, qty
    <3>3. QED
      BY <2>2, <2>3, <2>4, <2>5, <3>1, <3>2
  <2>7. CASE applied /\ found[r] # None
    <3>1. items' = {IF i.id = found[r] THEN [i EXCEPT !.qty = qty] ELSE i : i \in items}
      BY <1>1, <2>7 DEF Saved, want, qty
    <3>2. QED
      BY <2>3, <2>5, <3>1
  <2>8. CASE ~applied
    BY <1>1, <2>5, <2>8
  <2>9. QED
    BY <2>6, <2>7, <2>8
<1>9. TablesType'
  BY <1>1, <1>2, <1>7, <1>8, FaultType, TablesOK DEF TablesType
<1>10. QED
  BY <1>5, <1>9, TidyInv

LEMMA RemoveTyped ==
  ASSUME AddInv, Inv', TypeInv, NEW r \in Requests, RemoveItems(r) PROVE TypeInv'
<1>1. /\ pc[r] = "remove" /\ UNCHANGED <<lists, nextItem>> /\ items' \subseteq items
      /\ \E applied, acknowledged \in BOOLEAN : Statement(applied, acknowledged)
  BY DEF RemoveItems
<1>2. TablesType'
  BY <1>1, FaultType, TablesOK DEF TablesType
<1>3. CASE Reply(r, "error")
  BY <1>1, <1>2, <1>3, ReplyTidy, TidyInv DEF Answers
<1>4. CASE Goto(r, "count") /\ UNCHANGED <<own, todo, found, reported>>
  <2>1. /\ own' \in [Requests -> Lists \cup {None}]
        /\ found' \in [Requests -> Items \cup {None}]
    BY <1>4 DEF TypeInv, TypeOK
  <2>2. QED
    BY <1>1, <1>2, <1>4, <2>1, GotoTidy, TidyInv DEF Labels
<1>5. QED
  BY <1>3, <1>4 DEF RemoveItems

LEMMA CountTyped ==
  ASSUME AddInv, Inv', TypeInv, NEW r \in Requests, CountItems(r) PROVE TypeInv'
<1>1. PICK ok \in BOOLEAN : Statement(ok, ok) /\ Reply(r, IF ok THEN "ok" ELSE "error")
  BY DEF CountItems
<1>2. UNCHANGED tables
  BY DEF CountItems
<1>3. TablesType' /\ UNCHANGED nextItem
  BY <1>1, <1>2, FaultType, TablesOK DEF tables, TablesType
<1>4. Reply(r, "ok") \/ Reply(r, "error")
  BY <1>1
<1>5. QED
  BY <1>3, <1>4, ReplyTidy, TidyInv DEF Answers

LEMMA NextTypeInv ==
  ASSUME IsFiniteSet(Requests) PROVE AddInv /\ Inv' /\ TypeInv /\ [Next]_vars => TypeInv'
<1>1. ASSUME TypeInv, UNCHANGED vars PROVE TypeInv'
  BY <1>1 DEF vars, TypeInv, TypeOK, BasketOK, Pending, IdsLeft, Outstanding
<1>2. QED
  BY <1>1, AdmitTyped, GetListTyped, CreateListTyped, OwnershipTyped, FindTyped,
     SaveTyped, RemoveTyped, CountTyped DEF Next

\* The variables keep their types, with ids of items below the bound and every
\* stored quantity above zero (wishlist.go:177), and nothing is reported that was
\* not asked for, when finitely many requests are handled at the same time.
THEOREM TypeCorrect == IsFiniteSet(Requests) => (Spec => []TypeOK)
<1> SUFFICES ASSUME IsFiniteSet(Requests) PROVE Spec => []TypeOK
  OBVIOUS
<1>1. Init => TypeInv
  BY InitTypeInv
<1>2. AddInv /\ Inv' /\ TypeInv /\ [Next]_vars => TypeInv'
  BY NextTypeInv
<1>3. TypeInv => TypeOK
  BY DEF TypeInv
<1>4. AddInv => Inv
  BY DEF AddInv
<1>5. QED
  BY <1>1, <1>2, <1>3, <1>4, InitCovered, NextCovered, PTL DEF Spec
=============================================================================
