------------------------------ MODULE Wishlist ------------------------------
(***************************************************************************)
(* The wishlists of the customers: GetOrCreate, AddItem and RemoveItems of *)
(* internal/repository/wishlist.go, driven by the resolvers of             *)
(* graph/schema.resolvers.go.                                              *)
(*                                                                         *)
(* A request is a goroutine and each statement is autocommitted.  Both     *)
(* GetOrCreate and AddItem look a row up in one statement and insert it in *)
(* the next one.  Left out: updated_at and added_at, which nothing here    *)
(* reads, and the catalogue changing under a request.                      *)
(***************************************************************************)
EXTENDS Integers, FiniteSets, Sequences, SequencesExt

CONSTANTS
  Requests,        \* requests the server handles at the same time
  Customers,       \* customers with a session
  Operations,      \* what the clients of this instance ask for
  Products,        \* SKUs of the catalogue
  UnknownSkus,     \* SKUs clients name that are not in it
  Quantities,      \* quantities clients name
  UniqueOwner,     \* has table wishlist a unique key on customer_id?
  MaxBasket,       \* bound: products named in one mutation
  MaxLists,        \* bound: wishlists ever inserted
  MaxItems,        \* bound: items ever inserted
  MaxFaults        \* bound: statements that return an error

WishlistOperations ==
  {"Wishlist", "AddProductsToWishlist", "RemoveProductsFromWishlist"}
Lists == 1..MaxLists
Items == 1..MaxItems
None  == 0

ASSUME OperationsAssumption == Operations \subseteq WishlistOperations
ASSUME SkuAssumption == Products \cap UnknownSkus = {}
ASSUME QuantityAssumption == Quantities \subseteq Int
ASSUME UniqueOwnerAssumption == UniqueOwner \in BOOLEAN
ASSUME BoundAssumption ==
  /\ MaxBasket \in Nat /\ MaxLists \in Nat
  /\ MaxItems \in Nat /\ MaxFaults \in Nat

VARIABLES
  lists,      \* rows of wishlist: the owners, in the order of the ids
  items,      \* rows of wishlist_item
  nextItem,   \* AUTO_INCREMENT of wishlist_item
  faults,     \* statements that have returned an error
  op, pc,     \* what each request executes, and its next step
  who,        \* the customer of its session
  own,        \* the wishlist GetOrCreate returned to it
  named,      \* the wishlist the client named
  todo,       \* what it has still to add
  unwanted,   \* the item ids it is to remove
  found,      \* the item AddItem found, None when it has to insert one
  asked,      \* SKUs a request asked for
  reported,   \* SKUs it has an entry of user_errors for (which names none)
  result      \* what it answered

tables == <<lists, items, nextItem>>
locals == <<op, pc, who, own, named, todo, unwanted, found,
            asked, reported, result>>
vars   == <<lists, items, nextItem, faults, op, pc, who, own, named, todo,
            unwanted, found, asked, reported, result>>

Skus  == Products \cup UnknownSkus
Wants == [sku : Skus, qty : Quantities]
Baskets == BoundedSeq(Wants, MaxBasket)

Labels == {"idle", "get", "create", "own", "find", "save", "remove", "count"}

Init ==
  /\ lists = <<>> /\ items = {} /\ nextItem = 1 /\ faults = 0
  /\ op = [r \in Requests |-> "none"] /\ pc = [r \in Requests |-> "idle"]
  /\ who = [r \in Requests |-> None] /\ own = [r \in Requests |-> None]
  /\ named = [r \in Requests |-> None] /\ todo = [r \in Requests |-> <<>>]
  /\ unwanted = [r \in Requests |-> {}] /\ found = [r \in Requests |-> None]
  /\ asked = [r \in Requests |-> {}] /\ reported = [r \in Requests |-> {}]
  /\ result = [r \in Requests |-> "none"]

----------------------------------------------------------------------------
\* A statement is applied and reported so; or it fails; or it is applied and
\* the connection breaks before the answer arrives.
Statement(applied, acknowledged) ==
  /\ acknowledged => applied
  /\ acknowledged \/ faults < MaxFaults
  /\ faults' = IF acknowledged THEN faults ELSE faults + 1

ListsOf(c) == {l \in DOMAIN lists : lists[l] = c}

\* What a handler changes as it goes on; the rest of its locals is settled
\* when it is admitted.
work == <<own, todo, unwanted, found, reported>>

Goto(r, label) ==
  /\ pc' = [pc EXCEPT ![r] = label]
  /\ UNCHANGED <<op, who, named, asked, result>>

Reply(r, answer) ==
  /\ pc' = [pc EXCEPT ![r] = "idle"]
  /\ result' = [result EXCEPT ![r] = answer]
  /\ op' = [op EXCEPT ![r] = "none"] /\ who' = [who EXCEPT ![r] = None]
  /\ own' = [own EXCEPT ![r] = None] /\ named' = [named EXCEPT ![r] = None]
  /\ todo' = [todo EXCEPT ![r] = <<>>]
  /\ found' = [found EXCEPT ![r] = None]
  /\ unwanted' = [unwanted EXCEPT ![r] = {}]
  /\ asked' = [asked EXCEPT ![r] = {}]
  /\ reported' = [reported EXCEPT ![r] = {}]

\* A session of a customer, the wishlist id the client names, what it adds and
\* the ids it removes.  Item ids that do not parse are reported and dropped
\* before the statement, so the ids handed out stand for all others.
Admit(r) ==
  \E o \in Operations, c \in Customers, l \in Lists,
     basket \in Baskets, ids \in SUBSET (1..nextItem - 1) :
    /\ pc[r] = "idle"
    /\ o = "Wishlist" => l = 1
    /\ o = "RemoveProductsFromWishlist" \/ ids = {}
    /\ o = "AddProductsToWishlist" <=> basket # <<>>
    /\ o = "AddProductsToWishlist" =>
         nextItem - 1 + MaxBasket * Cardinality(Requests) <= MaxItems
    /\ op' = [op EXCEPT ![r] = o] /\ who' = [who EXCEPT ![r] = c]
    /\ named' = [named EXCEPT ![r] = l]
    /\ todo' = [todo EXCEPT ![r] = basket]
    /\ unwanted' = [unwanted EXCEPT ![r] = ids]
    /\ asked' = [asked EXCEPT ![r] = {want.sku : want \in ToSet(basket)}]
    /\ pc' = [pc EXCEPT ![r] = "get"]
    /\ result' = [result EXCEPT ![r] = "none"]
    /\ UNCHANGED <<tables, faults, own, found, reported>>

\* GetOrCreate: SELECT ... WHERE customer_id = ?, any row when there are two.
GetList(r) ==
  /\ pc[r] = "get"
  /\ \E ok \in BOOLEAN :
       /\ Statement(ok, ok)
       /\ \/ /\ ok /\ \E l \in ListsOf(who[r]) : own' = [own EXCEPT ![r] = l]
             /\ Goto(r, "own") /\ UNCHANGED <<todo, unwanted, found, reported>>
          \/ /\ ok /\ ListsOf(who[r]) = {}
             /\ Goto(r, "create") /\ UNCHANGED work
          \/ ~ok /\ Reply(r, "error")
  /\ UNCHANGED tables

\* GetOrCreate: the INSERT.  A unique key makes it fail when another request
\* has inserted the customer's wishlist meanwhile.
CreateList(r) ==
  /\ pc[r] = "create"
  /\ LET taken == UniqueOwner /\ ListsOf(who[r]) # {} IN
     \/ /\ taken /\ Reply(r, "error") /\ UNCHANGED <<lists, faults>>
     \/ /\ ~taken /\ Len(lists) < MaxLists
        /\ \E applied, acknowledged \in BOOLEAN :
             /\ Statement(applied, acknowledged)
             /\ lists' = IF applied THEN Append(lists, who[r]) ELSE lists
             /\ IF acknowledged
                THEN /\ own' = [own EXCEPT ![r] = Len(lists')]
                     /\ Goto(r, "own")
                     /\ UNCHANGED <<todo, unwanted, found, reported>>
                ELSE Reply(r, "error")
  /\ UNCHANGED <<items, nextItem>>

\* The mutations compare the id the client named with the one of its session.
CheckOwnership(r) ==
  /\ pc[r] = "own"
  /\ IF op[r] # "Wishlist" /\ named[r] # own[r] THEN Reply(r, "denied")
     ELSE /\ Goto(r, CASE op[r] = "Wishlist" -> "count"
                       [] op[r] = "AddProductsToWishlist" -> "find"
                       [] op[r] = "RemoveProductsFromWishlist" -> "remove")
          /\ UNCHANGED work
  /\ UNCHANGED <<tables, faults>>

\* The next product of the mutation, or the answer after the last one.
NextProduct(r, failed) ==
  /\ reported' = [reported EXCEPT ![r] =
                    IF failed THEN @ \cup {Head(todo[r]).sku} ELSE @]
  /\ todo' = [todo EXCEPT ![r] = Tail(@)]
  /\ found' = [found EXCEPT ![r] = None]
  /\ Goto(r, IF Len(todo[r]) = 1 THEN "count" ELSE "find")

RowsOf(l, sku) == {i \in items : i.list = l /\ i.product = sku}

\* AddItem: the product looked up by SKU (the catalogue does not change, so
\* this SELECT is merged with the next), then the item of that product.
FindItem(r) ==
  /\ pc[r] = "find"
  /\ \E ok \in BOOLEAN :
       /\ Statement(ok, ok)
       /\ IF ~ok \/ Head(todo[r]).sku \in UnknownSkus
          THEN NextProduct(r, TRUE)
          ELSE /\ LET rows == RowsOf(own[r], Head(todo[r]).sku) IN
                  \/ rows = {} /\ UNCHANGED found
                  \/ \E i \in rows : found' = [found EXCEPT ![r] = i.id]
               /\ Goto(r, "save") /\ UNCHANGED <<todo, reported>>
  /\ UNCHANGED <<tables, own, unwanted>>

\* Mutant: the quantity is stored as the client sent it.
AsSent(qty) == qty

\* The quantity as the resolver corrects it.
Corrected(qty) == IF qty <= 0 THEN 1 ELSE qty

\* AddItem: the UPDATE of the row found, which may be gone, or the INSERT.
Saved(r) ==
  LET want == Head(todo[r])  qty == Corrected(want.qty) IN
  IF found[r] # None
  THEN {IF i.id = found[r] THEN [i EXCEPT !.qty = qty] ELSE i : i \in items}
  ELSE items \cup {[id |-> nextItem, list |-> own[r], product |-> want.sku,
                    qty |-> qty]}

\* Mutant: the error of the statement that saves the item is dropped.
SaveItemSilently(r) ==
  /\ pc[r] = "save"
  /\ \E applied, acknowledged \in BOOLEAN :
       /\ Statement(applied, acknowledged)
       /\ items' = IF applied THEN Saved(r) ELSE items
       /\ nextItem' = IF applied /\ found[r] = None THEN nextItem + 1
                      ELSE nextItem
       /\ NextProduct(r, FALSE)
  /\ UNCHANGED <<lists, own, unwanted>>

SaveItem(r) ==
  /\ pc[r] = "save"
  /\ \E applied, acknowledged \in BOOLEAN :
       /\ Statement(applied, acknowledged)
       /\ items' = IF applied THEN Saved(r) ELSE items
       /\ nextItem' = IF applied /\ found[r] = None THEN nextItem + 1
                      ELSE nextItem
       /\ NextProduct(r, ~acknowledged)
  /\ UNCHANGED <<lists, own, unwanted>>

\* Mutant: rows are deleted by their ids alone.
DoomedById(r) == {i \in items : i.id \in unwanted[r]}

\* DELETE ... WHERE wishlist_id = ? AND wishlist_item_id IN (...)
Doomed(r) == {i \in items : i.list = own[r] /\ i.id \in unwanted[r]}

\* RemoveItems; no statement is run when no id is left.
RemoveItems(r) ==
  /\ pc[r] = "remove"
  /\ \E applied, acknowledged \in BOOLEAN :
       /\ unwanted[r] = {} => applied /\ acknowledged
       /\ Statement(applied, acknowledged)
       /\ items' = IF applied THEN items \ Doomed(r) ELSE items
       /\ IF acknowledged
          THEN /\ unwanted' = [unwanted EXCEPT ![r] = {}]
               /\ Goto(r, "count") /\ UNCHANGED <<own, todo, found, reported>>
          ELSE Reply(r, "error")
  /\ UNCHANGED <<lists, nextItem>>

\* CountItems for the answer.
CountItems(r) ==
  /\ pc[r] = "count"
  /\ \E ok \in BOOLEAN :
       Statement(ok, ok) /\ Reply(r, IF ok THEN "ok" ELSE "error")
  /\ UNCHANGED tables

Next ==
  \E r \in Requests :
    \/ Admit(r) \/ GetList(r) \/ CreateList(r) \/ CheckOwnership(r)
    \/ FindItem(r) \/ SaveItem(r) \/ RemoveItems(r) \/ CountItems(r)

Spec == Init /\ [][Next]_vars
----------------------------------------------------------------------------
(* Correctness.                                                            *)

\* The variables keep their types, every quantity stored is above zero, and only
\* SKUs asked for are reported.
TypeOK ==
  /\ lists \in Seq(Customers) /\ Len(lists) <= MaxLists
  /\ items \subseteq [id : Items, list : Lists, product : Products,
                      qty : Nat \ {0}]
  /\ nextItem \in 1..MaxItems + 1 /\ faults \in 0..MaxFaults
  /\ op \in [Requests -> Operations \cup {"none"}]
  /\ pc \in [Requests -> Labels]
  /\ who \in [Requests -> Customers \cup {None}]
  /\ own \in [Requests -> Lists \cup {None}]
  /\ named \in [Requests -> Lists \cup {None}]
  /\ found \in [Requests -> Items \cup {None}]
  /\ \A r \in Requests : asked[r] \subseteq Skus /\ reported[r] \subseteq asked[r]
  /\ result \in [Requests -> {"none", "ok", "denied", "error"}]

\* The items of a wishlist change only in a request of its owner, whatever
\* wishlist and item ids clients name: CheckOwnership looks at the wishlist
\* once, before all statements, and item ids are only checked by the DELETE.
OnlyOwnerChanges ==
  [][\A l \in Lists :
       {i \in items' : i.list = l} # {i \in items : i.list = l}
         => \E r \in Requests :
              /\ \/ pc[r] = "save" /\ todo'[r] # todo[r]
                 \/ pc[r] = "remove" /\ pc'[r] # "remove"
              /\ who[r] = lists[l]]_vars

\* What addProductsToWishlist answers covers everything it was asked: each
\* product is in the wishlist or reported in user_errors, although an earlier
\* product failed or a statement's answer was lost.  (As long as no item was
\* ever removed: every id handed out still has its row.)
AddedOrReported ==
  [][\A r \in Requests :
       (pc[r] = "count" /\ result'[r] = "ok" /\ Cardinality(items) = nextItem - 1)
         => \A sku \in asked[r] :
              sku \in reported[r] \/ RowsOf(own[r], sku) # {}]_vars
=============================================================================
