----------------------------- MODULE Newsletter -----------------------------
(***************************************************************************)
(* The newsletter rows of internal/repository/newsletter.go, written by    *)
(* UpdateCustomer and CreateCustomer of internal/service/customer.go while *)
(* accounts change their address or are deleted.                           *)
(*                                                                         *)
(* A row carries the address its customer had in the statement before.     *)
(* Subscribe inserts, or subscribes the row a unique key makes it collide  *)
(* with; whether newsletter_subscriber has one on (subscriber_email,       *)
(* store_id) is not visible here, so it has or has not.                    *)
(* Profile columns are left out, as nothing here reads them; whether an    *)
(* address is free is CustomerRegistry's matter.                           *)
(***************************************************************************)
EXTENDS Integers, FiniteSets, Sequences

CONSTANTS
  Requests,        \* requests the server handles at the same time
  Emails,          \* addresses of the customers
  Stores,          \* stores of the installation
  UniqueKeys,      \* may newsletter_subscriber have the unique key?
  MaxAccounts,     \* bound: customers ever inserted
  MaxSubscribers,  \* bound: newsletter rows ever inserted
  MaxFaults        \* bound: statements that return an error

None == 0
NoEmail == "none"
NoStore == "none"

ASSUME KeyAssumption == UniqueKeys \subseteq BOOLEAN
ASSUME BoundAssumption ==
  MaxAccounts \in Nat /\ MaxSubscribers \in Nat /\ MaxFaults \in Nat

VARIABLES
  uniqueKey,   \* has newsletter_subscriber the unique key?
  address,     \* the address of every customer ever inserted, NoEmail if gone
  subscribers, \* rows of newsletter_subscriber, by subscriber_id
  faults,      \* statements that have returned an error
  pc,          \* the next step of each request
  who,         \* the customer it is about
  store,       \* the store it came in through
  email,       \* the address it was given or has read
  wish,        \* what it shall do about the newsletter
  had          \* history: every customer with every address it has had

vars == <<uniqueKey, address, subscribers, faults, pc, who, store, email, wish,
          had>>

Subscriber == [owner : 1..MaxAccounts, store : Stores, email : Emails,
               subscribed : BOOLEAN]
Wishes == {"keep", "subscribe", "unsubscribe"}
Labels == {"idle", "insert", "columns", "address", "subscribe", "unsubscribe",
           "readback"}

Init ==
  /\ uniqueKey \in UniqueKeys /\ address = <<>> /\ subscribers = <<>>
  /\ faults = 0 /\ had = {} /\ pc = [r \in Requests |-> "idle"]
  /\ who = [r \in Requests |-> None] /\ store = [r \in Requests |-> NoStore]
  /\ email = [r \in Requests |-> NoEmail]
  /\ wish = [r \in Requests |-> "keep"]

----------------------------------------------------------------------------
\* A statement is applied and reported so; or it fails; or it is applied and
\* the connection breaks before the answer arrives.
Statement(applied, reported) ==
  /\ reported => applied
  /\ reported \/ faults < MaxFaults
  /\ faults' = IF reported THEN faults ELSE faults + 1

Stored(c) == c \in DOMAIN address /\ address[c] # NoEmail

Goto(r, label) ==
  pc' = [pc EXCEPT ![r] = label] /\ UNCHANGED <<who, store, email, wish>>

\* From here on the request needs the id c only, and nothing at the end.
GotoWith(r, label, c) ==
  /\ pc' = [pc EXCEPT ![r] = label] /\ who' = [who EXCEPT ![r] = c]
  /\ store' = [store EXCEPT ![r] = NoStore]
  /\ email' = [email EXCEPT ![r] = NoEmail]
  /\ wish' = [wish EXCEPT ![r] = "keep"]

\* Of the answers, the properties tell apart the steps that give them.
Reply(r, answer) == GotoWith(r, "idle", None)

Pending(label) == Cardinality({r \in Requests : pc[r] = label})
Subscribing == Cardinality({r \in Requests : wish[r] = "subscribe"})

\* CreateCustomer that found its address free.
AdmitCreate(r) ==
  \E s \in Stores, e \in Emails, w \in {"keep", "subscribe"} :
    /\ pc[r] = "idle"
    /\ Len(address) + Pending("insert") < MaxAccounts
    /\ w = "subscribe" => Len(subscribers) + Subscribing < MaxSubscribers
    /\ pc' = [pc EXCEPT ![r] = "insert"]
    /\ store' = [store EXCEPT ![r] = s] /\ email' = [email EXCEPT ![r] = e]
    /\ wish' = [wish EXCEPT ![r] = w]
    /\ UNCHANGED <<uniqueKey, address, subscribers, faults, who>>

\* UpdateCustomer; only a subscription uses the store.  A session may outlive
\* its account.
AdmitUpdate(r) ==
  \E c \in DOMAIN address, s \in Stores \cup {NoStore},
     w \in Wishes :
    /\ pc[r] = "idle"
    /\ s # NoStore <=> w = "subscribe"
    /\ w = "subscribe" => Len(subscribers) + Subscribing < MaxSubscribers
    /\ pc' = [pc EXCEPT ![r] = "columns"] /\ who' = [who EXCEPT ![r] = c]
    /\ store' = [store EXCEPT ![r] = s] /\ wish' = [wish EXCEPT ![r] = w]
    /\ UNCHANGED <<uniqueKey, address, subscribers, faults, email>>

\* Mutant: the id is asked for in a statement of its own, which another
\* connection of the pool may answer with the id it inserted last.
CreateOnPool(r) ==
  /\ pc[r] = "insert"
  /\ address' = Append(address, email[r])
  /\ \E c \in DOMAIN address' :
       \/ /\ wish[r] = "subscribe"
          /\ pc' = [pc EXCEPT ![r] = "subscribe"]
          /\ who' = [who EXCEPT ![r] = c]
          /\ UNCHANGED <<store, email, wish>>
       \/ wish[r] = "keep" /\ GotoWith(r, "readback", c)
  /\ UNCHANGED <<uniqueKey, subscribers, faults>>

\* The INSERT of CreateCustomer; the address subscribed is the one given.
Create(r) ==
  /\ pc[r] = "insert"
  /\ \E applied, reported \in BOOLEAN :
       /\ Statement(applied, reported)
       /\ address' = IF applied THEN Append(address, email[r]) ELSE address
       /\ \/ /\ reported /\ wish[r] = "subscribe"
             /\ pc' = [pc EXCEPT ![r] = "subscribe"]
             /\ who' = [who EXCEPT ![r] = Len(address) + 1]
             /\ UNCHANGED <<store, email, wish>>
          \/ /\ reported /\ wish[r] = "keep"
             /\ GotoWith(r, "readback", Len(address) + 1)
          \/ ~reported /\ Reply(r, "error")
  /\ UNCHANGED <<uniqueKey, subscribers>>

\* UpdateCustomer: one UPDATE of the profile columns given, if any.
UpdateColumns(r) ==
  /\ pc[r] = "columns"
  /\ \E applied, reported \in BOOLEAN :
       /\ Statement(applied, reported)
       /\ \/ reported /\ wish[r] = "keep" /\ GotoWith(r, "readback", who[r])
          \/ reported /\ wish[r] # "keep" /\ Goto(r, "address")
          \/ ~reported /\ Reply(r, "error")
  /\ UNCHANGED <<uniqueKey, address, subscribers>>

\* The row read for its address, with the error dropped: subscribing
\* dereferences the missing row, unsubscribing does not look at it.
ReadAddress(r) ==
  /\ pc[r] = "address"
  /\ \E ok \in BOOLEAN :
       /\ Statement(ok, ok)
       /\ \/ wish[r] = "unsubscribe" /\ Goto(r, "unsubscribe")
          \/ /\ wish[r] = "subscribe" /\ ok /\ Stored(who[r])
             /\ email' = [email EXCEPT ![r] = address[who[r]]]
             /\ pc' = [pc EXCEPT ![r] = "subscribe"]
             /\ UNCHANGED <<who, store, wish>>
          \/ /\ wish[r] = "subscribe" /\ ~(ok /\ Stored(who[r]))
             /\ Reply(r, "panic")
  /\ UNCHANGED <<uniqueKey, address, subscribers>>

\* Rows the unique key makes the INSERT of request r collide with.
InTheWay(r) ==
  {i \in DOMAIN subscribers :
     /\ uniqueKey
     /\ subscribers[i].email = email[r] /\ subscribers[i].store = store[r]}

NewRow(r) == [owner |-> who[r], store |-> store[r], email |-> email[r],
              subscribed |-> TRUE]

\* Mutant: the first row with the address is subscribed, whoever owns it and
\* whatever keys there are; only without one a row is inserted.
SubscribeAddress(r) ==
  /\ pc[r] = "subscribe"
  /\ LET same == {i \in DOMAIN subscribers : subscribers[i].email = email[r]} IN
     subscribers' =
       IF same = {} THEN Append(subscribers, NewRow(r))
       ELSE [subscribers EXCEPT ![CHOOSE i \in same : \A j \in same : i <= j]
                                .subscribed = TRUE]
  /\ GotoWith(r, "readback", who[r])
  /\ UNCHANGED <<uniqueKey, address, faults>>

\* INSERT ... ON DUPLICATE KEY UPDATE: the row in the way is subscribed,
\* whoever owns it.  Errors are dropped.
Subscribe(r) ==
  /\ pc[r] = "subscribe"
  /\ \E applied, reported \in BOOLEAN :
       /\ Statement(applied, reported)
       /\ \/ ~applied /\ UNCHANGED subscribers
          \/ /\ applied
             /\ \E i \in InTheWay(r) :
                  subscribers' = [subscribers EXCEPT ![i].subscribed = TRUE]
          \/ /\ applied /\ InTheWay(r) = {}
             /\ subscribers' = Append(subscribers, NewRow(r))
  /\ GotoWith(r, "readback", who[r])
  /\ UNCHANGED <<uniqueKey, address>>

\* What the account page shows: the latest row of the customer.
IsSubscribed(c) ==
  \E i \in DOMAIN subscribers :
    /\ subscribers[i].owner = c /\ subscribers[i].subscribed
    /\ \A j \in DOMAIN subscribers : subscribers[j].owner = c => j <= i

\* Mutant: only the row that the account page looks at is unsubscribed.
UnsubscribeLatest(r) ==
  /\ pc[r] = "unsubscribe"
  /\ subscribers' =
       [i \in DOMAIN subscribers |->
          IF /\ subscribers[i].owner = who[r]
             /\ \A j \in DOMAIN subscribers :
                  subscribers[j].owner = who[r] => j <= i
          THEN [subscribers[i] EXCEPT !.subscribed = FALSE]
          ELSE subscribers[i]]
  /\ GotoWith(r, "readback", who[r])
  /\ UNCHANGED <<uniqueKey, address, faults>>

\* All rows of the customer.  Errors are dropped.
Unsubscribe(r) ==
  /\ pc[r] = "unsubscribe"
  /\ \E applied, reported \in BOOLEAN :
       /\ Statement(applied, reported)
       /\ subscribers' =
            [i \in DOMAIN subscribers |->
               IF applied /\ subscribers[i].owner = who[r]
               THEN [subscribers[i] EXCEPT !.subscribed = FALSE]
               ELSE subscribers[i]]
  /\ GotoWith(r, "readback", who[r])
  /\ UNCHANGED <<uniqueKey, address>>

\* The row read for the answer; its error is the answer.
ReadBack(r) ==
  /\ pc[r] = "readback"
  /\ \E ok \in BOOLEAN :
       /\ Statement(ok, ok)
       /\ Reply(r, IF ok /\ Stored(who[r]) THEN "ok" ELSE "error")
  /\ UNCHANGED <<uniqueKey, address, subscribers>>

\* UPDATE ... SET email of UpdateEmail, which leaves the newsletter rows alone.
ChangeEmail(c) ==
  /\ Stored(c)
  /\ \E e \in Emails : address' = [address EXCEPT ![c] = e]
  /\ UNCHANGED <<uniqueKey, subscribers, faults, pc, who, store, email, wish>>

\* The DELETE of DeleteCustomer, which leaves the newsletter rows alone.
Delete(c) ==
  /\ Stored(c) /\ address' = [address EXCEPT ![c] = NoEmail]
  /\ UNCHANGED <<uniqueKey, subscribers, faults, pc, who, store, email, wish>>

Handle(r) ==
  \/ AdmitCreate(r) \/ AdmitUpdate(r) \/ Create(r) \/ UpdateColumns(r)
  \/ ReadAddress(r) \/ Subscribe(r) \/ Unsubscribe(r) \/ ReadBack(r)

Next ==
  /\ \/ \E r \in Requests : Handle(r)
     \/ \E c \in DOMAIN address : ChangeEmail(c) \/ Delete(c)
  /\ had' = had \cup {<<c, address'[c]>> : c \in DOMAIN address'}

Spec == Init /\ [][Next]_vars
----------------------------------------------------------------------------
(* Correctness.                                                            *)

\* The variables keep their types, and every row and request is of a customer
\* that was inserted.
TypeOK ==
  /\ uniqueKey \in UniqueKeys
  /\ address \in Seq(Emails \cup {NoEmail}) /\ Len(address) <= MaxAccounts
  /\ subscribers \in Seq(Subscriber) /\ Len(subscribers) <= MaxSubscribers
  /\ \A i \in DOMAIN subscribers : subscribers[i].owner \in DOMAIN address
  /\ faults \in 0..MaxFaults
  /\ pc \in [Requests -> Labels]
  /\ who \in [Requests -> {None} \cup DOMAIN address]
  /\ store \in [Requests -> Stores \cup {NoStore}]
  /\ email \in [Requests -> Emails \cup {NoEmail}]
  /\ wish \in [Requests -> Wishes]
  /\ had \subseteq (DOMAIN address) \X (Emails \cup {NoEmail})

\* Whom the newsletter reaches: the owners of subscribed rows.
Receives(c) ==
  \E i \in DOMAIN subscribers :
    subscribers[i].owner = c /\ subscribers[i].subscribed

\* Where subscribing always inserts a row, the customer's latest row, the only
\* one that is shown (newsletter.go:22), tells whether any of its rows is
\* subscribed, in whatever order subscriptions and their end are written.
ShownAsReached ==
  ~uniqueKey => \A c \in DOMAIN address : Receives(c) <=> IsSubscribed(c)

\* The variables keep their types, and where subscribing always inserts a row the
\* one that is shown tells whether the newsletter is sent (newsletter.go:22).
SubscriptionsOK == TypeOK /\ ShownAsReached

\* A customer starts to receive the newsletter only by a request of its own,
\* or, where there is a unique key, by a request of somebody who has the
\* address that the customer had once (newsletter.go:39).
OwnConsent ==
  [][\A c \in DOMAIN address :
       (~Receives(c) /\ Receives(c)') =>
         \E r \in Requests :
           /\ pc[r] = "subscribe" /\ pc'[r] # "subscribe"
           /\ \/ who[r] = c
              \/ /\ uniqueKey
                 /\ \E i \in DOMAIN subscribers :
                      /\ subscribers[i].owner = c
                      /\ subscribers[i].email = email[r]]_vars

\* The newsletter is never sent to somebody else's address in a customer's name:
\* each row bears an address its owner has had, though it was read, or given,
\* statements before the row is written, and the address may have changed.
OwnAddress ==
  \A i \in DOMAIN subscribers :
    <<subscribers[i].owner, subscribers[i].email>> \in had
=============================================================================
