-------------------------- MODULE CustomerRegistry --------------------------
(***************************************************************************)
(* The registry: CreateCustomer, UpdateEmail and IsEmailAvailable of       *)
(* internal/service/customer.go over the rows of customer_entity, several  *)
(* stores and websites.                                                    *)
(*                                                                         *)
(* An address is looked up in one statement and stored in a later one, in  *)
(* a website that is looked up through the store's cache and defaults to 1 *)
(* when that fails.  The table belongs to Magento; whether it has a unique *)
(* key on (email, website_id) is not visible here, so it has or has not.   *)
(* Left out: profile columns and mails, which nothing here reads; sessions *)
(* (CustomerAccount); the subscription that may follow CreateCustomer, and *)
(* UpdateCustomer (Newsletter).                                            *)
(***************************************************************************)
EXTENDS Integers, FiniteSets, Sequences

CONSTANTS
  Requests,        \* requests the server handles at the same time
  Operations,      \* what the clients of this instance ask for
  Emails,          \* addresses clients type
  Stores,          \* stores of the installation
  WebsiteOf,       \* the website of each store
  UniqueKeys,      \* may customer_entity have the unique key?
  MaxAccounts,     \* bound: customers ever inserted
  MaxFaults        \* bound: statements that return an error

RegistryOperations == {"CreateCustomer", "UpdateEmail", "IsEmailAvailable"}
DefaultWebsite == 1
Websites == {WebsiteOf[s] : s \in Stores} \cup {DefaultWebsite}
None == 0
NoEmail == "none"
NoStore == "none"

ASSUME OperationsAssumption == Operations \subseteq RegistryOperations
ASSUME WebsiteAssumption == WebsiteOf \in [Stores -> Nat \ {None}]
ASSUME KeyAssumption == UniqueKeys \subseteq BOOLEAN
ASSUME BoundAssumption == MaxAccounts \in Nat /\ MaxFaults \in Nat

VARIABLES
  uniqueKey,   \* has customer_entity the unique key?
  accounts,    \* rows of customer_entity, by entity_id; ids are not reused
  cached,      \* stores whose row StoreRepository holds
  faults,      \* statements that have returned an error
  op, pc,      \* what each request executes, and its next step
  who,         \* the customer of its session, or the one it has created
  store,       \* the store it came in through
  website,     \* the website it looked up
  email,       \* the address it was given
  rivals       \* history: who took its address since it was admitted

tables == <<uniqueKey, accounts>>
locals == <<op, pc, who, store, website, email, rivals>>
vars   == <<uniqueKey, accounts, cached, faults, op, pc, who, store,
            website, email, rivals>>

Ids == 1..MaxAccounts
Account == [email : Emails, website : Websites, store : Stores]
Gone == [email |-> NoEmail, website |-> None, store |-> NoStore]
Labels == {"idle", "load", "website", "exists", "insert", "write", "readback"}

Init ==
  /\ uniqueKey \in UniqueKeys /\ accounts = <<>>
  /\ cached = {} /\ faults = 0
  /\ op = [r \in Requests |-> "none"] /\ pc = [r \in Requests |-> "idle"]
  /\ who = [r \in Requests |-> None] /\ store = [r \in Requests |-> NoStore]
  /\ website = [r \in Requests |-> None]
  /\ email = [r \in Requests |-> NoEmail]
  /\ rivals = [r \in Requests |-> {}]

----------------------------------------------------------------------------
\* A statement is applied and reported so; or it fails; or it is applied and
\* the connection breaks before the answer arrives.
Statement(applied, reported) ==
  /\ reported => applied
  /\ reported \/ faults < MaxFaults
  /\ faults' = IF reported THEN faults ELSE faults + 1

Stored(c) == c \in DOMAIN accounts /\ accounts[c] # Gone

Holders(e, w) ==
  {c \in DOMAIN accounts : accounts[c].email = e /\ accounts[c].website = w}

Goto(r, label) == pc' = [pc EXCEPT ![r] = label] /\ UNCHANGED <<op, store>>

\* All that is left to do is reading the row of c for the answer.
GotoReadBack(r, c) ==
  /\ pc' = [pc EXCEPT ![r] = "readback"] /\ who' = [who EXCEPT ![r] = c]
  /\ op' = [op EXCEPT ![r] = "none"] /\ store' = [store EXCEPT ![r] = NoStore]
  /\ website' = [website EXCEPT ![r] = None]
  /\ email' = [email EXCEPT ![r] = NoEmail]

\* Of the answers, the properties tell apart the steps that give them.
Reply(r, answer) ==
  /\ pc' = [pc EXCEPT ![r] = "idle"] /\ op' = [op EXCEPT ![r] = "none"]
  /\ who' = [who EXCEPT ![r] = None] /\ store' = [store EXCEPT ![r] = NoStore]
  /\ website' = [website EXCEPT ![r] = None]
  /\ email' = [email EXCEPT ![r] = NoEmail]

Forget(r) == rivals' = [rivals EXCEPT ![r] = {}]

\* Requests that have an account still to insert.
Creating == {r \in Requests : op[r] = "CreateCustomer" /\ who[r] = None}

FirstStep ==
  [CreateCustomer |-> "website", UpdateEmail |-> "load",
   IsEmailAvailable |-> "website"]

\* Clients name any store.  A session that outlives its account meets what a
\* deletion just after this step leaves.  With the availability check
\* configured off, IsEmailAvailable answers without a statement; that is no
\* step here.
Admit(r) ==
  \E o \in Operations, c \in {i \in DOMAIN accounts : Stored(i)} \cup {None},
     s \in Stores, e \in Emails :
    /\ pc[r] = "idle"
    /\ c # None <=> o = "UpdateEmail"
    /\ o = "CreateCustomer" =>
         Len(accounts) + Cardinality(Creating) < MaxAccounts
    /\ op' = [op EXCEPT ![r] = o] /\ pc' = [pc EXCEPT ![r] = FirstStep[o]]
    /\ who' = [who EXCEPT ![r] = c] /\ store' = [store EXCEPT ![r] = s]
    /\ email' = [email EXCEPT ![r] = e]
    /\ UNCHANGED <<tables, cached, faults, website, rivals>>

\* Mutant: a store that could not be read is cached with the default website.
CacheDefault(r) ==
  /\ pc[r] = "website"
  /\ \E ok \in BOOLEAN :
       /\ IF store[r] \in cached THEN UNCHANGED faults ELSE Statement(ok, ok)
       /\ website' = [website EXCEPT ![r] =
                        IF ok THEN WebsiteOf[store[r]] ELSE DefaultWebsite]
       /\ cached' = cached \cup {store[r]}
  /\ Goto(r, "exists")
  /\ UNCHANGED <<tables, who, email, rivals>>

\* The store's row, from the cache or the table.  The error is dropped and
\* website 1 used instead, but not cached.
GetWebsiteIDForStore(r) ==
  /\ pc[r] = "website"
  /\ \/ /\ store[r] \in cached
        /\ website' = [website EXCEPT ![r] = WebsiteOf[store[r]]]
        /\ UNCHANGED <<cached, faults>>
     \/ /\ store[r] \notin cached
        /\ \E ok \in BOOLEAN :
             /\ Statement(ok, ok)
             /\ website' = [website EXCEPT ![r] =
                              IF ok THEN WebsiteOf[store[r]] ELSE DefaultWebsite]
             /\ cached' = IF ok THEN cached \cup {store[r]} ELSE cached
  /\ Goto(r, "exists")
  /\ UNCHANGED <<tables, who, email, rivals>>

AfterExists == [CreateCustomer |-> "insert", UpdateEmail |-> "write"]

\* Mutant: an error of the check is dropped, and counts as a free address.
EmailExistsUnlessError(r) ==
  /\ pc[r] = "exists"
  /\ \E ok \in BOOLEAN :
       /\ Statement(ok, ok)
       /\ \/ /\ ~ok \/ Holders(email[r], website[r]) = {}
             /\ op[r] \in DOMAIN AfterExists
             /\ Goto(r, AfterExists[op[r]])
             /\ UNCHANGED <<who, website, email, rivals>>
          \/ /\ ok
             /\ Holders(email[r], website[r]) # {} \/ op[r] # "UpdateEmail"
             /\ Reply(r, "refused") /\ Forget(r)
  /\ UNCHANGED <<tables, cached>>

\* SELECT COUNT(*): a request that wants the address goes on when nobody has
\* it.  IsEmailAvailable, and CreateCustomer with a password that is too
\* weak, end here in any case.
EmailExists(r) ==
  /\ pc[r] = "exists"
  /\ \E ok \in BOOLEAN :
       /\ Statement(ok, ok)
       /\ \/ /\ ok /\ Holders(email[r], website[r]) = {}
             /\ op[r] \in DOMAIN AfterExists
             /\ Goto(r, AfterExists[op[r]])
             /\ UNCHANGED <<who, website, email, rivals>>
          \/ /\ \/ ~ok \/ Holders(email[r], website[r]) # {}
                \/ op[r] # "UpdateEmail"
             /\ Reply(r, "refused") /\ Forget(r)
  /\ UNCHANGED <<tables, cached>>

\* Request r has stored its address for c: c is a rival of every request that
\* has yet to store the same address.
Took(r, c) ==
  rivals' = [q \in Requests |->
               CASE q = r -> {}
                 [] q # r /\ email[q] = email[r]
                          /\ pc[q] \in {"load", "website", "exists", "insert", "write"}
                    -> rivals[q] \cup {c}
                 [] OTHER -> rivals[q]]

\* The INSERT, with the website of the check.  A unique key refuses an
\* address that was taken meanwhile.  The id is remembered as the request's.
Create(r) ==
  /\ pc[r] = "insert"
  /\ LET refused == uniqueKey /\ Holders(email[r], website[r]) # {} IN
     \/ /\ refused /\ Reply(r, "error") /\ Forget(r)
        /\ UNCHANGED <<accounts, faults>>
     \/ /\ ~refused /\ Len(accounts) < MaxAccounts
        /\ \E applied, reported \in BOOLEAN :
             /\ Statement(applied, reported)
             /\ IF applied
                THEN /\ accounts' = Append(accounts,
                           [email |-> email[r], website |-> website[r],
                            store |-> store[r]])
                     /\ Took(r, Len(accounts) + 1)
                ELSE Forget(r) /\ UNCHANGED accounts
             /\ IF reported
                THEN GotoReadBack(r, Len(accounts) + 1)
                ELSE Reply(r, "error")
  /\ UNCHANGED <<uniqueKey, cached>>

\* UpdateEmail reads the row and verifies the password with it.
LoadForEmail(r) ==
  /\ pc[r] = "load"
  /\ \E ok, right \in BOOLEAN :
       /\ Statement(ok, ok)
       /\ IF ok /\ Stored(who[r]) /\ right
          THEN Goto(r, "website") /\ UNCHANGED <<who, website, email, rivals>>
          ELSE Reply(r, "error") /\ Forget(r)
  /\ UNCHANGED <<tables, cached>>

\* UPDATE ... SET email, on whichever website the customer's row is in.
UpdateEmail(r) ==
  /\ pc[r] = "write"
  /\ LET c == who[r]
         refused == /\ uniqueKey /\ Stored(c)
                    /\ Holders(email[r], accounts[c].website) \ {c} # {} IN
     \/ /\ refused /\ Reply(r, "error") /\ Forget(r)
        /\ UNCHANGED <<accounts, faults>>
     \/ /\ ~refused
        /\ \E applied, reported \in BOOLEAN :
             /\ Statement(applied, reported)
             /\ IF applied /\ Stored(c)
                THEN /\ accounts' = [accounts EXCEPT ![c].email = email[r]]
                     /\ Took(r, c)
                ELSE Forget(r) /\ UNCHANGED accounts
             /\ IF reported
                THEN GotoReadBack(r, c)
                ELSE Reply(r, "error")
  /\ UNCHANGED <<uniqueKey, cached>>

\* The row read for the answer; its error is the answer.
ReadBack(r) ==
  /\ pc[r] = "readback"
  /\ \E ok \in BOOLEAN :
       /\ Statement(ok, ok)
       /\ Reply(r, IF ok /\ Stored(who[r]) THEN "ok" ELSE "error")
  /\ UNCHANGED <<tables, cached, rivals>>

\* DeleteCustomer, of which CustomerAccount models the rest.
Delete(c) ==
  /\ Stored(c)
  /\ accounts' = [accounts EXCEPT ![c] = Gone]
  /\ UNCHANGED <<uniqueKey, cached, faults, locals>>

Next ==
  \/ \E r \in Requests :
       \/ Admit(r) \/ GetWebsiteIDForStore(r) \/ EmailExists(r) \/ Create(r)
       \/ LoadForEmail(r) \/ UpdateEmail(r) \/ ReadBack(r)
  \/ \E c \in DOMAIN accounts : Delete(c)

Spec == Init /\ [][Next]_vars
----------------------------------------------------------------------------
(* Correctness.                                                            *)

\* The variables keep their types: every account is in a website, and requests
\* know only accounts that were inserted.
TypeOK ==
  /\ uniqueKey \in UniqueKeys
  /\ accounts \in Seq(Account \cup {Gone}) /\ Len(accounts) <= MaxAccounts
  /\ cached \subseteq Stores /\ faults \in 0..MaxFaults
  /\ op \in [Requests -> Operations \cup {"none"}]
  /\ pc \in [Requests -> Labels]
  /\ who \in [Requests -> {None} \cup DOMAIN accounts]
  /\ store \in [Requests -> Stores \cup {NoStore}]
  /\ website \in [Requests -> Websites \cup {None}]
  /\ email \in [Requests -> Emails \cup {NoEmail}]
  /\ rivals \in [Requests -> SUBSET DOMAIN accounts]

\* Accounts whose address a step of request r has written.
Written(r) ==
  {c \in DOMAIN accounts' :
     /\ pc[r] \in {"insert", "write"} /\ pc'[r] # pc[r]
     /\ c \notin DOMAIN accounts \/ accounts'[c].email # accounts[c].email}

\* Without a unique key, the check of CreateCustomer (customer.go:274) and of
\* UpdateEmail (customer.go:492) lets an address be given to two accounts of
\* a website only when the other one took it while the request was running,
\* or when the request came in through another website.
DuplicateMeansRace ==
  [][\A r \in Requests : \A c \in Written(r) :
       LET a == accounts'[c] IN
       Holders(a.email, a.website) \ {c} # {} =>
         \/ Holders(a.email, a.website) \ {c} \subseteq rivals[r]
         \/ a.website # website[r]]_vars

\* Each failed read of a store misplaces at most one account: website 1 is
\* used for this registration (store.go:59) but not remembered for the next.
MisplacedMeansFailed ==
  Cardinality({c \in DOMAIN accounts :
                 /\ Stored(c)
                 /\ accounts[c].website # WebsiteOf[accounts[c].store]}) <= faults

\* The variables keep their types, and each failed read of a store misplaces at
\* most one account (store.go:59).
WebsitesOK == TypeOK /\ MisplacedMeansFailed
=============================================================================
