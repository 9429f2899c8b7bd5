---------------------------- MODULE AddressBook ----------------------------
(***************************************************************************)
(* The addresses of the customers and the default_billing and              *)
(* default_shipping columns that point at them, as CreateAddress,          *)
(* UpdateAddress, DeleteAddress and DeleteCustomer of                      *)
(* internal/service/customer.go change them.                               *)
(*                                                                         *)
(* As in CustomerAccount, a request is a goroutine, a statement is         *)
(* autocommitted, and any other request may run between two statements.    *)
(* The two columns live in another table than the addresses and nothing    *)
(* in the schema the code relies on ties them together: a foreign key that *)
(* cascades is denied by tests/customer_scenarios_test.go:212.             *)
(***************************************************************************)
EXTENDS Integers, FiniteSets

CONSTANTS
  Requests,        \* requests the server handles at the same time
  Customers,       \* customers of the instance
  Operations,      \* the mutations the clients of this instance send
  MaxAddresses,    \* bound: addresses ever inserted
  MaxFaults        \* bound: statements that return an error

AddressOperations ==
  {"CreateAddress", "UpdateAddress", "DeleteAddress", "DeleteCustomer"}
Kinds == {"billing", "shipping"}
Ids   == 1..MaxAddresses
None  == 0                        \* SQL NULL, no address, nobody

ASSUME OperationsAssumption == Operations \subseteq AddressOperations
ASSUME BoundAssumption == MaxAddresses \in Nat /\ MaxFaults \in Nat
ASSUME CustomersAssumption == None \notin Customers

VARIABLES
  present,    \* the customers that have a customer_entity row
  default,    \* default_billing and default_shipping of each customer
  stored,     \* the ids that have a customer_address_entity row
  parent,     \* parent_id of every id handed out, kept after a deletion
  writer,     \* whose session wrote the content of every id handed out
  nextId,     \* AUTO_INCREMENT of customer_address_entity
  faults,     \* statements that have returned an error
  op, pc,     \* what each request executes, and its next step
  who,        \* the customer of its session
  addr,       \* the address it works on
  want,       \* the defaults it still has to set
  contended   \* history: see Contended

tables == <<present, default, stored, parent, writer, nextId>>
locals == <<op, pc, who, addr, want>>
vars   == <<present, default, stored, parent, writer, nextId, faults,
            op, pc, who, addr, want, contended>>

Labels == {"idle", "insert", "verify", "update", "default", "reread",
           "answer", "guard", "remove", "close"}

Init ==
  /\ present = Customers
  /\ default = [c \in Customers |-> [k \in Kinds |-> None]]
  /\ stored = {} /\ nextId = 1 /\ faults = 0
  /\ parent = [a \in Ids |-> None] /\ writer = [a \in Ids |-> None]
  /\ op = [r \in Requests |-> "none"] /\ pc = [r \in Requests |-> "idle"]
  /\ who = [r \in Requests |-> None] /\ addr = [r \in Requests |-> None]
  /\ want = [r \in Requests |-> {}]
  /\ contended = {}

----------------------------------------------------------------------------
\* A statement is applied and reported so; or it fails; or it is applied and
\* the connection breaks before the answer arrives.
Statement(applied, reported) ==
  /\ reported => applied
  /\ reported \/ faults < MaxFaults
  /\ faults' = IF reported THEN faults ELSE faults + 1

Goto(r, label) ==
  pc' = [pc EXCEPT ![r] = label] /\ UNCHANGED <<op, who>>

\* The answer, or a panic that the server recovers: which of them it is, and
\* what it says, is told apart by no property.
Reply(r) ==
  /\ pc' = [pc EXCEPT ![r] = "idle"]
  /\ addr' = [addr EXCEPT ![r] = None] /\ want' = [want EXCEPT ![r] = {}]
  /\ op' = [op EXCEPT ![r] = "none"] /\ who' = [who EXCEPT ![r] = None]

FirstStep ==
  [CreateAddress |-> "insert", UpdateAddress |-> "verify",
   DeleteAddress |-> "verify", DeleteCustomer |-> "close"]

\* A request is admitted with a session of some customer (even of one whose
\* row is gone by now), the id the client names, and the defaults it wants.
\* Ids are taken from those handed out: any other finds no row.
Admit(r) ==
  \E o \in Operations, c \in Customers, a \in 0..nextId - 1,
     w \in SUBSET Kinds :
    /\ pc[r] = "idle"
    /\ a = None <=> o \in {"CreateAddress", "DeleteCustomer"}
    /\ o \in {"DeleteAddress", "DeleteCustomer"} => w = {}
    /\ o = "CreateAddress" => nextId <= MaxAddresses
    /\ op' = [op EXCEPT ![r] = o] /\ pc' = [pc EXCEPT ![r] = FirstStep[o]]
    /\ who' = [who EXCEPT ![r] = c] /\ addr' = [addr EXCEPT ![r] = a]
    /\ want' = [want EXCEPT ![r] = w]
    /\ UNCHANGED <<tables, faults>>

\* Once the address is written, the defaults follow, then the answer.
AfterWrite(r) ==
  Goto(r, IF want[r] = {} THEN "reread" ELSE "default")

Insert(r) ==
  /\ pc[r] = "insert" /\ nextId <= MaxAddresses
  /\ \E applied, reported \in BOOLEAN :
       /\ Statement(applied, reported)
       /\ IF applied
          THEN /\ stored' = stored \cup {nextId} /\ nextId' = nextId + 1
               /\ parent' = [parent EXCEPT ![nextId] = who[r]]
               /\ writer' = [writer EXCEPT ![nextId] = who[r]]
          ELSE UNCHANGED <<stored, nextId, parent, writer>>
       /\ IF reported
          THEN /\ addr' = [addr EXCEPT ![r] = nextId]
               /\ UNCHANGED want /\ AfterWrite(r)
          ELSE Reply(r)
  /\ UNCHANGED <<present, default>>

\* Mutant: the owner of the address is not compared with the session's.
VerifyAnyOwner(r) ==
  /\ pc[r] = "verify"
  /\ \E ok \in BOOLEAN :
       /\ Statement(ok, ok)
       /\ IF ok /\ addr[r] \in stored
          THEN /\ Goto(r, IF op[r] = "UpdateAddress" THEN "update" ELSE "guard")
               /\ UNCHANGED <<addr, want>>
          ELSE Reply(r)
  /\ UNCHANGED tables

\* The address is read and must belong to the customer of the session.
VerifyOwner(r) ==
  /\ pc[r] = "verify"
  /\ \E ok \in BOOLEAN :
       /\ Statement(ok, ok)
       /\ IF ok /\ addr[r] \in stored /\ parent[addr[r]] = who[r]
          THEN /\ Goto(r, IF op[r] = "UpdateAddress" THEN "update" ELSE "guard")
               /\ UNCHANGED <<addr, want>>
          ELSE Reply(r)
  /\ UNCHANGED tables

\* Mutant: the columns that are not given are set to NULL.
ClearColumns(r) ==
  /\ pc[r] = "update"
  /\ \E written \in {who[r], None} : writer' = [writer EXCEPT ![addr[r]] = written]
  /\ AfterWrite(r)
  /\ UNCHANGED <<present, default, stored, parent, nextId, addr, want, faults>>

\* The columns given, in one UPDATE of a row that may be gone by now; no
\* statement is run when the input gives none.
UpdateColumns(r) ==
  /\ pc[r] = "update"
  /\ \E given, applied, reported \in BOOLEAN :
       /\ ~given => applied /\ reported
       /\ Statement(applied, reported)
       /\ writer' = IF given /\ applied /\ addr[r] \in stored
                    THEN [writer EXCEPT ![addr[r]] = who[r]] ELSE writer
       /\ IF reported THEN AfterWrite(r) /\ UNCHANGED <<addr, want>>
          ELSE Reply(r)
  /\ UNCHANGED <<present, default, stored, parent, nextId>>

\* Billing first, then shipping, each an UPDATE of the customer's row whose
\* error is dropped.
SetDefault(r) ==
  /\ pc[r] = "default"
  /\ LET k == IF "billing" \in want[r] THEN "billing" ELSE "shipping" IN
     /\ \E applied, reported \in BOOLEAN :
          /\ Statement(applied, reported)
          /\ default' = IF applied /\ who[r] \in present
                        THEN [default EXCEPT ![who[r]][k] = addr[r]]
                        ELSE default
     /\ want' = [want EXCEPT ![r] = @ \ {k}]
     /\ Goto(r, IF want[r] = {k} THEN "reread" ELSE "default")
  /\ UNCHANGED <<present, stored, parent, writer, nextId, addr>>

\* The address read back for the answer.
ReReadAddress(r) ==
  /\ pc[r] = "reread"
  /\ \E ok \in BOOLEAN :
       /\ Statement(ok, ok)
       /\ IF ok /\ addr[r] \in stored
          THEN Goto(r, "answer") /\ UNCHANGED <<addr, want>>
          ELSE Reply(r)
  /\ UNCHANGED tables

\* The customer's row read for the default flags.  Its error is dropped and a
\* missing row dereferenced: then the handler panics instead of answering,
\* and nothing it wrote is taken back.
AnswerWithDefaults(r) ==
  /\ pc[r] = "answer"
  /\ \E ok \in BOOLEAN : Statement(ok, ok)
  /\ Reply(r)
  /\ UNCHANGED tables

\* Mutant: only the billing column is looked at.
GuardBilling(r) ==
  /\ pc[r] = "guard"
  /\ \E ok \in BOOLEAN :
       /\ Statement(ok, ok)
       /\ IF ok /\ who[r] \in present /\ default[who[r]]["billing"] = addr[r]
          THEN Reply(r)
          ELSE Goto(r, "remove") /\ UNCHANGED <<addr, want>>
  /\ UNCHANGED tables

\* DeleteAddress reads the customer and refuses to delete a default.  When
\* the read fails the check is skipped.
GuardDefaults(r) ==
  /\ pc[r] = "guard"
  /\ \E ok \in BOOLEAN :
       /\ Statement(ok, ok)
       /\ IF /\ ok /\ who[r] \in present
             /\ \E k \in Kinds : default[who[r]][k] = addr[r]
          THEN Reply(r)
          ELSE Goto(r, "remove") /\ UNCHANGED <<addr, want>>
  /\ UNCHANGED tables

RemoveAddress(r) ==
  /\ pc[r] = "remove"
  /\ \E applied, reported \in BOOLEAN :
       /\ Statement(applied, reported)
       /\ stored' = IF applied THEN stored \ {addr[r]} ELSE stored
       /\ Reply(r)
  /\ UNCHANGED <<present, default, parent, writer, nextId>>

\* DeleteCustomer deletes the row (CustomerAccount models the sessions).
RemoveCustomer(r) ==
  /\ pc[r] = "close"
  /\ \E applied, reported \in BOOLEAN :
       /\ Statement(applied, reported)
       /\ present' = IF applied THEN present \ {who[r]} ELSE present
       /\ Reply(r)
  /\ UNCHANGED <<default, stored, parent, writer, nextId>>

Handle(r) ==
  \/ Admit(r) \/ Insert(r) \/ VerifyOwner(r) \/ UpdateColumns(r)
  \/ SetDefault(r) \/ ReReadAddress(r) \/ AnswerWithDefaults(r)
  \/ GuardDefaults(r) \/ RemoveAddress(r) \/ RemoveCustomer(r)

\* History: the addresses about to be removed, past the check for defaults,
\* while another request has yet to make them one.  contended keeps them.
Contended ==
  {a \in Ids : \E r, s \in Requests :
     pc[r] = "remove" /\ addr[r] = a /\ addr[s] = a /\ want[s] # {}}

Next ==
  \E r \in Requests : Handle(r) /\ contended' = contended \cup Contended

Spec == Init /\ [][Next]_vars
----------------------------------------------------------------------------
(* Correctness.                                                            *)

\* The variables keep their types; an id has an owner and a writer once it is
\* handed out.
TypeOK ==
  /\ present \subseteq Customers
  /\ default \in [Customers -> [Kinds -> Ids \cup {None}]]
  /\ stored \subseteq Ids
  /\ parent \in [Ids -> Customers \cup {None}]
  /\ writer \in [Ids -> Customers \cup {None}]
  /\ \A a \in Ids : parent[a] = None <=> a >= nextId
  /\ \A a \in Ids : writer[a] = None <=> a >= nextId
  /\ nextId \in 1..MaxAddresses + 1 /\ faults \in 0..MaxFaults
  /\ op \in [Requests -> Operations \cup {"none"}]
  /\ pc \in [Requests -> Labels]
  /\ who \in [Requests -> Customers \cup {None}]
  /\ addr \in [Requests -> Ids \cup {None}]
  /\ want \in [Requests -> SUBSET Kinds]
  /\ contended \subseteq Ids

\* A default column only ever names an address that was created for the same
\* customer: UpdateAddress compares the owner once, several statements before
\* it writes the column, and the comparison is still right then.
OwnDefaults ==
  \A c \in Customers, k \in Kinds :
    default[c][k] # None => parent[default[c][k]] = c

\* An address is removed only by a request of its own customer that is past
\* the ownership check of DeleteAddress, and what it says was written in a
\* session of that customer: both checks are made statements before the write.
OnlyOwnerChanges ==
  [][/\ \A a \in stored \ stored' :
          \E r \in Requests :
            pc[r] = "remove" /\ pc'[r] # "remove" /\ who[r] = parent[a]
     /\ \A a \in stored' : writer'[a] = parent'[a]]_vars

\* A deleted address stays deleted and its id is never handed out again,
\* although UpdateAddress may still run its UPDATE after the DELETE.
DeletedStaysDeleted ==
  [][\A a \in Ids : (a < nextId /\ a \notin stored) => a \notin stored']_vars

\* A default column of a customer names a deleted address only when a request
\* that makes it one still had to when DeleteAddress was past its check: the
\* check and the writes of SetDefault are statements apart and in two tables,
\* yet any other order of them leaves no column behind.
DanglingMeansOverlap ==
  \A c \in present, k \in Kinds :
    (default[c][k] # None /\ default[c][k] \notin stored)
      => default[c][k] \in contended \/ faults > 0

(* What the documentation says and the code does not keep.                 *)

\* customer.go: DeleteAddress blocks the deletion of default addresses, so a
\* default column never names an address that is gone.
DefaultsAreStored ==
  \A c \in present, k \in Kinds : default[c][k] \in stored \cup {None}
=============================================================================
