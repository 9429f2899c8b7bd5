---------------------------- MODULE OrderHistory ----------------------------
(***************************************************************************)
(* Customer.orders: OrderService.GetOrders of internal/service/orders.go   *)
(* and the statements of internal/repository/order.go it runs.             *)
(*                                                                         *)
(* A page of orders takes a COUNT, a SELECT of the page, seven loads that  *)
(* run at the same time under an errgroup, and up to four loads of the     *)
(* lines of the documents found.  There is no transaction: between any two *)
(* of these statements the shop stores orders and documents, and changes   *)
(* what the filter looks at, so that orders leave the match and come back. *)
(* Requests share nothing but the tables they read, so one request at a    *)
(* time shows all there is.  Status labels, which they do share, are in    *)
(* StatusLabels.                                                           *)
(***************************************************************************)
EXTENDS Integers, Sequences, FiniteSets, SequencesExt, Functions

CONSTANTS
  OrderIds,        \* orders the customer may place
  PageSizes,       \* page sizes clients ask for
  PageNumbers,     \* pages clients ask for
  MaxChanges,      \* bound: what the shop stores or changes
  MaxFaults        \* bound: statements that return an error

ASSUME PagingAssumption == PageSizes \subseteq Int /\ PageNumbers \subseteq Int
ASSUME BoundAssumption == MaxChanges \in Nat /\ MaxFaults \in Nat

Documents == {"invoices", "shipments", "creditmemos"}
Parts     == Documents \cup {"items", "addresses", "payments", "comments"}
LineStages == <<"invoice items", "shipment items", "shipment tracks",
                "credit memo items">>
LineKinds  == ToSet(LineStages)
DocumentOf == [k \in LineKinds |->
                 CASE k = "invoice items" -> "invoices"
                   [] k = "credit memo items" -> "creditmemos"
                   [] OTHER -> "shipments"]

VARIABLES
  matching,   \* orders that match the filter, in the order of the sort
  rows,       \* rows of each order and part
  changes, faults,
  pc,         \* next step of the request
  page, size, \* what it asked for
  total,      \* its COUNT(*)
  shown,      \* the orders of its page
  load,       \* state of each of the seven loads
  seen,       \* what they returned
  stage,      \* next load of lines
  lines,      \* documents whose lines were loaded, by kind of line
  answer,
  floorRows,        \* history: the rows stored when it was asked
  counts, matched   \* history: how many orders, and which, matched since then

shop == <<matching, rows, changes>>
ask  == <<page, size, floorRows>>
since == <<counts, matched>>
vars == <<matching, rows, changes, faults, pc, page, size, total, shown,
          load, seen, stage, lines, answer, floorRows, counts, matched>>

Promise == INSTANCE OrderAnswer WITH open <- pc # "idle"

LoadStates == {"off", "running", "ok", "failed"}
NotLoaded  == [p \in Parts |-> "off"]

Init ==
  /\ matching = <<>> /\ rows = Promise!NoRows /\ changes = 0 /\ faults = 0
  /\ pc = "idle" /\ page = 1 /\ size = 1 /\ total = 0 /\ shown = <<>>
  /\ load = NotLoaded /\ seen = Promise!NoRows /\ stage = 1
  /\ lines = Promise!NoLines
  /\ answer = Promise!Nothing
  /\ floorRows = Promise!NoRows /\ counts = {} /\ matched = {}

----------------------------------------------------------------------------
\* A statement that reads succeeds or returns an error.
Read(ok) ==
  (ok \/ faults < MaxFaults) /\ faults' = IF ok THEN faults ELSE faults + 1

\* The sort is read by one statement of a request, so it does not matter whether an
\* order that comes back takes the place it had.
ComeToMatch(o) == \E i \in 1..Len(matching) + 1 : matching' = InsertAt(matching, i, o)

Placed == {o \in OrderIds : rows[o]["items"] > 0}

\* The shop commits an order with its items, addresses and payment, or a row
\* of an order already placed; a document and its lines are one transaction.
StoreOrder ==
  \E o \in OrderIds \ (Placed \cup ToSet(matching)) :
    /\ ComeToMatch(o) \/ UNCHANGED matching
    /\ rows' = [rows EXCEPT ![o] = [p \in Parts |->
         IF p \in {"items", "addresses", "payments"} THEN 1 ELSE 0]]

StoreRow ==
  /\ \E o \in Placed, p \in Documents \cup {"comments"} :
       rows' = [rows EXCEPT ![o][p] = @ + 1]
  /\ UNCHANGED matching

\* The status of an order changes, and with it whether a filter by status finds it.
ChangeStatus ==
  /\ \/ \E o \in Placed \ ToSet(matching) : ComeToMatch(o)
     \/ \E i \in DOMAIN matching : matching' = RemoveAt(matching, i)
  /\ UNCHANGED rows

Shop ==
  /\ changes < MaxChanges /\ changes' = changes + 1
  /\ StoreOrder \/ StoreRow \/ ChangeStatus
  /\ IF pc = "idle" THEN UNCHANGED since
     ELSE /\ counts' = counts \cup {Len(matching')}
          /\ matched' = matched \cup ToSet(matching')
  /\ UNCHANGED <<faults, pc, ask, total, shown, load, seen, stage, lines,
                 answer>>

Reply(a) ==
  /\ pc' = "idle" /\ answer' = a
  /\ total' = 0 /\ shown' = <<>> /\ load' = NotLoaded
  /\ seen' = Promise!NoRows /\ stage' = 1 /\ lines' = Promise!NoLines
  /\ UNCHANGED <<shop, ask, since>>

Failure == [Promise!Nothing EXCEPT !.kind = "error"]

Ask ==
  /\ pc = "idle" /\ pc' = "count"
  /\ size' \in PageSizes /\ page' \in PageNumbers
  /\ floorRows' = rows /\ counts' = {Len(matching)} /\ matched' = ToSet(matching)
  /\ answer' = Promise!Nothing
  /\ UNCHANGED <<shop, faults, total, shown, load, seen, stage, lines>>

CountOrders ==
  /\ pc = "count"
  /\ \/ /\ Read(TRUE) /\ total' = Len(matching) /\ pc' = "page"
        /\ UNCHANGED <<shop, ask, since, shown, load, seen, stage, lines, answer>>
     \/ Read(FALSE) /\ Reply(Failure)

\* LIMIT and OFFSET; MySQL refuses a statement where one is negative.
PageOf(s, number, length) ==
  LET offset == (number - 1) * length
      last   == offset + length
  IN  SubSeq(s, offset + 1, IF last < Len(s) THEN last ELSE Len(s))

\* An empty page is answered at once, with a total of zero.  Otherwise the
\* seven goroutines are started.
SelectPage ==
  /\ pc = "page"
  /\ \E ok \in BOOLEAN :
       /\ Read(ok)
       /\ IF ~ok \/ size < 0 \/ (page - 1) * size < 0
          THEN Reply(Failure)
          ELSE LET orders == PageOf(matching, page, size) IN
               IF orders = <<>>
               THEN Reply([Promise!Nothing EXCEPT !.kind = "ok"])
               ELSE /\ shown' = orders /\ pc' = "loads"
                    /\ load' = [p \in Parts |-> "running"]
                    /\ UNCHANGED <<shop, ask, since, total, seen, stage, lines,
                                   answer>>

Failed == \E p \in Parts : load[p] = "failed"

\* The rows of one kind of all orders of the page, in one SELECT.
Loaded(p) ==
  [o \in OrderIds |-> IF o \in ToSet(shown)
                      THEN [seen[o] EXCEPT ![p] = rows[o][p]] ELSE seen[o]]

\* Mutant: a load retries for ever when the context is cancelled.
LoadRetrying(p) ==
  /\ pc = "loads" /\ load[p] = "running"
  /\ \/ /\ ~Failed /\ Read(TRUE) /\ load' = [load EXCEPT ![p] = "ok"]
        /\ seen' = Loaded(p)
     \/ /\ ~Failed /\ Read(FALSE)
        /\ load' = [load EXCEPT ![p] = "failed"] /\ UNCHANGED seen
     \/ Failed /\ UNCHANGED <<faults, load, seen>>
  /\ UNCHANGED <<shop, pc, ask, since, total, shown, stage, lines, answer>>

\* One of the seven loads returns.  The first error cancels the context of the
\* others, which then may fail too or be done already.
Load(p) ==
  /\ pc = "loads" /\ load[p] = "running"
  /\ \/ /\ Read(TRUE) /\ load' = [load EXCEPT ![p] = "ok"]
        /\ seen' = Loaded(p)
     \/ /\ IF Failed THEN UNCHANGED faults ELSE Read(FALSE)
        /\ load' = [load EXCEPT ![p] = "failed"] /\ UNCHANGED seen
  /\ UNCHANGED <<shop, pc, ask, since, total, shown, stage, lines, answer>>

\* Mutant: the request goes on as soon as a load fails.
WaitForFirstError ==
  /\ pc = "loads" /\ (Failed \/ \A p \in Parts : load[p] = "ok")
  /\ IF Failed
     THEN /\ pc' = "idle" /\ answer' = Failure
          /\ UNCHANGED <<shop, ask, since, total, shown, load, seen, stage, lines>>
     ELSE /\ pc' = "lines"
          /\ UNCHANGED <<shop, ask, since, total, shown, load, seen, stage, lines,
                         answer>>
  /\ UNCHANGED faults

\* g.Wait(): all goroutines have returned; one error is enough to fail.
Wait ==
  /\ pc = "loads" /\ \A p \in Parts : load[p] \in {"ok", "failed"}
  /\ IF Failed THEN Reply(Failure)
     ELSE /\ pc' = "lines"
          /\ UNCHANGED <<shop, ask, since, total, shown, load, seen, stage, lines,
                         answer>>
  /\ UNCHANGED faults

\* The documents found, as (order, number) pairs.
Found(k) ==
  UNION {{o} \X (1..seen[o][DocumentOf[k]]) : o \in ToSet(shown)}

\* Mutant: tracks are loaded when there are invoices.
GateByInvoices(k) ==
  IF k = "shipment tracks" THEN Found("invoice items") = {} ELSE Found(k) = {}

\* Lines are loaded only when there is a document to load them for.
Gate(k) == Found(k) = {}

LoadLines ==
  /\ pc = "lines"
  /\ LET k == LineStages[stage] IN
     \E ok \in BOOLEAN :
       /\ Gate(k) => ok
       /\ Read(ok)
       /\ IF ~ok THEN Reply(Failure)
          ELSE /\ lines' = IF Gate(k) THEN lines
                           ELSE [lines EXCEPT ![k] = Found(k)]
               /\ stage' = stage + 1
               /\ pc' = IF stage = Len(LineStages) THEN "map" ELSE "lines"
               /\ UNCHANGED <<shop, ask, since, total, shown, load, seen, answer>>

\* Mutant: the last, partial page is not counted.
FullPages(count, length) == count \div length

PagesFor(count, length) == (count + length - 1) \div length

\* The orders of the page with their parts, and each document with its lines.
\* (Comments without a text are dropped: a row of comments stands for one
\* that has a text.)
Mapped(pages) == Promise!Answer("ok", shown, seen, lines, total, pages)

\* The orders are mapped and the pages counted.
MapOrders ==
  /\ pc = "map"
  /\ Reply(IF size = 0 THEN [Promise!Nothing EXCEPT !.kind = "panic"]
           ELSE Mapped(PagesFor(total, size)))
  /\ UNCHANGED faults

Work ==
  \/ CountOrders \/ SelectPage \/ Wait \/ LoadLines \/ MapOrders
  \/ \E p \in Parts : Load(p)

Next == Shop \/ Ask \/ Work

\* net/http runs the handler and the errgroup its goroutines until they
\* return; a statement returns or fails with its context.
Fairness == WF_vars(Work)

Spec == Init /\ [][Next]_vars
FairSpec == Spec /\ Fairness
----------------------------------------------------------------------------
(* Correctness.                                                            *)

\* The variables keep their types, and rows are held only of orders of the page.
TypeOK ==
  /\ ToSet(matching) \subseteq OrderIds /\ IsInjective(matching)
  /\ rows \in [OrderIds -> [Parts -> 0..MaxChanges]]
  /\ changes \in 0..MaxChanges /\ faults \in 0..MaxFaults
  /\ pc \in {"idle", "count", "page", "loads", "lines", "map"}
  /\ total \in 0..MaxChanges
  /\ counts \subseteq 0..MaxChanges /\ matched \subseteq OrderIds
  /\ ToSet(shown) \subseteq matched /\ IsInjective(shown)
  /\ load \in [Parts -> LoadStates]
  /\ seen \in [OrderIds -> [Parts -> 0..MaxChanges]]
  /\ \A o \in OrderIds, p \in Parts :
       seen[o][p] > 0 => o \in ToSet(shown) /\ load[p] = "ok"
  /\ stage \in 1..Len(LineStages) + 1
  /\ answer.kind \in {"none", "ok", "error", "panic"}

\* The whole of GetOrders does what OrderAnswer says: an answer that is not
\* an error has all seven parts of each order, no document without its lines,
\* and a count taken while the request ran.  OrderHistory implements it with
\* up to thirteen statements and no transaction.
ImplementsOrderAnswer == Promise!Spec

\* GetOrders divides by the page size, which clients choose: the division is
\* reached only with a page that is not empty, and so never with size zero.  A
\* page that is answered with orders lies within the pages it counts, and only the
\* last one may be short, unless orders came to match or ceased to while they were
\* counted and read.
PageWithinPages ==
  /\ answer.kind # "panic"
  /\ (answer.kind = "ok" /\ answer.orders # <<>> /\ counts = {answer.total}) =>
       /\ page \in 1..answer.pages
       /\ page < answer.pages => Len(answer.orders) = size
       /\ Len(answer.orders) + (page - 1) * size <= answer.total

\* Every request is answered: neither the fan-out nor the stages after it
\* wait for something that does not come.
Answered == pc # "idle" ~> pc = "idle"
=============================================================================
