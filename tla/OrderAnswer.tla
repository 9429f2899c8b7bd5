---------------------------- MODULE OrderAnswer ----------------------------
(***************************************************************************)
(* What a customer may rely on when asking for a page of orders: an error, *)
(* or orders that matched at some time since the question was asked, with  *)
(* everything that was stored for them then and nothing that is not stored *)
(* when it is answered, documents (invoices, shipments, credit memos) that *)
(* are never without their lines, and a number of orders that was right at *)
(* some time in between.                                                   *)
(*                                                                         *)
(* Rows of an order are only ever added, so the rows of one kind that one  *)
(* order has are known by their number.                                    *)
(***************************************************************************)
EXTENDS Integers, Sequences, SequencesExt, Functions

CONSTANTS
  OrderIds,        \* orders of the customer
  Parts,           \* kinds of rows an order has
  LineKinds,       \* kinds of rows a document has
  DocumentOf       \* the kind of document each of them belongs to

VARIABLES
  matching,   \* orders that match the filter, in the order of the sort
  rows,       \* rows of each order and part
  open,       \* is there a question that has no answer yet?
  floorRows,  \* what was stored when it was asked
  counts,     \* how many orders matched since then, while it was open
  matched,    \* and which
  answer

vars == <<matching, rows, open, floorRows, counts, matched, answer>>

NoRows  == [o \in OrderIds |-> [p \in Parts |-> 0]]
NoLines == [k \in LineKinds |-> {}]
Answer(kind, orders, parts, lines, total, pages) ==
  [kind |-> kind, orders |-> orders, parts |-> parts, lines |-> lines,
   total |-> total, pages |-> pages]
Nothing == Answer("none", <<>>, NoRows, NoLines, 0, 0)

Init ==
  /\ matching = <<>> /\ rows = NoRows
  /\ open = FALSE /\ floorRows = NoRows /\ counts = {} /\ matched = {}
  /\ answer = Nothing

\* The shop stores something: rows are added, orders come to match or cease to.
Store ==
  /\ \A o \in OrderIds, p \in Parts : rows[o][p] <= rows'[o][p]
  /\ counts' = IF open THEN counts \cup {Len(matching')} ELSE counts
  /\ matched' = IF open THEN matched \cup ToSet(matching') ELSE matched
  /\ UNCHANGED <<open, floorRows, answer>>

Ask ==
  /\ ~open /\ open' = TRUE
  /\ floorRows' = rows /\ counts' = {Len(matching)} /\ matched' = ToSet(matching)
  /\ answer' = Nothing /\ UNCHANGED <<matching, rows>>

\* The documents of the kind that line kind k belongs to.
DocumentsShown(a, k) ==
  UNION {{o} \X (1..a.parts[o][DocumentOf[k]]) : o \in ToSet(a.orders)}

Complete(a) ==
  /\ \A o \in ToSet(a.orders), p \in Parts :
       floorRows[o][p] <= a.parts[o][p] /\ a.parts[o][p] <= rows[o][p]
  /\ \A k \in LineKinds : a.lines[k] = DocumentsShown(a, k)

\* An empty page answers a total of zero whatever the number of orders.
CountedRight(a) ==
  \/ a.total \in counts
  \/ a.orders = <<>> /\ a.total = 0

Respond ==
  /\ open /\ open' = FALSE
  /\ \/ answer'.kind = "error"
     \/ /\ answer'.kind = "ok"
        /\ ToSet(answer'.orders) \subseteq matched
        /\ IsInjective(answer'.orders)
        /\ Complete(answer') /\ CountedRight(answer')
  /\ UNCHANGED <<matching, rows, floorRows, counts, matched>>

Next == Store \/ Ask \/ Respond

Spec == Init /\ [][Next]_vars
=============================================================================
