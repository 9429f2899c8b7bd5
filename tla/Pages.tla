------------------------------- MODULE Pages -------------------------------
(***************************************************************************)
(* A client that reads a list page by page while the list changes: items   *)
(* of a wishlist (ItemsV2 of graph/schema.resolvers.go over GetItems and   *)
(* CountItems) and addresses (GetAddressesPaginated of                     *)
(* internal/service/customer.go).                                          *)
(*                                                                         *)
(* ItemsV2 leaves the paging to MySQL, newest first, and counts in a later *)
(* statement.  GetAddressesPaginated reads the whole list, oldest first,   *)
(* and cuts the page out of it.  Rows are known by their ids; the seconds  *)
(* of added_at only matter by their order, so a row bears the second of    *)
(* the latest one or the next.                                             *)
(***************************************************************************)
EXTENDS Integers, FiniteSets, FiniteSetsExt, Sequences, SequencesExt

CONSTANTS
  Lists,        \* which of the two lists clients page through
  Sizes,        \* page sizes clients name
  Numbers,      \* page numbers clients start from
  DefaultSize,  \* the page size of items_v2 when none, or none above 0, is named
  MaxRows       \* bound: rows ever stored, and seconds they are stored in

ASSUME ListAssumption == Lists \subseteq {"addresses", "items_v2"}
ASSUME NumberAssumption == Sizes \subseteq Int /\ Numbers \subseteq Int
ASSUME SizeAssumption == DefaultSize \in Nat \ {0}
ASSUME RowsAssumption == MaxRows \in Nat

VARIABLES
  listRows,    \* rows of the list: their ids, and the second each was added in
  nextRow,     \* AUTO_INCREMENT
  list,        \* the list the client reads
  walkPc,      \* the step of its request
  pageSize,
  pageNumber,  \* what it asks for, as the handler uses them
  first,       \* the page the walk began with
  pageCount,   \* total_pages of the last answer
  walkAnswer,  \* how the last request of the walk ended
  walked,      \* ids on the pages of this walk
  twice,       \* ids on more than one page of it
  there,       \* ids stored when the walk began, neither removed nor moved since
  shifted      \* what happened to the list during the walk

walk == <<list, pageSize, pageNumber, first, pageCount, walkAnswer, walked, twice>>
walkVars == <<listRows, nextRow, list, walkPc, pageSize, pageNumber, first,
              pageCount, walkAnswer, walked, twice, there, shifted>>

Ids     == 1..MaxRows
Rows    == [id : Ids, at : Ids]
IdsIn(s) == {row.id : row \in s}
Shifts  == {"inserted", "moved", "removed", "tied"}
Labels  == {"idle", "customer", "list", "count", "answered"}
Answers == {"none", "page", "error", "panic"}

WalkInit ==
  /\ listRows = {} /\ nextRow = 1
  /\ list \in Lists /\ walkPc = "idle"
  /\ pageSize = 0 /\ pageNumber = 0 /\ first = 0 /\ pageCount = 0
  /\ walkAnswer = "none" /\ walked = {} /\ twice = {} /\ there = {} /\ shifted = {}

----------------------------------------------------------------------------
\* The other requests of the customer.

\* NOW(): the second of the latest row, or the next.
Seconds == {at \in Ids : /\ \A row \in listRows : row.at <= at
                         /\ at = 1 \/ \E row \in listRows : at <= row.at + 1}

Shift(how) == shifted' = IF walkPc = "idle" THEN shifted ELSE shifted \cup {how}

InsertRow ==
  /\ nextRow <= MaxRows
  /\ \E at \in Seconds : listRows' = listRows \cup {[id |-> nextRow, at |-> at]}
  /\ nextRow' = nextRow + 1
  /\ Shift("inserted")
  /\ UNCHANGED <<walk, walkPc, there>>

\* A product that is in the wishlist is added again: UPDATE ... added_at = NOW()
\* takes its row to the front.
MoveRow ==
  /\ list = "items_v2"
  /\ \E row \in listRows, at \in Seconds :
       /\ listRows' = (listRows \ {row}) \cup {[id |-> row.id, at |-> at]}
       /\ there' = there \ {row.id}
  /\ Shift("moved")
  /\ UNCHANGED <<walk, walkPc, nextRow>>

RemoveRow ==
  /\ \E row \in listRows :
       /\ listRows' = listRows \ {row}
       /\ there' = there \ {row.id}
  /\ Shift("removed")
  /\ UNCHANGED <<walk, walkPc, nextRow>>

----------------------------------------------------------------------------
\* The client.

\* Mutant: numbers are taken as the client sent them.
Unclamped(n, default) == n
\* What ItemsV2 makes of a number that is not above 0.
Clamped(n, default) == IF n > 0 THEN n ELSE default

Request(s, n) ==
  /\ pageSize' = IF list = "items_v2" THEN Clamped(s, DefaultSize) ELSE s
  /\ pageNumber' = IF list = "items_v2" THEN Clamped(n, 1) ELSE n
  /\ walkPc' = IF list = "items_v2" THEN "list" ELSE "customer"

\* A walk begins with any page ...
Begin ==
  /\ walkPc = "idle"
  /\ \E s \in Sizes, n \in Numbers : Request(s, n)
  /\ first' = pageNumber' /\ there' = IdsIn(listRows)
  /\ pageCount' = 0 /\ walkAnswer' = "none" /\ walked' = {} /\ twice' = {}
  /\ shifted' = {}
  /\ UNCHANGED <<listRows, nextRow, list>>

\* ... and goes on while the answer says that there are more pages.
NextPage ==
  /\ walkPc = "answered" /\ walkAnswer = "page" /\ pageNumber < pageCount
  /\ Request(pageSize, pageNumber + 1)
  /\ UNCHANGED <<listRows, nextRow, list, first, pageCount, walkAnswer, walked,
                 twice, there, shifted>>

Leave ==
  /\ walkPc = "answered"
  /\ walkPc' = "idle" /\ walkAnswer' = "none" /\ pageCount' = 0
  /\ pageSize' = 0 /\ pageNumber' = 0 /\ first' = 0
  /\ walked' = {} /\ twice' = {} /\ there' = {} /\ shifted' = {}
  /\ UNCHANGED <<listRows, nextRow, list>>

----------------------------------------------------------------------------
\* The handlers.

Answer(how) == walkPc' = "answered" /\ walkAnswer' = how

\* A statement that fails ends the request, and the walk with it.
Fail ==
  /\ walkPc \in {"customer", "list", "count"}
  /\ Answer("error")
  /\ UNCHANGED <<listRows, nextRow, list, pageSize, pageNumber, first, pageCount,
                 walked, twice, there, shifted>>

\* The customer is read for its defaults.
ReadCustomer ==
  /\ walkPc = "customer" /\ walkPc' = "list"
  /\ UNCHANGED <<listRows, nextRow, walk, there, shifted>>

Show(ids) ==
  /\ walked' = walked \cup ids
  /\ twice' = twice \cup (walked \cap ids)

\* ORDER BY entity_id, and ORDER BY added_at DESC, where MySQL may put rows of
\* one second in any order, another one each time.
Before(a, b) == IF list = "addresses" THEN a.id < b.id ELSE a.at >= b.at
Sorted == {s \in SetToSeqs(listRows) :
             \A i, j \in DOMAIN s : i < j => Before(s[i], s[j])}
Ties == \E a, b \in listRows : a # b /\ a.at = b.at

\* LIMIT size OFFSET (page - 1) * size.
Offset == (pageNumber - 1) * pageSize

SelectItems ==
  /\ walkPc = "list" /\ list = "items_v2"
  /\ \E s \in Sorted :
       Show({s[i].id : i \in {j \in DOMAIN s : Offset < j /\ j <= Offset + pageSize}})
  /\ shifted' = IF Ties THEN shifted \cup {"tied"} ELSE shifted
  /\ walkPc' = "count"
  /\ UNCHANGED <<listRows, nextRow, list, pageSize, pageNumber, first, pageCount,
                 walkAnswer, there>>

\* Mutant: a page that is not full is not counted.
CountFullPages ==
  /\ walkPc = "count"
  /\ pageCount' = LET full == Cardinality(listRows) \div pageSize IN
                  IF full = 0 THEN 1 ELSE full
  /\ Answer("page")
  /\ UNCHANGED <<listRows, nextRow, list, pageSize, pageNumber, first, walked, twice,
                 there, shifted>>

CountRows ==
  /\ walkPc = "count"
  /\ pageCount' = LET pages == (Cardinality(listRows) + pageSize - 1) \div pageSize IN
                  IF pages = 0 THEN 1 ELSE pages
  /\ Answer("page")
  /\ UNCHANGED <<listRows, nextRow, list, pageSize, pageNumber, first, walked, twice,
                 there, shifted>>

AtMost(n, bound) == IF n > bound THEN bound ELSE n

\* math.Ceil of a division by zero is infinite, or not a number; converted to an
\* integer both are the smallest one on amd64.  0 and below 0 are all the same
\* to a client that looks for more pages.
PagesOf(n) ==
  IF pageSize = 0 THEN 0
  ELSE IF pageSize > 0 THEN (n + pageSize - 1) \div pageSize
  ELSE -(n \div (-pageSize))

\* Mutant: the start of the page is not held within the list.
CutUnheld ==
  /\ walkPc = "list" /\ list = "addresses"
  /\ \E s \in Sorted :
       LET start == (pageNumber - 1) * pageSize
           end   == AtMost(start + pageSize, Len(s))
       IN  IF 0 <= start /\ start <= end
           THEN /\ Show({s[i].id : i \in (start + 1)..end})
                /\ pageCount' = PagesOf(Len(s))
                /\ Answer("page")
           ELSE Answer("panic") /\ UNCHANGED <<pageCount, walked, twice>>
  /\ UNCHANGED <<listRows, nextRow, list, pageSize, pageNumber, first, there, shifted>>

\* allAddrs[start:end]: Go panics when a bound is below 0, or start above end.
CutPage ==
  /\ walkPc = "list" /\ list = "addresses"
  /\ \E s \in Sorted :
       LET start == AtMost((pageNumber - 1) * pageSize, Len(s))
           end   == AtMost(start + pageSize, Len(s))
       IN  IF 0 <= start /\ start <= end
           THEN /\ Show({s[i].id : i \in (start + 1)..end})
                /\ pageCount' = PagesOf(Len(s))
                /\ Answer("page")
           ELSE Answer("panic") /\ UNCHANGED <<pageCount, walked, twice>>
  /\ UNCHANGED <<listRows, nextRow, list, pageSize, pageNumber, first, there, shifted>>

WalkNext ==
  \/ InsertRow \/ MoveRow \/ RemoveRow
  \/ Begin \/ NextPage \/ Leave
  \/ Fail \/ ReadCustomer \/ SelectItems \/ CountRows \/ CutPage

WalkSpec == WalkInit /\ [][WalkNext]_walkVars

----------------------------------------------------------------------------
\* The variables keep their types, and the step of a request fits its list.
WalkTypeOK ==
  /\ listRows \subseteq Rows /\ nextRow \in 1..(MaxRows + 1)
  /\ list \in Lists /\ walkPc \in Labels /\ walkAnswer \in Answers
  /\ pageSize \in Int /\ pageNumber \in Int /\ first \in Int /\ pageCount \in Int
  /\ walked \subseteq Ids /\ twice \subseteq walked /\ there \subseteq Ids
  /\ shifted \subseteq Shifts
  /\ walkPc = "customer" => list = "addresses"
  /\ walkPc = "count" => list = "items_v2" /\ pageSize > 0 /\ pageNumber > 0

\* GetAddressesPaginated cuts out of range (customer.go:837) only when the client
\* named a page below 1 or a size below 0, never for a page beyond the end of a
\* list that has become shorter.
PanicMeansNamedBelow ==
  walkAnswer = "panic" => pageNumber < 1 \/ pageSize < 0

\* A walk shows a row twice only among the items of a wishlist, and only when one
\* was added during it, one was added again (wishlist.go:177), or two of them bear
\* the same second (wishlist.go:127 sorts by the second alone).
TwiceMeansShift ==
  twice # {} => list = "items_v2" /\ shifted \cap {"inserted", "moved", "tied"} # {}

\* A walk from the first page to the last answered without an error misses a row
\* that stayed where it was only when another row was removed, or, in a wishlist,
\* when two items bear the same second; other items that are added again push it
\* back and never past the walk.  An item that is itself added again goes to the
\* front, which the walk may have behind it: it is no longer in "there".  The count
\* taken in a later statement than the page (schema.resolvers.go:332) does not end
\* a walk too early.
WalkedToTheEnd == walkPc = "answered" /\ walkAnswer = "page" /\ pageNumber >= pageCount
MissedMeansShift ==
  WalkedToTheEnd /\ first = 1 /\ pageSize > 0 /\ ~(there \subseteq walked) =>
    \/ "removed" \in shifted
    \/ list = "items_v2" /\ "tied" \in shifted

\* So a walk through the pages shows every row that neither left its place nor lost
\* it to a removal or a tie, and shows a row twice only when rows moved under it.
OnceUnlessShifted == TwiceMeansShift /\ MissedMeansShift
=============================================================================
