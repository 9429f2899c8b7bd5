---------------------------- MODULE StatusLabels ----------------------------
(***************************************************************************)
(* The status labels of orders: GetStatusLabel and loadStatusLabels of     *)
(* internal/repository/order.go.                                           *)
(*                                                                         *)
(* One OrderRepository serves all requests, and the goroutine of each maps *)
(* its orders through the same map of labels and the same flag, with no    *)
(* lock.  A write of the map overlapping another access is a data race:    *)
(* the runtime may notice it and abort the process ("concurrent map        *)
(* writes", "concurrent map read and map write").                          *)
(***************************************************************************)
EXTENDS Integers, FiniteSets

CONSTANTS
  Callers,         \* requests the server handles at the same time
  Statuses,        \* rows of sales_order_status
  MaxFaults        \* bound: statements that fail or break off

ASSUME BoundAssumption == MaxFaults \in Nat

VARIABLES
  statusLoaded,    \* the flag
  statusLabels,    \* statuses that have an entry in the map
  up,              \* is the process running?
  raced,           \* has a write of the map overlapped another access?
  faults,
  labelPc,         \* next step of each request
  status,          \* the status it wants the label of
  unread,          \* rows its SELECT has still to return
  labelAnswer      \* "label", "code", or "none" before its first answer

labelVars == <<statusLoaded, statusLabels, up, raced, faults, labelPc, status,
               unread, labelAnswer>>

LabelsInit ==
  /\ statusLoaded = FALSE /\ statusLabels = {} /\ faults = 0
  /\ up = TRUE /\ raced = FALSE
  /\ labelPc = [r \in Callers |-> "idle"]
  /\ status \in [Callers -> Statuses]
  /\ unread = [r \in Callers |-> {}]
  /\ labelAnswer = [r \in Callers |-> "none"]

GotoLabel(r, label) == labelPc' = [labelPc EXCEPT ![r] = label]

\* A write of the map overlaps another access.
Race ==
  \E r, s \in Callers :
    r # s /\ labelPc[r] = "store" /\ labelPc[s] \in {"store", "read"}

----------------------------------------------------------------------------
Fault == faults < MaxFaults /\ faults' = faults + 1

\* mapOrder asks for the label of an order.
Call(r) ==
  /\ labelPc[r] = "idle"
  /\ \E s \in Statuses : status' = [status EXCEPT ![r] = s]
  /\ GotoLabel(r, "check")
  /\ UNCHANGED <<statusLoaded, statusLabels, up, raced, faults, unread, labelAnswer>>

\* Mutant: the flag is set at once, so that the table is read only once.
CheckAndMark(r) ==
  /\ labelPc[r] = "check" /\ statusLoaded' = TRUE
  /\ GotoLabel(r, IF statusLoaded THEN "lookup" ELSE "query")
  /\ UNCHANGED <<statusLabels, up, raced, faults, status, unread, labelAnswer>>

CheckLoaded(r) ==
  /\ labelPc[r] = "check"
  /\ GotoLabel(r, IF statusLoaded THEN "lookup" ELSE "query")
  /\ UNCHANGED <<statusLoaded, statusLabels, up, raced, faults, status, unread,
                 labelAnswer>>

\* SELECT status, label FROM sales_order_status.  When it fails the flag is
\* set all the same.
QueryLabels(r) ==
  /\ labelPc[r] = "query"
  /\ \/ /\ unread' = [unread EXCEPT ![r] = Statuses] /\ GotoLabel(r, "scan")
        /\ UNCHANGED <<statusLoaded, faults>>
     \/ /\ Fault /\ statusLoaded' = TRUE /\ GotoLabel(r, "lookup")
        /\ UNCHANGED unread
  /\ UNCHANGED <<statusLabels, up, raced, status, labelAnswer>>

\* rows.Next() is false after the last row, and when the connection breaks:
\* nobody looks at rows.Err().
EndOfRows(r) ==
  /\ labelPc[r] = "scan"
  /\ \/ unread[r] = {} /\ UNCHANGED faults
     \/ unread[r] # {} /\ Fault
  /\ unread' = [unread EXCEPT ![r] = {}]
  /\ statusLoaded' = TRUE /\ GotoLabel(r, "lookup")
  /\ UNCHANGED <<statusLabels, up, raced, status, labelAnswer>>

\* r.statusLabels[status] = label takes a while.
BeginStore(r) ==
  /\ labelPc[r] = "scan" /\ unread[r] # {} /\ GotoLabel(r, "store")
  /\ raced' = (raced \/ Race')
  /\ UNCHANGED <<statusLoaded, statusLabels, up, faults, status, unread, labelAnswer>>

EndStore(r) ==
  /\ labelPc[r] = "store" /\ GotoLabel(r, "scan")
  /\ \E s \in unread[r] :
       /\ statusLabels' = statusLabels \cup {s}
       /\ unread' = [unread EXCEPT ![r] = @ \ {s}]
  /\ UNCHANGED <<statusLoaded, up, raced, faults, status, labelAnswer>>

BeginLookup(r) ==
  /\ labelPc[r] = "lookup" /\ GotoLabel(r, "read")
  /\ raced' = (raced \/ Race')
  /\ UNCHANGED <<statusLoaded, statusLabels, up, faults, status, unread, labelAnswer>>

\* The label, or the status itself when there is none.  A map that was written
\* during another access may miss any entry.
EndLookup(r) ==
  /\ labelPc[r] = "read" /\ GotoLabel(r, "idle")
  /\ \E hit \in BOOLEAN :
       /\ ~raced => hit
       /\ labelAnswer' = [labelAnswer EXCEPT ![r] =
            IF hit /\ status[r] \in statusLabels THEN "label" ELSE "code"]
  /\ UNCHANGED <<statusLoaded, statusLabels, up, raced, faults, status, unread>>

\* The runtime notices a race.
Abort ==
  /\ Race /\ up' = FALSE
  /\ UNCHANGED <<statusLoaded, statusLabels, raced, faults, labelPc, status, unread,
                 labelAnswer>>

LabelStep(r) ==
  \/ Call(r) \/ CheckLoaded(r) \/ QueryLabels(r) \/ EndOfRows(r)
  \/ BeginStore(r) \/ EndStore(r) \/ BeginLookup(r) \/ EndLookup(r)

LabelsNext == up /\ (Abort \/ \E r \in Callers : LabelStep(r))

LabelsSpec == LabelsInit /\ [][LabelsNext]_labelVars
----------------------------------------------------------------------------
(* Correctness.                                                            *)

\* The variables keep their types, and rows are left unread only while a SELECT
\* is scanned.
LabelsTypeOK ==
  /\ statusLoaded \in BOOLEAN /\ up \in BOOLEAN /\ raced \in BOOLEAN
  /\ statusLabels \subseteq Statuses
  /\ faults \in 0..MaxFaults
  /\ labelPc \in [Callers -> {"idle", "check", "query", "scan", "store", "lookup",
                             "read"}]
  /\ status \in [Callers -> Statuses]
  /\ unread \in [Callers -> SUBSET Statuses]
  /\ labelAnswer \in [Callers -> {"none", "label", "code"}]
  /\ \A r \in Callers : unread[r] # {} => labelPc[r] \in {"scan", "store"}

\* Without failures and races every status that has a label in the table is
\* answered with it, although several requests may fill the map in turn and
\* others look at the flag only: nobody sees the flag before the last row is
\* stored.
ResolvedUnlessFailed ==
  faults = 0 /\ ~raced => \A r \in Callers : labelAnswer[r] # "code"

\* The variables keep their types, and a label is never answered by its code
\* unless a statement has failed or the map was raced for (order.go:197).
LabelsOK == LabelsTypeOK /\ ResolvedUnlessFailed
=============================================================================
