----------------------------- MODULE SharedMaps -----------------------------
(***************************************************************************)
(* The maps that all requests of the server share: the caches, behind a    *)
(* lock, and the status labels, without one.  No handler holds the one     *)
(* while it uses the other, so each behaviour is of one of them, chosen at *)
(* the start, and the other rests.                                         *)
(***************************************************************************)
EXTENDS ReadThroughCache, StatusLabels

VARIABLE using   \* which of the maps it is

mapsVars == <<vars, labelVars, using>>

InitMaps ==
  /\ Init /\ LabelsInit
  /\ \/ using = "cache" /\ status = [r \in Callers |-> CHOOSE s \in Statuses : TRUE]
     \/ using = "labels" /\ table = [k \in Keys |-> NoValue]

UseCache == using = "cache" /\ Next /\ UNCHANGED <<using, labelVars>>
UseLabels == using = "labels" /\ LabelsNext /\ UNCHANGED <<using, vars>>

SpecMaps == InitMaps /\ [][UseCache \/ UseLabels]_mapsVars

\* The fairness of the cache, where it is used.
FairMaps ==
  /\ SpecMaps
  /\ \A r \in Requests :
       WF_mapsVars(using = "cache" /\ Step(r) /\ UNCHANGED <<using, labelVars>>)
=============================================================================
