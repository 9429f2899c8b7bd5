---------------------------- MODULE CustomerReads ----------------------------
(***************************************************************************)
(* Two reads of a customer's data: a walk through pages and a question for *)
(* custom attributes.  They share no table, so each behaviour is one of    *)
(* the two, chosen at the start, and the other component rests.            *)
(***************************************************************************)
EXTENDS Pages, CustomAttributes

VARIABLE reading   \* which of the two it is

readsVars == <<walkVars, attributeVars, reading>>

InitReads ==
  /\ WalkInit
  /\ \/ reading = "attributes" /\ AttributesInit /\ list = "addresses"
     \/ /\ reading = "pages"
        /\ stored = [a \in Attributes |-> NoRow] /\ edits = 0
        /\ label = [o \in Options |-> "there"]
        /\ step = "idle" /\ requested = {} /\ unread = {} /\ values = NoValues
        /\ entries = {} /\ outcome = "none" /\ stood = {}

ReadPages == reading = "pages" /\ WalkNext /\ UNCHANGED <<reading, attributeVars>>
ReadAttributes ==
  reading = "attributes" /\ AttributesNext /\ UNCHANGED <<reading, walkVars>>

SpecReads == InitReads /\ [][ReadPages \/ ReadAttributes]_readsVars

\* The variables of both components keep their types.
ReadsTypeOK == WalkTypeOK /\ AttributesTypeOK
=============================================================================
