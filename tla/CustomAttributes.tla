-------------------------- MODULE CustomAttributes --------------------------
(***************************************************************************)
(* The custom attributes of a customer or an address: GetCustomAttributes  *)
(* of internal/service/customer.go, resolveSelectOptions of mapper.go, and *)
(* GetValuesForEntity and GetOptionLabels of                               *)
(* internal/repository/eav_attribute.go.                                   *)
(*                                                                         *)
(* The values of an entity are spread over one table per backend type, and *)
(* a select attribute stores the ids of its options, whose labels are in   *)
(* yet another table: a question takes one statement for each of them,     *)
(* while the shop goes on editing.  The attributes themselves are cached   *)
(* (ReadThroughCache) and do not change here.                              *)
(***************************************************************************)
EXTENDS AttributeMetadata, Naturals

Tables == {"varchar", "int", "text", "decimal", "datetime"}
\* What the value column holds: option ids separated by commas, or a text, which
\* is a set as well so that the two can be compared.
ValuesOf(a) == IF a \in Selects THEN SUBSET OptionsOf[a] ELSE Texts
Contents == {f \in [Attributes -> {NoRow, Null} \cup (SUBSET Options) \cup Texts] :
               \A a \in Attributes : f[a] \in {NoRow, Null} \cup ValuesOf(a)}
LabelStates == {"there", "null", "gone"}

VARIABLES
  stored,   \* the value of each attribute for the entity
  edits,    \* edits so far
  label,    \* of each option: is its label there, NULL, or the option gone?
  step,     \* the next statement of the request
  requested,\* attributeCodes, empty for all
  unread,   \* backend types whose table is still to be read
  values,   \* the values read so far
  entries,  \* what the answer holds so far
  outcome,  \* how the request ended
  stood     \* history: attributes of those tables with one value since the question

attributeVars == <<stored, label, edits, step, requested, unread, values, entries,
                   outcome, stood>>

NoValues == [a \in {} |-> NoRow]

AttributesInit ==
  /\ stored \in Contents /\ label \in [Options -> LabelStates] /\ edits = 0
  /\ step = "idle" /\ requested = {} /\ unread = {} /\ values = NoValues
  /\ entries = {} /\ outcome = "none" /\ stood = {}

----------------------------------------------------------------------------
\* The shop.

Edit == edits < MaxEdits /\ edits' = edits + 1

StoreValue(a) ==
  /\ Edit
  /\ \E v \in {NoRow, Null} \cup ValuesOf(a) :
       v # stored[a] /\ stored' = [stored EXCEPT ![a] = v]
  /\ stood' = stood \ {a}
  /\ UNCHANGED <<label, step, requested, unread, values, entries, outcome>>

EditOption(o) ==
  /\ Edit /\ label[o] # "gone"
  /\ \E l \in LabelStates \ {label[o]} : label' = [label EXCEPT ![o] = l]
  /\ UNCHANGED <<stored, step, requested, unread, values, entries, outcome, stood>>

----------------------------------------------------------------------------
\* A question.

\* Backend types outside the list are skipped.
AskAttributes ==
  /\ step = "idle"
  /\ \E codes \in SUBSET Attributes : requested' = codes
  /\ unread' = {TableOf[a] : a \in Attributes} \cap Tables
  /\ values' = NoValues /\ entries' = {} /\ outcome' = "none"
  /\ stood' = {a \in Attributes :
                 TableOf[a] \in Tables /\ stored[a] \notin {NoRow, Null}}
  /\ step' = "values"
  /\ UNCHANGED <<stored, label, edits>>

\* Any failure is logged and answered with no attributes at all.
AnswerEmpty ==
  /\ step' = "idle" /\ outcome' = "failed" /\ entries' = {}
  /\ values' = NoValues /\ unread' = {}

ReadFails ==
  /\ step = "values" /\ unread # {} /\ AnswerEmpty
  /\ UNCHANGED <<stored, label, edits, requested, stood>>

RowsOf(t) == {a \in Attributes : TableOf[a] = t /\ stored[a] # NoRow}

\* One table after the other, in the order of a Go map.  A NULL cannot be
\* scanned into a string.
ReadTable(t) ==
  /\ step = "values" /\ t \in unread
  /\ IF \E a \in RowsOf(t) : stored[a] = Null
     THEN AnswerEmpty
     ELSE /\ values' = [a \in DOMAIN values \cup RowsOf(t) |->
                          IF a \in RowsOf(t) THEN stored[a] ELSE values[a]]
          /\ unread' = unread \ {t}
          /\ UNCHANGED <<step, entries, outcome>>
  /\ UNCHANGED <<stored, label, edits, requested, stood>>

----------------------------------------------------------------------------
\* From values to entries.

Wanted == IF requested = {} THEN Attributes ELSE requested
Raw(a) == [code |-> a, options |-> {}, raw |-> values[a]]
Resolved(a, chosen) == [code |-> a, options |-> chosen, raw |-> NoRow]

\* Entries are added in the order in which the values were read, which is none
\* that a client could rely on; an answer is a set of them.
MapTexts ==
  /\ step = "values" /\ unread = {} /\ step' = "options"
  /\ entries' = {Raw(a) : a \in (DOMAIN values \cap Wanted) \ Selects}
  /\ values' = [a \in DOMAIN values \cap Wanted \cap Selects |-> values[a]]
  /\ UNCHANGED <<stored, label, edits, requested, unread, outcome, stood>>

Known(a) == {o \in OptionsOf[a] : label[o] # "gone"}
Forget(a) == values' = [b \in DOMAIN values \ {a} |-> values[b]]

\* Mutant: an attribute whose options cannot be resolved is left out.
LoadOptionsOrSkip(a) ==
  /\ step = "options" /\ a \in DOMAIN values /\ Forget(a)
  /\ LET chosen == values[a] \cap Known(a) IN
       entries' = IF chosen = {} THEN entries ELSE entries \cup {Resolved(a, chosen)}
  /\ UNCHANGED <<stored, label, edits, step, requested, unread, outcome, stood>>

\* The options of one attribute, of which those selected are answered; with
\* none left, or when the SELECT fails, or when an option has no label in the
\* store and none by default, the value is answered as it is stored.
LoadOptions(a) ==
  /\ step = "options" /\ a \in DOMAIN values /\ Forget(a)
  /\ LET chosen == values[a] \cap Known(a) IN
       \/ /\ chosen # {} /\ \A o \in Known(a) : label[o] = "there"
          /\ entries' = entries \cup {Resolved(a, chosen)}
       \/ entries' = entries \cup {Raw(a)}
  /\ UNCHANGED <<stored, label, edits, step, requested, unread, outcome, stood>>

AnswerEntries ==
  /\ step = "options" /\ DOMAIN values = {}
  /\ step' = "idle" /\ outcome' = "ok"
  /\ UNCHANGED <<stored, label, edits, requested, unread, values, entries, stood>>

AttributesNext ==
  \/ \E a \in Attributes : StoreValue(a)
  \/ \E o \in Options : EditOption(o)
  \/ AskAttributes \/ ReadFails \/ (\E t \in Tables : ReadTable(t)) \/ MapTexts
  \/ (\E a \in Selects : LoadOptions(a)) \/ AnswerEntries

AttributesSpec == AttributesInit /\ [][AttributesNext]_attributeVars

----------------------------------------------------------------------------
\* The variables keep their types; only wanted attributes have entries, and
\* values are held only while they are read or mapped.
AttributesTypeOK ==
  /\ stored \in Contents /\ label \in [Options -> LabelStates] /\ edits \in 0..MaxEdits
  /\ step \in {"idle", "values", "options"} /\ outcome \in {"none", "ok", "failed"}
  /\ requested \subseteq Attributes /\ unread \subseteq Tables
  /\ DOMAIN values \subseteq Attributes
  /\ \A a \in DOMAIN values : values[a] \in ValuesOf(a)
  /\ \A e \in entries : e.code \in Wanted /\ e.options \subseteq Options
  /\ stood \subseteq Attributes
  /\ step = "idle" => DOMAIN values = {}

\* An answer of GetCustomAttributes that did not fail has exactly one entry for
\* every attribute asked for that had one value all the time, whichever options
\* were renamed, deleted or unreadable meanwhile (customer.go:880-895): it falls
\* back to the stored value and never drops the attribute.
NothingDropped ==
  outcome = "ok" =>
    \A a \in stood \cap Wanted :
      \E e \in entries : {f \in entries : f.code = a} = {e}

\* The options answered for an attribute are its own, and all of them were
\* selected in the value it had all the time (mapper.go:294-312).
OnlySelectedOptions ==
  \A e \in entries : e.options # {} =>
    /\ e.code \in Selects /\ e.options \subseteq OptionsOf[e.code]
    /\ e.code \in stood => e.options \subseteq stored[e.code]

\* GetCustomAttributes never drops an attribute that had one value all the time,
\* and the options it answers are among those selected in that value.
AttributesAnswered == NothingDropped /\ OnlySelectedOptions
=============================================================================
