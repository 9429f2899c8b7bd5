------------------------- MODULE AttributeMetadata -------------------------
(***************************************************************************)
(* What the eav_attribute tables say of the attributes of one entity type, *)
(* as AttributeMetadata of internal/repository/eav_attribute.go holds it   *)
(* once it is loaded: it does not change while CustomAttributes answers.   *)
(***************************************************************************)
EXTENDS Naturals

CONSTANTS
  Attributes,  \* codes of the attributes that are defined and visible
  Selects,     \* those whose input is select or multiselect
  TableOf,     \* the backend type of each attribute
  Options,     \* option ids, unique in the shop
  OptionsOf,   \* the options of each select attribute
  Texts,       \* what an attribute that is not one stores
  NoRow, Null, \* no value stored, and a NULL stored in the value column
  MaxEdits     \* bound: edits of the shop

ASSUME SelectAssumption == Selects \subseteq Attributes
ASSUME OptionAssumption ==
  /\ OptionsOf \in [Selects -> SUBSET Options]
  /\ \A a, b \in Selects : a # b => OptionsOf[a] \cap OptionsOf[b] = {}
ASSUME EditAssumption == MaxEdits \in Nat
=============================================================================
