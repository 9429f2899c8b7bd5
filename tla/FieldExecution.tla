--------------------------- MODULE FieldExecution ---------------------------
(***************************************************************************)
(* How the generated server executes one operation (Exec and the functions *)
(* _Query, _Mutation, _Customer and _Wishlist of graph/generated.go).      *)
(*                                                                         *)
(* Fields that have a resolver of their own run in goroutines; the object  *)
(* they belong to waits for them, except for those under @defer, which it  *)
(* starts when it is complete and whose values follow in later responses.  *)
(* Root fields of a mutation run one after the other.  What the runtime    *)
(* does for the generated code is modelled as the code relies on it:       *)
(* FieldSet.Dispatch runs fields at once and waits for them, ResolveField  *)
(* turns errors and panics into null, ProcessDeferredGroup counts a group, *)
(* runs it in a goroutine and sends its result.                            *)
(*                                                                         *)
(* Left out: values, error texts, fields without a resolver.  The deferred *)
(* fields of an object form one group, as they do when one label is used.  *)
(***************************************************************************)
EXTENDS Naturals, FiniteSets

CONSTANT Fields   \* the fields of the document, named as in the schema

Roots == [query    |-> Fields \cap {"customer", "isEmailAvailable", "customerGroup"},
          mutation |-> Fields \cap {"changeCustomerPassword", "deleteCustomer"}]

\* The root field whose value is a Customer.
CustomerField == [query |-> "customer", mutation |-> "changeCustomerPassword"]

ASSUME FieldsAssumption ==
  /\ IsFiniteSet(Fields)
  /\ \A k \in DOMAIN Roots : CustomerField[k] \in Roots[k]

NonNull == {"customerGroup", "items_v2"}   \* the "!" of the schema

VARIABLES
  operation,  \* "query" or "mutation"
  deferred,   \* fields that carry @defer
  streams,    \* does the transport ask until there is no further response?
  handler,    \* where the response handler and its transport are
  state,      \* of each field: its goroutine, then its value
  group,      \* of each field: the deferred group of its value
  pendingDeferred,    \* ec.PendingDeferred
  more        \* HasNext of the latest response

executionVars == <<operation, deferred, streams, handler, state, group, pendingDeferred, more>>

States   == {"none", "resolve", "object", "null", "data"}
Handlers == {"idle", "executing", "next", "waiting", "held", "left", "ended"}
Groups   == {"none", "running", "sending", "received", "delivered"}

----------------------------------------------------------------------------
Selected == Roots[operation] \cup (Fields \ UNION {Roots[k] : k \in DOMAIN Roots})

\* The field whose value has field f.
Object(f) == IF f = "items_v2" THEN "wishlist" ELSE CustomerField[operation]
Members(o) == {f \in Selected \ Roots[operation] : Object(f) = o}

Awaited(o) == Members(o) \ deferred
Late(o)    == Members(o) \cap deferred

Done(f) == state[f] \in {"null", "data"}
Invalid(fields) == \E f \in fields \cap NonNull : state[f] = "null"

\* Deferred groups that were started and not yet answered.
Outstanding == {o \in Fields : group[o] \in {"running", "sending", "received"}}

ExecutionInit ==
  /\ operation \in DOMAIN Roots /\ streams \in BOOLEAN
  /\ deferred \in SUBSET (Selected \ Roots[operation])
  /\ handler = "idle" /\ more = "none" /\ pendingDeferred = 0
  /\ state = [f \in Fields |-> "none"] /\ group = [f \in Fields |-> "none"]

----------------------------------------------------------------------------
\* The fields named start to be resolved.
Started(fields) == [f \in Fields |-> IF f \in fields THEN "resolve" ELSE state[f]]

\* The transport asks for the first response: a query resolves its root fields
\* at once, a mutation begins with one.
Exec ==
  /\ handler = "idle" /\ handler' = "executing"
  /\ \/ operation = "query" /\ state' = Started(Roots.query)
     \/ operation = "mutation" /\ \E f \in Roots.mutation : state' = Started({f})
  /\ UNCHANGED <<operation, deferred, streams, group, pendingDeferred, more>>

\* The loop of _Mutation: the next field when the one before has its value.
NextMutation ==
  /\ handler = "executing" /\ operation = "mutation"
  /\ \A f \in Roots.mutation : state[f] = "none" \/ Done(f)
  /\ \E f \in Roots.mutation : state[f] = "none" /\ state' = Started({f})
  /\ UNCHANGED <<operation, deferred, streams, handler, group, pendingDeferred, more>>

\* A resolver returns: null when it failed or panicked, or a value whose
\* fields are resolved next.
Resolve(f) ==
  /\ state[f] = "resolve"
  /\ \/ state' = [state EXCEPT ![f] = "null"]
     \/ Members(f) = {} /\ state' = [state EXCEPT ![f] = "data"]
     \/ Members(f) # {} /\ state' = [Started(Awaited(f)) EXCEPT ![f] = "object"]
  /\ UNCHANGED <<operation, deferred, streams, handler, group, pendingDeferred, more>>

\* Mutant: a group that is started by another group is not counted.
CompleteCountingOuter(o) ==
  /\ state[o] = "object" /\ \A f \in Awaited(o) : Done(f)
  /\ \/ /\ Invalid(Awaited(o)) /\ state' = [state EXCEPT ![o] = "null"]
        /\ UNCHANGED <<group, pendingDeferred>>
     \/ /\ ~Invalid(Awaited(o)) /\ state' = [Started(Late(o)) EXCEPT ![o] = "data"]
        /\ \/ Late(o) = {} /\ UNCHANGED <<group, pendingDeferred>>
           \/ /\ Late(o) # {} /\ group' = [group EXCEPT ![o] = "running"]
              /\ pendingDeferred' = IF o \in deferred THEN pendingDeferred ELSE pendingDeferred + 1
  /\ UNCHANGED <<operation, deferred, streams, handler, more>>

\* Dispatch has waited for the fields of an object.  It is null when a field
\* that must not be is; otherwise its deferred group is counted and started.
Complete(o) ==
  /\ state[o] = "object" /\ \A f \in Awaited(o) : Done(f)
  /\ \/ /\ Invalid(Awaited(o)) /\ state' = [state EXCEPT ![o] = "null"]
        /\ UNCHANGED <<group, pendingDeferred>>
     \/ /\ ~Invalid(Awaited(o)) /\ state' = [Started(Late(o)) EXCEPT ![o] = "data"]
        /\ \/ Late(o) = {} /\ UNCHANGED <<group, pendingDeferred>>
           \/ /\ Late(o) # {} /\ group' = [group EXCEPT ![o] = "running"]
              /\ pendingDeferred' = pendingDeferred + 1
  /\ UNCHANGED <<operation, deferred, streams, handler, more>>

\* The goroutine of a group has its fields and offers them to the handler.
CompleteGroup(o) ==
  /\ group[o] = "running" /\ \A f \in Late(o) : Done(f)
  /\ group' = [group EXCEPT ![o] = "sending"]
  /\ UNCHANGED <<operation, deferred, streams, handler, state, pendingDeferred, more>>

\* HasNext of a response to a query in which a group was deferred.
HasNext(left) == IF left > 0 THEN "yes" ELSE "no"
AfterAnswer == IF streams THEN "next" ELSE "left"

\* Mutant: the first root field that is there answers the operation.
RespondEarly ==
  /\ handler = "executing" /\ \E f \in Roots[operation] : Done(f)
  /\ handler' = AfterAnswer
  /\ more' = IF operation = "query" /\ \E o \in Fields : group[o] # "none"
               THEN HasNext(pendingDeferred) ELSE "none"
  /\ UNCHANGED <<operation, deferred, streams, state, group, pendingDeferred>>

\* The first response, when all root fields have their value.
Respond ==
  /\ handler = "executing" /\ \A f \in Roots[operation] : Done(f)
  /\ handler' = AfterAnswer
  /\ more' = IF operation = "query" /\ \E o \in Fields : group[o] # "none"
               THEN HasNext(pendingDeferred) ELSE "none"
  /\ UNCHANGED <<operation, deferred, streams, state, group, pendingDeferred>>

\* The transport asks again: there is nothing more unless groups are pending,
\* and never for a mutation.
AskAgain ==
  /\ handler = "next"
  /\ handler' = IF operation = "query" /\ pendingDeferred > 0 THEN "waiting" ELSE "ended"
  /\ UNCHANGED <<operation, deferred, streams, state, group, pendingDeferred, more>>

\* The channel of results has no buffer: a goroutine that sends waits for it.
Receive(o) ==
  /\ handler = "waiting" /\ group[o] = "sending"
  /\ handler' = "held" /\ group' = [group EXCEPT ![o] = "received"]
  /\ UNCHANGED <<operation, deferred, streams, state, pendingDeferred, more>>

\* Mutant: whoever receives the last result still announces another one.
RespondBeforeCounting(o) ==
  /\ handler = "held" /\ group[o] = "received"
  /\ group' = [group EXCEPT ![o] = "delivered"]
  /\ pendingDeferred' = pendingDeferred - 1 /\ more' = HasNext(pendingDeferred) /\ handler' = "next"
  /\ UNCHANGED <<operation, deferred, streams, state>>

\* The result that was received is counted and answered.
RespondGroup(o) ==
  /\ handler = "held" /\ group[o] = "received"
  /\ group' = [group EXCEPT ![o] = "delivered"]
  /\ pendingDeferred' = pendingDeferred - 1 /\ more' = HasNext(pendingDeferred') /\ handler' = "next"
  /\ UNCHANGED <<operation, deferred, streams, state>>

\* Steps of the goroutines that resolve fields, and of the handler between its
\* first response and its last.
ResolverStep == NextMutation \/ \E f \in Fields : Resolve(f) \/ Complete(f) \/ CompleteGroup(f)
LaterStep == AskAgain \/ \E o \in Fields : Receive(o) \/ RespondGroup(o)
----------------------------------------------------------------------------
(* Correctness.                                                            *)

\* The variables keep their types, and PendingDeferred counts the groups that
\* were started and not answered.
ExecutionTypeOK ==
  /\ operation \in DOMAIN Roots /\ deferred \subseteq Fields /\ streams \in BOOLEAN
  /\ handler \in Handlers /\ more \in {"none", "yes", "no"}
  /\ state \in [Fields -> States] /\ group \in [Fields -> Groups]
  /\ pendingDeferred = Cardinality(Outstanding)

\* What a response announces comes true, however groups start, end and start
\* other groups meanwhile: after "no" there is nothing left to answer, and the
\* stream of responses (generated.go:2198) does not end after "yes".
AnnouncedComes ==
  /\ more = "no" => Outstanding = {}
  /\ handler = "ended" => more # "yes"
=============================================================================
