------------------------------ MODULE Serving ------------------------------
(***************************************************************************)
(* One GraphQL operation served while the process lives: FieldExecution in *)
(* AppLifecycle.  The operation comes as an HTTP request, for which        *)
(* Shutdown waits and which is answered with the first response, or over a *)
(* websocket (a transport of handler.NewDefaultServer, app.go:94), which   *)
(* asks for every response and which Shutdown does not know of once it was *)
(* opened.                                                                 *)
(***************************************************************************)
EXTENDS AppLifecycle, FieldExecution

CONSTANT Operation   \* the request the operation comes as

ASSUME OperationAssumption == Operation \in Requests

VARIABLE socket      \* was a websocket opened?

servingVars == <<vars, executionVars, socket>>

ServingInit == Init /\ ExecutionInit /\ socket = FALSE

----------------------------------------------------------------------------
\* The process, and its other requests.
Process ==
  /\ \/ Main \/ Fail \/ Signal \/ Listen \/ ListenFails \/ Expire
     \/ \E q \in Requests \ {Operation} : Accept(q) \/ Answer(q)
  /\ UNCHANGED <<executionVars, socket>>

OpenSocket ==
  /\ Alive /\ listener = "open" /\ streams /\ socket' = TRUE
  /\ UNCHANGED <<vars, executionVars>>

Begin ==
  /\ Alive /\ Exec /\ UNCHANGED socket
  /\ \/ ~streams /\ Accept(Operation)
     \/ socket /\ UNCHANGED vars

FirstResponse ==
  /\ Alive /\ Respond /\ UNCHANGED socket
  /\ \/ ~streams /\ Answer(Operation)
     \/ streams /\ UNCHANGED vars

Execute == Alive /\ (ResolverStep \/ LaterStep) /\ UNCHANGED <<vars, socket>>

ServingNext == Process \/ OpenSocket \/ Begin \/ FirstResponse \/ Execute

\* The fairness of AppLifecycle.
ServingSpec == ServingInit /\ [][ServingNext]_servingVars /\ Fairness
----------------------------------------------------------------------------
(* Correctness.                                                            *)

ServingTypeOK == TypeOK /\ ExecutionTypeOK

\* The field is one that no response waits for.
InGroup(f) == f \in deferred \/ Object(f) \in deferred

\* Run closes the database when the last HTTP request is answered (app.go:197).
\* A resolver that still runs then was deferred, so that the answer did not
\* wait for it, or was asked for over a websocket.
LateMeansUnawaited ==
  \A f \in Fields :
    (Alive /\ state[f] = "resolve" /\ db # "open") => InGroup(f) \/ streams

\* If resolvers return and the transport keeps asking, an operation that was
\* begun is answered to the last group unless the process ends: the handler
\* and the goroutines that send to it never wait for each other in vain.
OperationEnds ==
  WF_servingVars(FirstResponse \/ Execute) =>
    (handler = "executing" ~>
       \/ handler = "left" \/ ~Alive
       \/ handler = "ended" /\ (operation = "query" => Outstanding = {}))
=============================================================================
