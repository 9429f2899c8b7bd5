---------------------------- MODULE ServingProof ----------------------------
(***************************************************************************)
(* Theorems about AppLifecycle and Serving for every set of requests and   *)
(* every document.  First the process by itself: the order of the shutdown *)
(* is right wherever the listener is when the signal comes.  Then with an  *)
(* operation in it: what a response announces comes true, and a resolver   *)
(* outlives the database only where no response waited for it.             *)
(***************************************************************************)
EXTENDS Serving, TLAPS, FiniteSetTheorems

(* The process.                                                            *)

\* The listener runs once Notify was called, and does not accept any more
\* once Shutdown was.
ListenerOK ==
  /\ listener # "none" => Notified
  /\ ShuttingDown => listener # "open"

\* Handlers run while the listener may accept and until Shutdown has waited
\* for them; the end of the process cuts them.
HandlersOK ==
  /\ running # {} => /\ Notified /\ exit = "none"
                     /\ listener \in {"open", "returned"}
  /\ main \in {"close_db", "close_cache", "return"} => running = {}
  /\ cut # {} => exit # "none"

\* The database is open from New to its Close, which comes before the cache's.
ConnectionsOK ==
  /\ main \in {"resolver", "notify", "wait", "shutdown", "drain", "close_db"}
       => db = "open"
  /\ main \in {"close_cache", "return"} => db = "closed"
  /\ main = "return" => cache # "open"

Inv == /\ TypeOK /\ ListenerOK /\ HandlersOK /\ ConnectionsOK
       /\ OrderlyExit

----------------------------------------------------------------------------
LEMMA InitInv == Init => Inv
<1>1. SUFFICES ASSUME Init PROVE Inv
  OBVIOUS
<1>2. TypeOK
  <2>1. main \in MainLabels /\ listener \in ListenerLabels
    BY <1>1 DEF Init, MainLabels, ListenerLabels
  <2>2. pending \in 0..1 /\ expired \in BOOLEAN
    <3>1. pending = 0 /\ expired = FALSE
      BY <1>1 DEF Init
    <3>2. expired \in BOOLEAN
      BY <3>1, Zenon
    <3>3. pending \in 0..1
      BY <3>1, SMT
    <3>4. QED
      BY <3>2, <3>3
  <2>3. db \in Connections /\ cache \in Connections
    BY <1>1 DEF Init, Connections
  <2>4. running \subseteq Requests /\ cut \subseteq Requests
    BY <1>1 DEF Init
  <2>5. exit \in {"none", "ok", "fatal", "killed"}
    BY <1>1 DEF Init
  <2>6. QED
    BY <2>1, <2>2, <2>3, <2>4, <2>5 DEF TypeOK
<1>3. ListenerOK /\ HandlersOK
  BY <1>1 DEF Init, ListenerOK, HandlersOK, Notified, ShuttingDown
<1>4. ConnectionsOK /\ OrderlyExit
  BY <1>1 DEF Init, ConnectionsOK, OrderlyExit
<1>5. QED
  BY <1>2, <1>3, <1>4 DEF Inv

\* Any end of the process but the one of main is not orderly.
LEMMA ExitInv ==
  ASSUME Inv, NEW status \in {"fatal", "killed"}, Alive, Exit(status)
  PROVE  Inv'
BY DEF Inv, TypeOK, ListenerOK, HandlersOK, ConnectionsOK, OrderlyExit,
       Exit, Alive, Notified, ShuttingDown

\* When main returns, every handler has answered and the connections are closed.
LEMMA ReturnInv == ASSUME Inv, Return PROVE Inv'
BY DEF Inv, TypeOK, ListenerOK, HandlersOK, ConnectionsOK, OrderlyExit,
       Return, Exit, Alive, Notified, ShuttingDown

\* The steps of main before the signal.
LEMMA StartInv ==
  ASSUME Inv, Load \/ Connect \/ Resolver \/ Notify \/ ReceiveSignal
  PROVE  Inv'
<1> USE DEF Inv, TypeOK, ListenerOK, HandlersOK, ConnectionsOK, OrderlyExit,
        MainLabels, ListenerLabels, Connections, Notified, ShuttingDown, Alive
<1>1. CASE Load
  BY <1>1 DEF Load
<1>2. CASE Connect
  BY <1>2 DEF Connect
<1>3. CASE Resolver
  BY <1>3 DEF Resolver
<1>4. CASE Notify
  BY <1>4 DEF Notify
<1>5. CASE ReceiveSignal
  BY <1>5 DEF ReceiveSignal
<1>6. QED
  BY <1>1, <1>2, <1>3, <1>4, <1>5

\* The steps of main after the signal, until it returns.
LEMMA StopInv ==
  ASSUME Inv, BeginShutdown \/ Drain \/ CloseDb \/ CloseCache
  PROVE  Inv'
<1>1. CASE BeginShutdown
  BY <1>1 DEF BeginShutdown, Inv, TypeOK, ListenerOK, HandlersOK, ConnectionsOK,
     OrderlyExit, MainLabels, ListenerLabels, Notified, ShuttingDown, Alive
<1>2. CASE Drain
  <2>1. CASE Alive /\ Exit("fatal")
    BY <2>1, ExitInv
  <2>2. CASE /\ Alive /\ main = "drain" /\ running = {} /\ main' = "close_db"
             /\ UNCHANGED <<listener, pending, expired, db, cache, running, cut, exit>>
    BY <2>2 DEF Inv, TypeOK, ListenerOK, HandlersOK, ConnectionsOK,
       OrderlyExit, MainLabels, Notified, ShuttingDown, Alive
  <2>3. QED
    BY <1>2, <2>1, <2>2 DEF Drain
<1>3. CASE CloseDb
  BY <1>3 DEF CloseDb, Inv, TypeOK, ListenerOK, HandlersOK, ConnectionsOK,
     OrderlyExit, MainLabels, Connections, Notified, ShuttingDown, Alive
<1>4. CASE CloseCache
  BY <1>4 DEF CloseCache, Inv, TypeOK, ListenerOK, HandlersOK, ConnectionsOK,
     OrderlyExit, MainLabels, Connections, Notified, ShuttingDown, Alive
<1>5. QED
  BY <1>1, <1>2, <1>3, <1>4

\* The signal, the listener, the clock and the handlers.
LEMMA OutsideInv ==
  ASSUME Inv, \/ Fail \/ Signal \/ Listen \/ ListenFails \/ Expire
              \/ \E q \in Requests : Accept(q) \/ Answer(q)
  PROVE  Inv'
<1>1. CASE Fail
  BY <1>1, ExitInv DEF Fail
<1>2. CASE Signal
  <2>1. CASE Exit("killed")
    BY <1>2, <2>1, ExitInv DEF Signal
  <2>2. CASE /\ pending' = IF pending < 1 THEN pending + 1 ELSE pending
             /\ UNCHANGED <<main, listener, expired, db, cache, running, cut, exit>>
    <3>1. pending' \in 0..1
      BY <2>2 DEF Inv, TypeOK
    <3>2. QED
      BY <2>2, <3>1 DEF Inv, TypeOK, ListenerOK, HandlersOK, ConnectionsOK,
         OrderlyExit, Notified, ShuttingDown
  <2>3. QED
    BY <1>2, <2>1, <2>2 DEF Signal
<1>3. CASE Listen
  BY <1>3 DEF Listen, Inv, TypeOK, ListenerOK, HandlersOK, ConnectionsOK,
     OrderlyExit, ListenerLabels, Notified, ShuttingDown, Alive
<1>4. CASE ListenFails
  BY <1>4, ExitInv DEF ListenFails
<1>5. CASE Expire
  BY <1>5 DEF Expire, Inv, TypeOK, ListenerOK, HandlersOK, ConnectionsOK,
     OrderlyExit, Notified, ShuttingDown
<1>6. ASSUME NEW q \in Requests, Accept(q) PROVE Inv'
  BY <1>6 DEF Accept, Inv, TypeOK, ListenerOK, HandlersOK, ConnectionsOK,
     OrderlyExit, Notified, ShuttingDown, Alive
<1>7. ASSUME NEW q \in Requests, Answer(q) PROVE Inv'
  BY <1>7 DEF Answer, Inv, TypeOK, ListenerOK, HandlersOK, ConnectionsOK,
     OrderlyExit, Notified, ShuttingDown, Alive
<1>8. QED
  BY <1>1, <1>2, <1>3, <1>4, <1>5, <1>6, <1>7

LEMMA NextInv == Inv /\ [Next]_vars => Inv'
<1>1. ASSUME Inv, UNCHANGED vars PROVE Inv'
  BY <1>1 DEF vars, Inv, TypeOK, ListenerOK, HandlersOK, ConnectionsOK,
     OrderlyExit, Notified, ShuttingDown
<1>2. ASSUME Inv, Main PROVE Inv'
  BY <1>2, StartInv, StopInv, ReturnInv DEF Main
<1>3. QED
  BY <1>1, <1>2, OutsideInv DEF Next

----------------------------------------------------------------------------
(* The theorems about AppLifecycle.                                        *)

\* Every state the process reaches satisfies the inductive invariant: when it
\* listens, which handlers run and what is open follow from where main stands.
THEOREM Invariant == Spec => []Inv
<1>1. QED
  BY InitInv, NextInv, PTL DEF Spec

\* The variables keep their types; in particular the channel of the signals
\* never holds more than its one.
THEOREM TypeCorrect == Spec => []TypeOK
<1>1. Inv => TypeOK
  BY DEF Inv
<1>2. QED
  BY <1>1, Invariant, PTL

\* No handler runs while the database is not open.
THEOREM ServedTheorem == Spec => []ServedWithDatabase
<1>1. Inv => ServedWithDatabase
  BY DEF Inv, TypeOK, HandlersOK, ConnectionsOK, ServedWithDatabase, Notified, MainLabels
<1>2. QED
  BY <1>1, Invariant, PTL

\* An orderly exit has answered every request and closed what was opened.
THEOREM OrderlyTheorem == Spec => []OrderlyExit
<1>1. Inv => OrderlyExit
  BY DEF Inv
<1>2. QED
  BY <1>1, Invariant, PTL

\* After the signal the process ends under a handler only when the ten seconds
\* are over: the listener that can still fail then has never accepted one.
THEOREM CutTheorem == Spec => CutMeansExpired
<1> DEFINE Step == (cut' # cut /\ ShuttingDown) => expired
<1>1. Inv /\ [Next]_vars => [Step]_vars
  <2>1. SUFFICES ASSUME Inv, Next, cut' # cut, ShuttingDown PROVE expired
    BY DEF vars
  <2>2. /\ cut # {} => ~Alive
        /\ running # {} => listener = "returned"
        /\ main \in {"close_db", "close_cache", "return"} => running = {}
    BY <2>1 DEF Inv, ListenerOK, HandlersOK, Alive
  <2>3. ~Load /\ ~Connect /\ ~Resolver /\ ~Notify /\ ~ReceiveSignal /\ ~BeginShutdown
    BY <2>1 DEF Load, Connect, Resolver, Notify, ReceiveSignal, BeginShutdown
  <2>4. ~CloseDb /\ ~CloseCache /\ ~Listen /\ ~Expire
    BY <2>1 DEF CloseDb, CloseCache, Listen, Expire
  <2>5. ~Return
    BY <2>1, <2>2 DEF Return, Exit
  <2>6. ~Fail
    BY <2>1 DEF Fail, ShuttingDown
  <2>7. ~Signal
    BY <2>1 DEF Signal, Notified, ShuttingDown, Exit
  <2>8. ~ListenFails
    BY <2>1, <2>2 DEF ListenFails, Exit
  <2>9. \A q \in Requests : ~Accept(q) /\ ~Answer(q)
    BY <2>1 DEF Accept, Answer
  <2>10. CASE Drain
    BY <2>1, <2>10 DEF Drain
  <2>11. QED
    BY <2>1, <2>3, <2>4, <2>5, <2>6, <2>7, <2>8, <2>9, <2>10 DEF Next, Main
<1>2. QED
  BY <1>1, Invariant, PTL DEF Spec, CutMeansExpired

----------------------------------------------------------------------------
(* The process with an operation in it.                                    *)

\* The fields of the document that have a parent.
Inner == Selected \ Roots[operation]

Running(f) == state[f] \in {"resolve", "object"}

\* Who waits for a field that runs: the handler, the object it belongs to, or
\* the goroutine of a deferred group.
Anchored(f) ==
  \/ f \in Roots[operation] /\ handler = "executing"
  \/ /\ f \in Inner /\ Object(f) \in Fields
     /\ \/ f \notin deferred /\ state[Object(f)] = "object"
        \/ f \in deferred /\ group[Object(f)] = "running"

AnchorsOK == \A f \in Fields : Running(f) => Anchored(f)

\* A field is touched after its object, a deferred one after it is complete.
OrderOK ==
  /\ handler = "idle" => \A f \in Fields : state[f] = "none" /\ group[f] = "none"
  /\ \A f \in Fields : group[f] # "none" => state[f] = "data"
  /\ \A f \in Inner :
       (Object(f) \in Fields /\ state[Object(f)] \in {"none", "resolve"})
         => state[f] = "none"
  /\ \A f \in Inner \cap deferred :
       (Object(f) \in Fields /\ state[Object(f)] = "object") => state[f] = "none"

\* The latest response is in line with the count of groups.
ResponsesOK ==
  /\ more # "none" => handler \notin {"idle", "executing"} /\ operation = "query"
  /\ handler \in {"waiting", "held"} => operation = "query"
  /\ (more = "yes" /\ handler = "next") => pendingDeferred > 0

ExecutionInv == /\ ExecutionTypeOK /\ deferred \subseteq Inner
                /\ AnchorsOK /\ OrderOK /\ ResponsesOK /\ AnnouncedComes

\* An HTTP request whose response is not complete is in flight.
RequestOK ==
  /\ socket => streams
  /\ (Alive /\ ~streams /\ handler = "executing") => Operation \in running

----------------------------------------------------------------------------
\* The shape of the document: inner fields belong to the customer, which is a
\* root field, or to the wishlist, which belongs to the customer.
LEMMA Shape ==
  ASSUME operation \in DOMAIN Roots
  PROVE  /\ Roots[operation] \subseteq Fields /\ Inner \subseteq Fields
         /\ Inner \cap Roots[operation] = {}
         /\ \A f \in Inner : Object(f) # f
         /\ \A f \in Inner : Object(f) \notin Roots[operation] =>
              Object(Object(f)) \in Roots[operation]
<1>1. operation \in {"query", "mutation"}
  BY DEF Roots
<1>2. CustomerField[operation] \in Roots[operation]
  BY FieldsAssumption
<1>3. Roots[operation] \subseteq Fields /\ Inner \subseteq Fields
      /\ Inner \cap Roots[operation] = {}
  BY <1>1 DEF Roots, Inner, Selected
<1>4. \A f : Object(f) \in {"wishlist", CustomerField[operation]}
  BY DEF Object
<1>5. Object("wishlist") = CustomerField[operation]
  BY DEF Object
<1>6. \A f \in Inner : Object(f) # f
  BY <1>2, <1>3 DEF Object
<1>7. QED
  BY <1>2, <1>3, <1>4, <1>5, <1>6

LEMMA GroupsFinite == IsFiniteSet(Outstanding) /\ Outstanding \subseteq Fields
<1>1. Outstanding \subseteq Fields
  BY DEF Outstanding
<1>2. QED
  BY <1>1, FieldsAssumption, FS_Subset

\* With no group open and the first response given, nothing runs.
LEMMA Quiet ==
  ASSUME ExecutionInv, handler \notin {"idle", "executing"}, Outstanding = {}
  PROVE  \A f \in Fields : ~Running(f)
<1>1. SUFFICES ASSUME NEW f \in Fields, Running(f) PROVE FALSE
  OBVIOUS
<1>2. operation \in DOMAIN Roots
  BY DEF ExecutionInv, ExecutionTypeOK
<1>3. \A g \in Fields : group[g] # "running"
  BY DEF Outstanding
<1>4. \A g \in Fields : Running(g) =>
        g \in Inner /\ Object(g) \in Fields /\ Running(Object(g))
  BY <1>3 DEF ExecutionInv, AnchorsOK, Anchored, Running
<1>5. f \in Inner /\ Object(f) \in Inner /\ Object(Object(f)) \in Inner
  BY <1>1, <1>4
<1>6. QED
  BY <1>2, <1>5, Shape

----------------------------------------------------------------------------
LEMMA ExecInv == ASSUME ExecutionInv, Exec PROVE ExecutionInv'
<1> USE DEF ExecutionInv, ExecutionTypeOK
<1>1. \A f \in Fields : state[f] = "none" /\ group[f] = "none"
  BY DEF Exec, OrderOK
<1>2. PICK S \in SUBSET Roots[operation] : state' = Started(S)
  <2>1. CASE operation = "query"
    BY <2>1 DEF Exec
  <2>2. CASE operation = "mutation"
    BY <2>2 DEF Exec
  <2>3. QED
    BY <2>1, <2>2 DEF Exec
<1>3. \A f \in Fields : state'[f] = IF f \in S THEN "resolve" ELSE "none"
  BY <1>1, <1>2 DEF Started
<1>4. Inner' = Inner /\ \A f : Object(f)' = Object(f)
  BY DEF Exec, Inner, Selected, Object
<1>5. Outstanding' = Outstanding
  BY DEF Exec, Outstanding
<1>6. ExecutionTypeOK'
  BY <1>1, <1>2, <1>5 DEF Exec, Started, States, Handlers
<1>7. AnchorsOK'
  BY <1>3, Shape DEF Exec, AnchorsOK, Anchored, Running
<1>8. OrderOK'
  BY <1>1, <1>3, <1>4, Shape DEF Exec, OrderOK
<1>9. ResponsesOK' /\ AnnouncedComes' /\ (deferred \subseteq Inner)'
  BY <1>4, <1>5 DEF Exec, ResponsesOK, AnnouncedComes
<1>10. QED
  BY <1>6, <1>7, <1>8, <1>9

LEMMA NextMutationInv == ASSUME ExecutionInv, NextMutation PROVE ExecutionInv'
<1> USE DEF ExecutionInv, ExecutionTypeOK
<1>1. PICK f \in Roots[operation] : state[f] = "none" /\ state' = Started({f})
  BY DEF NextMutation
<1>2. \A g \in Fields : state'[g] = IF g = f THEN "resolve" ELSE state[g]
  BY <1>1 DEF Started
<1>3. Inner' = Inner /\ \A g : Object(g)' = Object(g)
  BY DEF NextMutation, Inner, Selected, Object
<1>4. Outstanding' = Outstanding
  BY DEF NextMutation, Outstanding
<1>5. ExecutionTypeOK'
  BY <1>1, <1>4 DEF NextMutation, Started, States
<1>6. AnchorsOK'
  BY <1>1, <1>2, Shape DEF NextMutation, AnchorsOK, Anchored, Running, Inner, Selected, Object
<1>7. OrderOK'
  <2>3. \A g \in Fields : group'[g] # "none" => state'[g] = "data"
    BY <1>1, <1>2 DEF NextMutation, OrderOK
  <2>4. ASSUME NEW g \in Inner, Object(g) \in Fields, state'[Object(g)] \in {"none", "resolve"}
        PROVE  state'[g] = "none"
    <3>1. state[g] = "none"
      BY <2>4, <1>1, <1>2 DEF OrderOK
    <3>2. g # f
      BY Shape
    <3>3. QED
      BY <3>1, <3>2, <1>2, Shape
  <2>5. ASSUME NEW g \in Inner \cap deferred, Object(g) \in Fields, state'[Object(g)] = "object"
        PROVE  state'[g] = "none"
    <3>1. state[g] = "none"
      BY <2>5, <1>2 DEF OrderOK
    <3>2. g # f
      BY Shape
    <3>3. QED
      BY <3>1, <3>2, <1>2, Shape
  <2>6. QED
    BY <2>3, <2>4, <2>5, <1>3 DEF NextMutation, OrderOK
<1>8. ResponsesOK' /\ AnnouncedComes' /\ (deferred \subseteq Inner)'
  BY <1>3, <1>4 DEF NextMutation, ResponsesOK, AnnouncedComes
<1>9. QED
  BY <1>5, <1>6, <1>7, <1>8

\* A resolver starts fields of its own object only, which were not touched yet.
LEMMA ResolveInv ==
  ASSUME ExecutionInv, NEW f \in Fields, Resolve(f) PROVE ExecutionInv'
<1> USE DEF ExecutionInv, ExecutionTypeOK
<1>1. PICK S \in SUBSET Awaited(f), v \in {"null", "data", "object"} :
        /\ S # {} => v = "object"
        /\ v = "object" => S = Awaited(f)
        /\ state' = [g \in Fields |-> IF g = f THEN v
                                      ELSE IF g \in S THEN "resolve" ELSE state[g]]
  <2>1. CASE state' = [state EXCEPT ![f] = "null"]
    <3>1. state' = [g \in Fields |-> IF g = f THEN "null"
                                    ELSE IF g \in {} THEN "resolve" ELSE state[g]]
      BY <2>1
    <3>2. WITNESS {} \in SUBSET Awaited(f), "null" \in {"null", "data", "object"}
    <3>3. QED
      BY <3>1
  <2>2. CASE state' = [state EXCEPT ![f] = "data"]
    <3>1. state' = [g \in Fields |-> IF g = f THEN "data"
                                    ELSE IF g \in {} THEN "resolve" ELSE state[g]]
      BY <2>2
    <3>2. WITNESS {} \in SUBSET Awaited(f), "data" \in {"null", "data", "object"}
    <3>3. QED
      BY <3>1
  <2>3. CASE state' = [Started(Awaited(f)) EXCEPT ![f] = "object"]
    <3>1. state' = [g \in Fields |-> IF g = f THEN "object"
                        ELSE IF g \in Awaited(f) THEN "resolve" ELSE state[g]]
      BY <2>3 DEF Started
    <3>2. QED
      BY <3>1
  <2>4. QED
    BY <2>1, <2>2, <2>3 DEF Resolve
<1>2. /\ state[f] = "resolve"
      /\ UNCHANGED <<operation, deferred, streams, handler, group, pendingDeferred, more>>
  BY DEF Resolve
<1>3. \A g \in Awaited(f) : g \in Inner /\ g \notin deferred /\ Object(g) = f
  BY DEF Awaited, Members, Inner
<1>4. \A g \in Fields : state'[g] = IF g = f THEN v ELSE IF g \in S THEN "resolve" ELSE state[g]
  BY <1>1 DEF Started
<1>5. Inner' = Inner /\ \A g : Object(g)' = Object(g)
  BY <1>2 DEF Inner, Selected, Object
<1>6. Outstanding' = Outstanding
  BY <1>2 DEF Outstanding
<1>7. \A g \in Inner : Object(g) = f => state[g] = "none"
  BY <1>2 DEF OrderOK
<1>8. group[f] = "none" /\ handler # "idle"
  BY <1>2 DEF OrderOK
<1>9a. \A g \in S : state[g] = "none" /\ g # f
  BY <1>2, <1>3, <1>7
<1>9. ExecutionTypeOK'
  BY <1>1, <1>2, <1>6 DEF Started, States
<1>10. AnchorsOK'
  <2>1. SUFFICES ASSUME NEW g \in Fields, Running(g)' PROVE Anchored(g)'
    BY DEF AnchorsOK
  <2>3. CASE g \in S /\ g # f
    <3>1. v = "object" /\ g \in Inner /\ g \notin deferred /\ Object(g) = f
      BY <1>1, <1>3, <2>3
    <3>2. QED
      BY <3>1, <1>2, <1>4, <1>5 DEF Anchored
  <2>4. CASE g = f \/ g \notin S
    <3>1. Running(g)
      BY <2>1, <2>4, <1>2, <1>4 DEF Running
    <3>2. Anchored(g)
      BY <3>1 DEF AnchorsOK
    <3>3. g \in Inner => Object(g) # f
      BY <3>1, <1>2, <1>7, Shape DEF Running
    <3>4. QED
      BY <3>2, <3>3, <1>2, <1>4, <1>5, <1>9a DEF Anchored
  <2>5. QED
    BY <2>3, <2>4
<1>11. OrderOK'
  <2>1. \A g \in Fields : group'[g] # "none" => state'[g] = "data"
    <3>1. SUFFICES ASSUME NEW g \in Fields, group'[g] # "none" PROVE state'[g] = "data"
      OBVIOUS
    <3>2. state[g] = "data" /\ g # f
      BY <3>1, <1>2, <1>8 DEF OrderOK
    <3>3. g \notin S
      BY <3>2, <1>3, <1>7
    <3>4. QED
      BY <3>2, <3>3, <1>4
  <2>2. ASSUME NEW g \in Inner, Object(g) \in Fields, state'[Object(g)] \in {"none", "resolve"}
        PROVE  state'[g] = "none"
    <3>1. Object(g) # f
      BY <2>2, <1>4
    <3>2. state[Object(g)] \in {"none", "resolve"}
      BY <2>2, <3>1, <1>4, <1>9a
    <3>3. state[g] = "none"
      BY <2>2, <3>2 DEF OrderOK
    <3>4. g # f /\ g \notin S
      BY <3>1, <3>3, <1>2, <1>3
    <3>5. QED
      BY <3>3, <3>4, <1>4, Shape
  <2>3. ASSUME NEW g \in Inner \cap deferred, Object(g) \in Fields, state'[Object(g)] = "object"
        PROVE  state'[g] = "none"
    <3>1. state[g] = "none"
      BY <2>3, <1>4, <1>7 DEF OrderOK
    <3>2. g # f /\ g \notin S
      BY <3>1, <2>3, <1>2, <1>3
    <3>3. QED
      BY <3>1, <3>2, <1>4, Shape
  <2>4. QED
    BY <2>1, <2>2, <2>3, <1>2, <1>5, <1>8 DEF OrderOK
<1>12. ResponsesOK' /\ AnnouncedComes' /\ (deferred \subseteq Inner)'
  BY <1>2, <1>5, <1>6 DEF ResponsesOK, AnnouncedComes
<1>13. QED
  BY <1>9, <1>10, <1>11, <1>12

LEMMA PendingNat == ASSUME ExecutionTypeOK PROVE pendingDeferred \in Nat
BY GroupsFinite, FS_CardinalityType DEF ExecutionTypeOK

\* An object that Dispatch has waited for leaves no field running but those of
\* the group it starts.
LEMMA CompleteInv ==
  ASSUME ExecutionInv, NEW o \in Fields, Complete(o) PROVE ExecutionInv'
<1> USE DEF ExecutionInv, ExecutionTypeOK
<1>1. PICK L \in {{}, Late(o)}, v \in {"null", "data"} :
        /\ L # {} => v = "data"
        /\ v = "data" => L = Late(o)
        /\ state' = [g \in Fields |-> IF g = o THEN v
                                      ELSE IF g \in L THEN "resolve" ELSE state[g]]
        /\ IF L = {} THEN UNCHANGED <<group, pendingDeferred>>
           ELSE /\ group' = [group EXCEPT ![o] = "running"]
                /\ pendingDeferred' = pendingDeferred + 1
  <2>1. CASE state' = [state EXCEPT ![o] = "null"] /\ UNCHANGED <<group, pendingDeferred>>
    <3>1. state' = [g \in Fields |-> IF g = o THEN "null"
                                    ELSE IF g \in {} THEN "resolve" ELSE state[g]]
      BY <2>1
    <3>2. WITNESS {} \in {{}, Late(o)}, "null" \in {"null", "data"}
    <3>3. QED
      BY <2>1, <3>1
  <2>2. CASE /\ state' = [Started(Late(o)) EXCEPT ![o] = "data"]
             /\ \/ Late(o) = {} /\ UNCHANGED <<group, pendingDeferred>>
                \/ /\ Late(o) # {} /\ group' = [group EXCEPT ![o] = "running"]
                   /\ pendingDeferred' = pendingDeferred + 1
    <3>1. state' = [g \in Fields |-> IF g = o THEN "data"
                         ELSE IF g \in Late(o) THEN "resolve" ELSE state[g]]
      BY <2>2 DEF Started
    <3>2. WITNESS Late(o) \in {{}, Late(o)}, "data" \in {"null", "data"}
    <3>3. QED
      BY <2>2, <3>1
  <2>3. QED
    BY <2>1, <2>2 DEF Complete
<1>2. /\ state[o] = "object" /\ \A f \in Awaited(o) : Done(f)
      /\ UNCHANGED <<operation, deferred, streams, handler, more>>
  BY DEF Complete
<1>3. \A g \in L : g \in Inner /\ g \in deferred /\ Object(g) = o
  BY <1>1 DEF Late, Members, Inner
<1>4. \A g \in Fields : state'[g] = IF g = o THEN v ELSE IF g \in L THEN "resolve" ELSE state[g]
  BY <1>1
<1>5. Inner' = Inner /\ \A g : Object(g)' = Object(g)
  BY <1>2 DEF Inner, Selected, Object
<1>6. group[o] = "none" /\ handler # "idle"
  BY <1>2 DEF OrderOK
<1>7. \A g \in L : state[g] = "none" /\ g # o
  BY <1>2, <1>3, Shape DEF OrderOK
<1>8. \A g \in Inner : Object(g) = o => ~Running(g)
  <2>1. SUFFICES ASSUME NEW g \in Inner, Object(g) = o, Running(g) PROVE FALSE
    OBVIOUS
  <2>2. CASE g \in deferred
    BY <2>1, <2>2, <1>2 DEF OrderOK, Running
  <2>3. CASE g \notin deferred
    BY <2>1, <2>3, <1>2 DEF Awaited, Members, Inner, Running, Done
  <2>4. QED
    BY <2>2, <2>3
<1>9. \A g \in Fields \ {o} : group'[g] = group[g]
  BY <1>1
<1>10. group' \in [Fields -> Groups] /\ state' \in [Fields -> States]
  BY <1>1 DEF Groups, States
<1>11. pendingDeferred' = Cardinality(Outstanding')
  <2>1. CASE L = {}
    BY <2>1, <1>1 DEF Outstanding
  <2>2. CASE L # {}
    <3>1. o \notin Outstanding
      BY <1>6 DEF Outstanding
    <3>2. Outstanding' = Outstanding \cup {o}
      BY <2>2, <1>1 DEF Outstanding
    <3>3. Cardinality(Outstanding \cup {o}) = Cardinality(Outstanding) + 1
      BY <3>1, GroupsFinite, FS_AddElement
    <3>4. QED
      BY <3>2, <3>3, <2>2, <1>1
  <2>3. QED
    BY <2>1, <2>2
<1>12. ExecutionTypeOK'
  BY <1>2, <1>10, <1>11
<1>13. AnchorsOK'
  <2>1. SUFFICES ASSUME NEW g \in Fields, Running(g)' PROVE Anchored(g)'
    BY DEF AnchorsOK
  <2>2. CASE g \in L
    <3>1. group'[o] = "running" /\ g \in Inner /\ g \in deferred /\ Object(g) = o
      BY <1>1, <1>3, <2>2
    <3>2. QED
      BY <3>1, <1>2, <1>5 DEF Anchored
  <2>3. CASE g \notin L
    <3>1. Running(g)
      BY <2>1, <2>3, <1>4 DEF Running
    <3>2. Anchored(g) /\ (g \in Inner => Object(g) # o)
      BY <3>1, <1>8 DEF AnchorsOK
    <3>3. QED
      BY <3>2, <1>2, <1>4, <1>5, <1>7, <1>9 DEF Anchored
  <2>4. QED
    BY <2>2, <2>3
<1>14. OrderOK'
  <2>1. ASSUME NEW g \in Fields, group'[g] # "none" PROVE state'[g] = "data"
    <3>1. CASE g = o
      BY <3>1, <2>1, <1>1, <1>4, <1>6
    <3>2. CASE g # o
      BY <3>2, <2>1, <1>4, <1>7, <1>9 DEF OrderOK
    <3>3. QED
      BY <3>1, <3>2
  <2>2. ASSUME NEW g \in Inner, Object(g) \in Fields, state'[Object(g)] \in {"none", "resolve"}
        PROVE  state'[g] = "none"
    <3>1. Object(g) # o
      BY <2>2, <1>4
    <3>2. state[Object(g)] \in {"none", "resolve"}
      BY <2>2, <3>1, <1>4, <1>7
    <3>3. state[g] = "none"
      BY <2>2, <3>2 DEF OrderOK
    <3>4. g # o /\ g \notin L
      BY <3>1, <3>3, <1>2, <1>3
    <3>5. QED
      BY <3>3, <3>4, <1>4, Shape
  <2>3. ASSUME NEW g \in Inner \cap deferred, Object(g) \in Fields, state'[Object(g)] = "object"
        PROVE  state'[g] = "none"
    <3>1. Object(g) # o /\ state[Object(g)] = "object"
      BY <2>3, <1>4
    <3>2. state[g] = "none"
      BY <2>3, <3>1 DEF OrderOK
    <3>3. g # o /\ g \notin L
      BY <3>1, <3>2, <1>2, <1>3
    <3>4. QED
      BY <3>2, <3>3, <1>4, Shape
  <2>4. QED
    BY <2>1, <2>2, <2>3, <1>2, <1>5, <1>6 DEF OrderOK
<1>15. more # "no"
  BY <1>2, Quiet DEF AnnouncedComes, ResponsesOK, Running
<1>16. ResponsesOK' /\ AnnouncedComes' /\ (deferred \subseteq Inner)'
  BY <1>1, <1>2, <1>5, <1>15, PendingNat DEF ResponsesOK, AnnouncedComes
<1>17. QED
  BY <1>12, <1>13, <1>14, <1>16

LEMMA CompleteGroupInv ==
  ASSUME ExecutionInv, NEW o \in Fields, CompleteGroup(o) PROVE ExecutionInv'
<1> USE DEF ExecutionInv, ExecutionTypeOK
<1>1. /\ group[o] = "running" /\ \A f \in Late(o) : Done(f)
      /\ group' = [group EXCEPT ![o] = "sending"]
      /\ UNCHANGED <<operation, deferred, streams, handler, state, pendingDeferred, more>>
  BY DEF CompleteGroup
<1>2. Inner' = Inner /\ \A g : Object(g)' = Object(g)
  BY <1>1 DEF Inner, Selected, Object
<1>3. Outstanding' = Outstanding
  BY <1>1 DEF Outstanding
<1>4. ExecutionTypeOK'
  BY <1>1, <1>3 DEF Groups
<1>5. \A g \in Inner \cap deferred : Object(g) = o => ~Running(g)
  BY <1>1 DEF Late, Members, Inner, Done, Running
<1>6. AnchorsOK'
  BY <1>1, <1>2, <1>5 DEF AnchorsOK, Anchored, Running
<1>7. OrderOK'
  BY <1>1, <1>2 DEF OrderOK
<1>8. ResponsesOK' /\ AnnouncedComes' /\ (deferred \subseteq Inner)'
  BY <1>1, <1>2, <1>3 DEF ResponsesOK, AnnouncedComes
<1>9. QED
  BY <1>4, <1>6, <1>7, <1>8

LEMMA RespondInv == ASSUME ExecutionInv, Respond PROVE ExecutionInv'
<1> USE DEF ExecutionInv, ExecutionTypeOK
<1>1. /\ handler = "executing" /\ \A f \in Roots[operation] : Done(f)
      /\ handler' \in {"next", "left"}
      /\ UNCHANGED <<operation, deferred, streams, state, group, pendingDeferred>>
  BY DEF Respond, AfterAnswer
<1>2. \/ more' = "none"
      \/ operation = "query" /\ more' = HasNext(pendingDeferred)
  BY DEF Respond
<1>3. Inner' = Inner /\ \A g : Object(g)' = Object(g)
  BY <1>1 DEF Inner, Selected, Object
<1>4. Outstanding' = Outstanding
  BY <1>1 DEF Outstanding
<1>5. ExecutionTypeOK'
  BY <1>1, <1>2, <1>4 DEF Handlers, HasNext
<1>6. AnchorsOK'
  BY <1>1, <1>3 DEF AnchorsOK, Anchored, Running, Done
<1>7. OrderOK'
  BY <1>1, <1>3 DEF OrderOK
<1>8. more' = "no" => Outstanding = {}
  <2>1. SUFFICES ASSUME more' = "no" PROVE Outstanding = {}
    OBVIOUS
  <2>2. pendingDeferred = 0
    BY <2>1, <1>2, PendingNat DEF HasNext
  <2>3. QED
    BY <2>2, GroupsFinite, FS_EmptySet
<1>9. ResponsesOK' /\ AnnouncedComes' /\ (deferred \subseteq Inner)'
  BY <1>1, <1>2, <1>3, <1>4, <1>8 DEF ResponsesOK, AnnouncedComes, HasNext
<1>10. QED
  BY <1>5, <1>6, <1>7, <1>9

LEMMA AskAgainInv == ASSUME ExecutionInv, AskAgain PROVE ExecutionInv'
<1> USE DEF ExecutionInv, ExecutionTypeOK
<1>1. /\ handler = "next"
      /\ handler' = IF operation = "query" /\ pendingDeferred > 0 THEN "waiting" ELSE "ended"
      /\ UNCHANGED <<operation, deferred, streams, state, group, pendingDeferred, more>>
  BY DEF AskAgain
<1>2. Inner' = Inner /\ \A g : Object(g)' = Object(g)
  BY <1>1 DEF Inner, Selected, Object
<1>3. Outstanding' = Outstanding
  BY <1>1 DEF Outstanding
<1>4. ExecutionTypeOK'
  BY <1>1, <1>3 DEF Handlers
<1>5. AnchorsOK' /\ OrderOK'
  BY <1>1, <1>2 DEF AnchorsOK, Anchored, Running, OrderOK
<1>6. ResponsesOK' /\ AnnouncedComes' /\ (deferred \subseteq Inner)'
  BY <1>1, <1>2, <1>3 DEF ResponsesOK, AnnouncedComes
<1>7. QED
  BY <1>4, <1>5, <1>6

LEMMA ReceiveInv ==
  ASSUME ExecutionInv, NEW o \in Fields, Receive(o) PROVE ExecutionInv'
<1> USE DEF ExecutionInv, ExecutionTypeOK
<1>1. /\ handler = "waiting" /\ group[o] = "sending"
      /\ handler' = "held" /\ group' = [group EXCEPT ![o] = "received"]
      /\ UNCHANGED <<operation, deferred, streams, state, pendingDeferred, more>>
  BY DEF Receive
<1>2. Inner' = Inner /\ \A g : Object(g)' = Object(g)
  BY <1>1 DEF Inner, Selected, Object
<1>3. Outstanding' = Outstanding
  BY <1>1 DEF Outstanding
<1>4. ExecutionTypeOK'
  BY <1>1, <1>3 DEF Handlers, Groups
<1>5. AnchorsOK' /\ OrderOK'
  BY <1>1, <1>2 DEF AnchorsOK, Anchored, Running, OrderOK
<1>6. ResponsesOK' /\ AnnouncedComes' /\ (deferred \subseteq Inner)'
  BY <1>1, <1>2, <1>3 DEF ResponsesOK, AnnouncedComes
<1>7. QED
  BY <1>4, <1>5, <1>6

LEMMA RespondGroupInv ==
  ASSUME ExecutionInv, NEW o \in Fields, RespondGroup(o) PROVE ExecutionInv'
<1> USE DEF ExecutionInv, ExecutionTypeOK
<1>1. /\ handler = "held" /\ group[o] = "received" /\ handler' = "next"
      /\ group' = [group EXCEPT ![o] = "delivered"]
      /\ pendingDeferred' = pendingDeferred - 1 /\ more' = HasNext(pendingDeferred')
      /\ UNCHANGED <<operation, deferred, streams, state>>
  BY DEF RespondGroup
<1>2. Inner' = Inner /\ \A g : Object(g)' = Object(g)
  BY <1>1 DEF Inner, Selected, Object
<1>3. o \in Outstanding /\ Outstanding' = Outstanding \ {o}
  BY <1>1 DEF Outstanding
<1>4. IsFiniteSet(Outstanding') /\ pendingDeferred' = Cardinality(Outstanding')
  BY <1>1, <1>3, GroupsFinite, FS_RemoveElement
<1>5. ExecutionTypeOK'
  BY <1>1, <1>4 DEF Handlers, Groups, HasNext
<1>6. AnchorsOK' /\ OrderOK'
  BY <1>1, <1>2 DEF AnchorsOK, Anchored, Running, OrderOK
<1>7. more' = "no" => Outstanding' = {}
  <2>1. SUFFICES ASSUME more' = "no" PROVE Outstanding' = {}
    OBVIOUS
  <2>2. pendingDeferred' = 0
    BY <2>1, <1>1, <1>4, FS_CardinalityType DEF HasNext
  <2>3. QED
    BY <2>2, <1>4, FS_EmptySet
<1>8. ResponsesOK' /\ AnnouncedComes' /\ (deferred \subseteq Inner)'
  BY <1>1, <1>2, <1>7 DEF ResponsesOK, AnnouncedComes, HasNext
<1>9. QED
  BY <1>5, <1>6, <1>8

LEMMA StutterInv == ASSUME ExecutionInv, UNCHANGED executionVars PROVE ExecutionInv'
BY DEF executionVars, ExecutionInv, ExecutionTypeOK, AnchorsOK, Anchored, Running,
       OrderOK, ResponsesOK, AnnouncedComes, Inner, Selected, Object, Outstanding

LEMMA LaterInv == ASSUME ExecutionInv, ResolverStep \/ LaterStep PROVE ExecutionInv'
BY NextMutationInv, ResolveInv, CompleteInv, CompleteGroupInv, AskAgainInv,
   ReceiveInv, RespondGroupInv DEF ResolverStep, LaterStep

LEMMA ServingExecutionInv ==
  ASSUME ExecutionInv, [ServingNext]_servingVars PROVE ExecutionInv'
<1>1. CASE UNCHANGED executionVars
  BY <1>1, StutterInv
<1>2. CASE Begin
  BY <1>2, ExecInv DEF Begin
<1>3. CASE FirstResponse
  BY <1>3, RespondInv DEF FirstResponse
<1>4. CASE Execute
  BY <1>4, LaterInv DEF Execute
<1>5. QED
  BY <1>1, <1>2, <1>3, <1>4 DEF ServingNext, Process, OpenSocket, servingVars

LEMMA ServingExecutionInit == ServingInit => ExecutionInv
<1> SUFFICES ASSUME ServingInit PROVE ExecutionInv
  OBVIOUS
<1>1. /\ operation \in DOMAIN Roots /\ streams \in BOOLEAN
      /\ deferred \in SUBSET (Selected \ Roots[operation])
      /\ handler = "idle" /\ more = "none" /\ pendingDeferred = 0
      /\ state = [f \in Fields |-> "none"] /\ group = [f \in Fields |-> "none"]
  BY DEF ServingInit, ExecutionInit
<1>2. Outstanding = {}
  BY <1>1 DEF Outstanding
<1>3. deferred \subseteq Inner /\ Inner \subseteq Fields
  BY <1>1, Shape DEF Inner
<1>4. ExecutionTypeOK
  BY <1>1, <1>2, <1>3, FS_EmptySet DEF ExecutionTypeOK, States, Groups, Handlers
<1>5. AnchorsOK /\ OrderOK /\ ResponsesOK /\ AnnouncedComes
  BY <1>1, <1>2, <1>3 DEF AnchorsOK, Running, OrderOK, ResponsesOK, AnnouncedComes
<1>6. QED
  BY <1>3, <1>4, <1>5 DEF ExecutionInv

----------------------------------------------------------------------------
\* The process and its requests do in Serving what AppLifecycle says.
LEMMA ServingIsLifecycle == [ServingNext]_servingVars => [Next]_vars
<1>1. Process => Next
  BY DEF Process, Next
<1>2. OpenSocket \/ Execute \/ UNCHANGED servingVars => UNCHANGED vars
  BY DEF OpenSocket, Execute, servingVars
<1>3. Begin => [Next]_vars
  BY OperationAssumption DEF Begin, Next
<1>4. FirstResponse => [Next]_vars
  BY OperationAssumption DEF FirstResponse, Next
<1>5. QED
  BY <1>1, <1>2, <1>3, <1>4 DEF ServingNext

LEMMA RequestStep == ASSUME RequestOK, [ServingNext]_servingVars PROVE RequestOK'
<1>1. CASE Process
  <2>1. UNCHANGED <<streams, handler, socket>>
    BY <1>1 DEF Process, executionVars
  <2>2. CASE UNCHANGED running \/ exit' # "none"
    <3>1. Alive' => Alive
      BY <1>1 DEF Process, Main, Load, Connect, Resolver, Notify, ReceiveSignal,
         BeginShutdown, Drain, CloseDb, CloseCache, Return, Fail, Signal, Listen,
         ListenFails, Expire, Accept, Answer, Alive
    <3>2. QED
      BY <2>1, <2>2, <3>1 DEF RequestOK, Alive
  <2>3. CASE \E q \in Requests \ {Operation} : Accept(q) \/ Answer(q)
    BY <2>1, <2>3 DEF RequestOK, Accept, Answer, Alive
  <2>4. QED
    BY <1>1, <2>2, <2>3 DEF Process, Main, Load, Connect, Resolver, Notify,
       ReceiveSignal, BeginShutdown, Drain, CloseDb, CloseCache, Return, Fail,
       Signal, Listen, ListenFails, Expire, Exit
<1>2. CASE OpenSocket
  BY <1>2 DEF OpenSocket, RequestOK, vars, executionVars, Alive
<1>3. CASE Begin
  BY <1>3 DEF Begin, RequestOK, Exec, Accept, vars, Alive
<1>4. CASE FirstResponse
  BY <1>4 DEF FirstResponse, RequestOK, Respond, AfterAnswer
<1>5. CASE Execute
  <2>1. UNCHANGED <<vars, socket, streams>>
    BY <1>5 DEF Execute, ResolverStep, LaterStep, NextMutation, Resolve, Complete,
       CompleteGroup, AskAgain, Receive, RespondGroup
  <2>2. handler' = "executing" => handler = "executing"
    BY <1>5 DEF Execute, ResolverStep, LaterStep, NextMutation, Resolve, Complete,
       CompleteGroup, AskAgain, Receive, RespondGroup
  <2>3. QED
    BY <2>1, <2>2 DEF RequestOK, vars, Alive
<1>6. CASE UNCHANGED servingVars
  BY <1>6 DEF servingVars, vars, executionVars, RequestOK, Alive
<1>7. QED
  BY <1>1, <1>2, <1>3, <1>4, <1>5, <1>6 DEF ServingNext

\* Every state of Serving satisfies the invariants of both parts and keeps its
\* request in flight.
LEMMA ServingInvariant == ServingSpec => [](ExecutionInv /\ Inv /\ RequestOK)
<1>1. ServingInit => ExecutionInv /\ Inv /\ RequestOK
  <2>1. ServingInit => RequestOK
    BY DEF ServingInit, ExecutionInit, RequestOK
  <2>2. QED
    BY <2>1, ServingExecutionInit, InitInv DEF ServingInit
<1>2. ASSUME ExecutionInv /\ Inv /\ RequestOK, [ServingNext]_servingVars
      PROVE  (ExecutionInv /\ Inv /\ RequestOK)'
  BY <1>2, ServingExecutionInv, ServingIsLifecycle, NextInv, RequestStep
<1>3. QED
  BY <1>1, <1>2, PTL DEF ServingSpec

\* Over HTTP and over a websocket, however groups start, end and start other
\* groups: after "no further response" nothing is left to answer, and the
\* stream does not end after "a further response" (generated.go:2198).
THEOREM AnnouncedTheorem == ServingSpec => []AnnouncedComes
<1>1. ExecutionInv => AnnouncedComes
  BY DEF ExecutionInv
<1>2. QED
  BY <1>1, ServingInvariant, PTL

\* The variables keep their types; PendingDeferred counts the open groups.
THEOREM ServingTypeCorrect == ServingSpec => []ServingTypeOK
<1>1. ExecutionInv /\ Inv => ServingTypeOK
  BY DEF ExecutionInv, Inv, ServingTypeOK
<1>2. QED
  BY <1>1, ServingInvariant, PTL

\* A resolver that runs when the database is closed (app.go:197) is one that no
\* response waited for: deferred, or asked for over a websocket.
THEOREM LateTheorem == ServingSpec => []LateMeansUnawaited
<1>1. ASSUME ExecutionInv, Inv, RequestOK PROVE LateMeansUnawaited
  <2>1. SUFFICES ASSUME NEW f \in Fields, Alive, state[f] = "resolve", db # "open",
                        ~InGroup(f), ~streams
                 PROVE  FALSE
    BY DEF LateMeansUnawaited
  <2>2. running = {}
    BY <1>1, <2>1 DEF Inv, TypeOK, HandlersOK, ConnectionsOK, Notified, MainLabels
  <2>3. handler # "executing"
    BY <1>1, <2>1, <2>2 DEF RequestOK
  <2>4. operation \in DOMAIN Roots
    BY <1>1 DEF ExecutionInv, ExecutionTypeOK
  <2>5. \A g \in Fields : Running(g) =>
          g \in Inner /\ (g \notin deferred => Object(g) \in Fields /\ Running(Object(g)))
    BY <1>1, <2>3 DEF ExecutionInv, AnchorsOK, Anchored, Running
  <2>6. f \in Inner /\ Object(f) \in Inner /\ Object(Object(f)) \in Inner
    BY <2>1, <2>5 DEF InGroup, Running
  <2>7. QED
    BY <2>4, <2>6, Shape
<1>2. QED
  BY <1>1, ServingInvariant, PTL

\* The invariants of AppLifecycle hold with the operation in it.
THEOREM ServingServedTheorem == ServingSpec => [](ServedWithDatabase /\ OrderlyExit)
<1>1. Inv => ServedWithDatabase /\ OrderlyExit
  BY DEF Inv, TypeOK, HandlersOK, ConnectionsOK, ServedWithDatabase, Notified, MainLabels
<1>2. QED
  BY <1>1, ServingInvariant, PTL
=============================================================================
