---------------------------- MODULE AppLifecycle ----------------------------
(***************************************************************************)
(* The life of the process: cmd/server/main.go, New and Run of             *)
(* internal/app/app.go.  The main goroutine connects, starts the goroutine *)
(* that listens, waits for a signal and shuts down; the handlers run in    *)
(* goroutines of their own; whoever calls log.Fatal ends all of them.      *)
(* The steps of http.Server are those the code relies on: ListenAndServe   *)
(* returns ErrServerClosed once Shutdown was called, and Shutdown closes   *)
(* the listener and waits for the handlers, but not longer than its        *)
(* context lives.                                                          *)
(* Left out: what a handler does and websockets, which Serving models, and *)
(* metrics and the middleware.                                             *)
(***************************************************************************)
EXTENDS Naturals

CONSTANT Requests   \* requests the process can have in flight

VARIABLES
  main,      \* next step of the main goroutine
  listener,  \* the goroutine of ListenAndServe
  pending,   \* signals in the channel done, which has room for one
  expired,   \* has the context of Shutdown run out?
  db, cache, \* the connections New opens and Run closes
  running,   \* requests in flight
  cut,       \* requests the end of the process has cut off
  exit       \* how the process has ended

vars == <<main, listener, pending, expired, db, cache, running, cut, exit>>

MainLabels == {"load", "connect", "resolver", "notify", "wait", "shutdown",
               "drain", "close_db", "close_cache", "return"}
ListenerLabels == {"none", "started", "binding", "open", "returned"}
Connections == {"none", "open", "closed"}

Init ==
  /\ main = "load" /\ listener = "none"
  /\ pending = 0 /\ expired = FALSE
  /\ db = "none" /\ cache = "none"
  /\ running = {} /\ cut = {} /\ exit = "none"

----------------------------------------------------------------------------
Alive == exit = "none"

\* os.Exit, from any goroutine: the handlers in flight stop where they are.
Exit(status) ==
  /\ exit' = status /\ cut' = running /\ running' = {}
  /\ UNCHANGED <<main, listener, pending, expired, db, cache>>

\* main logs the error of Load, New or Run and exits.  New can only fail
\* before there is anything to close; Run returns without closing.
Fail ==
  /\ Alive /\ main \in {"load", "connect", "resolver"}
  /\ Exit("fatal")

Load ==
  /\ Alive /\ main = "load" /\ main' = "connect"
  /\ UNCHANGED <<listener, pending, expired, db, cache, running, cut, exit>>

\* New: the cache client is nil when Redis cannot be reached.
Connect ==
  /\ Alive /\ main = "connect" /\ main' = "resolver"
  /\ db' = "open" /\ cache' \in {"none", "open"}
  /\ UNCHANGED <<listener, pending, expired, running, cut, exit>>

\* Run up to the server value.
Resolver ==
  /\ Alive /\ main = "resolver" /\ main' = "notify"
  /\ UNCHANGED <<listener, pending, expired, db, cache, running, cut, exit>>

\* signal.Notify, and the goroutine that listens.
Notify ==
  /\ Alive /\ main = "notify" /\ main' = "wait" /\ listener' = "started"
  /\ UNCHANGED <<pending, expired, db, cache, running, cut, exit>>

Notified == main \notin {"load", "connect", "resolver", "notify"}

\* SIGINT or SIGTERM: until Notify it ends the process; then it is put in the
\* channel, and dropped when that is full.
Signal ==
  /\ Alive
  /\ \/ ~Notified /\ Exit("killed")
     \/ /\ Notified /\ pending' = IF pending < 1 THEN pending + 1 ELSE pending
        /\ UNCHANGED <<main, listener, expired, db, cache, running, cut, exit>>

ShuttingDown == main \in {"drain", "close_db", "close_cache", "return"}

\* ListenAndServe looks whether Shutdown was called, binds the port, and looks
\* again when it begins to accept.
Listen ==
  /\ Alive
  /\ \/ /\ listener = "started"
        /\ listener' = IF ShuttingDown THEN "returned" ELSE "binding"
     \/ /\ listener = "binding"
        /\ listener' = IF ShuttingDown THEN "returned" ELSE "open"
  /\ UNCHANGED <<main, pending, expired, db, cache, running, cut, exit>>

\* The port is taken, or accepting fails: log.Fatal.
ListenFails ==
  /\ Alive /\ listener \in {"binding", "open"} /\ Exit("fatal")

Accept(q) ==
  /\ Alive /\ listener = "open" /\ q \notin running
  /\ running' = running \cup {q}
  /\ UNCHANGED <<main, listener, pending, expired, db, cache, cut, exit>>

Answer(q) ==
  /\ Alive /\ q \in running
  /\ running' = running \ {q}
  /\ UNCHANGED <<main, listener, pending, expired, db, cache, cut, exit>>

ReceiveSignal ==
  /\ Alive /\ main = "wait" /\ pending > 0
  /\ main' = "shutdown" /\ pending' = pending - 1
  /\ UNCHANGED <<listener, expired, db, cache, running, cut, exit>>

\* Mutant: connections are closed first, so that the handlers fail fast.
CloseThenShutdown ==
  /\ Alive /\ main = "shutdown" /\ main' = "drain"
  /\ db' = "closed"
  /\ listener' = IF listener = "open" THEN "returned" ELSE listener
  /\ UNCHANGED <<pending, expired, cache, running, cut, exit>>

\* Shutdown: no request is accepted any more.
BeginShutdown ==
  /\ Alive /\ main = "shutdown" /\ main' = "drain"
  /\ listener' = IF listener = "open" THEN "returned" ELSE listener
  /\ UNCHANGED <<pending, expired, db, cache, running, cut, exit>>

\* Ten seconds after the signal.
Expire ==
  /\ Alive /\ main = "drain" /\ ~expired
  /\ expired' = TRUE
  /\ UNCHANGED <<main, listener, pending, db, cache, running, cut, exit>>

\* Mutant: Shutdown waits with a context that has no deadline.
DrainForever ==
  /\ Alive /\ main = "drain" /\ running = {} /\ main' = "close_db"
  /\ UNCHANGED <<listener, pending, expired, db, cache, running, cut, exit>>

\* Shutdown returns when no request is in flight, or an error when its context
\* has run out; then Run returns it without closing anything and main exits.
Drain ==
  /\ Alive /\ main = "drain"
  /\ \/ /\ running = {} /\ main' = "close_db"
        /\ UNCHANGED <<listener, pending, expired, db, cache, running, cut, exit>>
     \/ expired /\ Exit("fatal")

\* Mutant: without a cache there is nothing to close.
CloseBoth ==
  /\ Alive /\ main = "close_db" /\ main' = "close_cache"
  /\ db' = IF cache = "none" THEN db ELSE "closed"
  /\ UNCHANGED <<listener, pending, expired, cache, running, cut, exit>>

CloseDb ==
  /\ Alive /\ main = "close_db" /\ main' = "close_cache" /\ db' = "closed"
  /\ UNCHANGED <<listener, pending, expired, cache, running, cut, exit>>

CloseCache ==
  /\ Alive /\ main = "close_cache" /\ main' = "return"
  /\ cache' = IF cache = "open" THEN "closed" ELSE cache
  /\ UNCHANGED <<listener, pending, expired, db, running, cut, exit>>

Return == Alive /\ main = "return" /\ Exit("ok")

Main ==
  \/ Load \/ Connect \/ Resolver \/ Notify \/ ReceiveSignal \/ BeginShutdown
  \/ Drain \/ CloseDb \/ CloseCache \/ Return

Next ==
  \/ Main \/ Fail \/ Signal \/ Listen \/ ListenFails \/ Expire
  \/ \E q \in Requests : Accept(q) \/ Answer(q)

Spec == Init /\ [][Next]_vars

\* The main goroutine is scheduled and time passes.  Nothing is assumed of the
\* handlers: their statements have no timeout.
Fairness == WF_vars(Main) /\ WF_vars(Expire)
FairSpec == Spec /\ Fairness
----------------------------------------------------------------------------
(* Correctness.                                                            *)

\* The variables keep their types; at most one signal waits to be received.
TypeOK ==
  /\ main \in MainLabels /\ listener \in ListenerLabels
  /\ pending \in 0..1 /\ expired \in BOOLEAN
  /\ db \in Connections /\ cache \in Connections
  /\ running \subseteq Requests /\ cut \subseteq Requests
  /\ exit \in {"none", "ok", "fatal", "killed"}

\* No handler meets a database that is not open: it is open before the first
\* request is accepted and closed (app.go:197) after the last one is answered,
\* whenever the signal comes, also while the port is being bound.
ServedWithDatabase == running # {} => db = "open"

\* An orderly exit has answered every request and closed what was opened.
OrderlyExit ==
  exit = "ok" => cut = {} /\ db = "closed" /\ cache # "open"

\* After the signal, a handler is cut off only when the ten seconds are over
\* (app.go:190); further signals do not shorten them.
CutMeansExpired ==
  [][(cut' # cut /\ ShuttingDown) => expired]_vars

\* A signal ends the process, once it runs, even if a handler hangs.
SignalEnds == (main = "wait" /\ pending > 0) ~> ~Alive
=============================================================================
