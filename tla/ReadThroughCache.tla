-------------------------- MODULE ReadThroughCache --------------------------
(***************************************************************************)
(* The caches of internal/repository/store.go, group.go and                *)
(* eav_attribute.go, which are one algorithm: look up under the read lock, *)
(* SELECT without a lock, fill under the write lock.  A key is a store id, *)
(* a group id, or the entity type whose attributes are asked for.  Errors  *)
(* and missing rows are returned and not cached; nothing is ever removed.  *)
(*                                                                         *)
(* The lock is Go's sync.RWMutex: one writer at a time, and a writer that  *)
(* waits for the readers in front of it keeps new readers out.  Holding it *)
(* for reading is the state between RLock and Lookup, for writing the one  *)
(* between Drain and Fill.                                                 *)
(***************************************************************************)
EXTENDS FiniteSets

CONSTANTS
  Requests,  \* goroutines of the server
  Keys,      \* keys of the table
  Values,    \* rows of the table
  NoValue    \* no row, nothing cached, no answer

ASSUME NoValueAssumption == NoValue \notin Keys \cup Values \cup Requests

VARIABLES
  table,   \* the row of each key, or NoValue
  cache,   \* the map: what is cached for each key, or NoValue
  writer,  \* the request that holds the lock for writing or waits to, if any
  pc,      \* next step of each request
  got,     \* the row its SELECT has returned
  asked,   \* the key it has asked for, or NoValue
  answer,  \* the answer given last, NoValue for an error
  fresh,   \* history: was nothing cached when it asked?
  seen     \* history: rows the table has had for its key since

history == <<fresh, seen>>
vars == <<table, cache, writer, pc, got, asked, answer, fresh, seen>>

Rows == Values \cup {NoValue}
Labels == {"idle", "rlock", "lookup", "select", "lock", "drain", "fill"}

Init ==
  /\ table \in [Keys -> Rows]
  /\ cache = [k \in Keys |-> NoValue]
  /\ writer = NoValue
  /\ pc = [r \in Requests |-> "idle"]
  /\ got = [r \in Requests |-> NoValue]
  /\ asked = [r \in Requests |-> NoValue]
  /\ answer = NoValue
  /\ fresh = [r \in Requests |-> FALSE]
  /\ seen = [r \in Requests |-> {}]

----------------------------------------------------------------------------
Goto(r, label) == pc' = [pc EXCEPT ![r] = label]

\* The return of the value, or of an error when there is none.
Reply(r, value) ==
  /\ Goto(r, "idle")
  /\ answer' = value
  /\ asked' = [asked EXCEPT ![r] = NoValue]
  /\ got' = [got EXCEPT ![r] = NoValue]
  /\ fresh' = [fresh EXCEPT ![r] = FALSE]
  /\ seen' = [seen EXCEPT ![r] = {}]

\* The shop edits a row, inserts it or deletes it; the server is not told.
Change(k) ==
  /\ \E v \in Rows : table' = [table EXCEPT ![k] = v]
  /\ seen' = [r \in Requests |->
                IF asked[r] = k THEN seen[r] \cup ({table'[k]} \ {NoValue})
                ELSE seen[r]]
  /\ UNCHANGED <<cache, writer, pc, got, asked, answer, fresh>>

Get(r, k) ==
  /\ pc[r] = "idle" /\ Goto(r, "rlock")
  /\ asked' = [asked EXCEPT ![r] = k]
  /\ fresh' = [fresh EXCEPT ![r] = cache[k] = NoValue]
  /\ seen' = [seen EXCEPT ![r] = {table[k]} \ {NoValue}]
  /\ UNCHANGED <<table, cache, writer, got, answer>>

RLock(r) ==
  /\ pc[r] = "rlock" /\ writer = NoValue
  /\ Goto(r, "lookup")
  /\ UNCHANGED <<table, cache, writer, got, asked, answer, history>>

\* The map is read and the read lock released, in that order on both ways.
Lookup(r) ==
  /\ pc[r] = "lookup"
  /\ LET v == cache[asked[r]] IN
     \/ v # NoValue /\ Reply(r, v)
     \/ /\ v = NoValue /\ Goto(r, "select")
        /\ UNCHANGED <<got, asked, answer, history>>
  /\ UNCHANGED <<table, cache, writer>>

\* Mutant: a missing row is remembered like one that exists, as the last one.
SelectAny(r) ==
  /\ pc[r] = "select"
  /\ got' = [got EXCEPT ![r] = IF table[asked[r]] # NoValue THEN table[asked[r]]
                               ELSE CHOOSE v \in Values : TRUE]
  /\ Goto(r, "lock") /\ UNCHANGED <<asked, answer, history>>
  /\ UNCHANGED <<table, cache, writer>>

\* Any SELECT may fail; so does the one of a row that does not exist.
Select(r) ==
  /\ pc[r] = "select"
  /\ \/ /\ table[asked[r]] # NoValue
        /\ got' = [got EXCEPT ![r] = table[asked[r]]]
        /\ Goto(r, "lock") /\ UNCHANGED <<asked, answer, history>>
     \/ Reply(r, NoValue)
  /\ UNCHANGED <<table, cache, writer>>

\* Mutant: the lock is not taken again when the SELECT found the row.
LockNever(r) ==
  /\ pc[r] = "lock"
  /\ Goto(r, "fill")
  /\ UNCHANGED <<table, cache, writer, got, asked, answer, history>>

\* Other writers wait, and from now on new readers do.
Lock(r) ==
  /\ pc[r] = "lock" /\ writer = NoValue
  /\ writer' = r /\ Goto(r, "drain")
  /\ UNCHANGED <<table, cache, got, asked, answer, history>>

Reading == {r \in Requests : pc[r] = "lookup"}

\* The readers in front have gone.
Drain(r) ==
  /\ pc[r] = "drain" /\ Reading = {}
  /\ Goto(r, "fill")
  /\ UNCHANGED <<table, cache, writer, got, asked, answer, history>>

\* Mutant: the early return between Lock and Unlock forgets the Unlock.
FillKeepingLock(r) ==
  /\ pc[r] = "fill"
  /\ IF cache[asked[r]] # NoValue THEN UNCHANGED <<cache, writer>>
     ELSE /\ cache' = [cache EXCEPT ![asked[r]] = got[r]]
          /\ writer' = NoValue
  /\ Reply(r, got[r])
  /\ UNCHANGED table

\* The row is cached, over what another request may have cached meanwhile,
\* the lock released and the row returned.
Fill(r) ==
  /\ pc[r] = "fill"
  /\ cache' = [cache EXCEPT ![asked[r]] = got[r]]
  /\ writer' = NoValue
  /\ Reply(r, got[r])
  /\ UNCHANGED table

Step(r) ==
  RLock(r) \/ Lookup(r) \/ Select(r) \/ Lock(r) \/ Drain(r) \/ Fill(r)

Next ==
  \/ \E r \in Requests : Step(r) \/ \E k \in Keys : Get(r, k)
  \/ \E k \in Keys : Change(k)

Spec == Init /\ [][Next]_vars

\* A goroutine that can go on does: it is scheduled, a SELECT returns, and a
\* lock that stays free is given to who waits for it.
Fairness == \A r \in Requests : WF_vars(Step(r))
FairSpec == Spec /\ Fairness
----------------------------------------------------------------------------
(* Correctness.                                                            *)

\* The variables keep their types, and the lock is held by a request that is
\* about to fill.
TypeOK ==
  /\ table \in [Keys -> Rows] /\ cache \in [Keys -> Rows]
  /\ writer \in Requests \cup {NoValue}
  /\ pc \in [Requests -> Labels]
  /\ got \in [Requests -> Rows] /\ answer \in Rows
  /\ asked \in [Requests -> Keys \cup {NoValue}]
  /\ fresh \in [Requests -> BOOLEAN]
  /\ seen \in [Requests -> SUBSET Values]
  /\ writer # NoValue => pc[writer] \in {"drain", "fill"}

\* The map is written by one request at a time and read by none meanwhile
\* (store.go:49): the runtime aborts a process that does otherwise.
WritesAlone ==
  \A r \in Requests :
    pc[r] = "fill" =>
      /\ writer = r
      /\ \A q \in Requests \ {r} : pc[q] \notin {"lookup", "fill"}

\* The lookups, SELECTs and fills of any number of requests, with fills that
\* overwrite each other, keep the promise of MemoizedValues: a value that is
\* cached and answered was in the table while its question was open, and only
\* questions asked before the first fill may change it or meet an error.
Memoized == INSTANCE MemoizedValues WITH memo <- cache
ImplementsMemoizedValues == Memoized!Spec

\* Every question is answered, although writers keep readers out and readers
\* hold writers up (store.go:31-50).
Answered == \A r \in Requests : pc[r] # "idle" ~> pc[r] = "idle"
=============================================================================
