--------------------------- MODULE MemoizedValues ---------------------------
(***************************************************************************)
(* What callers of a cache that is never invalidated may rely on: until a  *)
(* value is remembered for a key, an answer is a value the table had while *)
(* the question was open, or an error; questions asked later are answered  *)
(* with the value remembered, always the same once the questions asked     *)
(* before it was remembered are answered.                                  *)
(***************************************************************************)
CONSTANTS
  Requests,  \* goroutines that ask
  Keys,      \* keys of the table
  Values,    \* rows of the table
  NoValue    \* no row, nothing remembered, no answer

VARIABLES
  table,   \* the row of each key, or NoValue
  memo,    \* the value remembered for each key, or NoValue
  asked,   \* the key each request has asked for, or NoValue
  fresh,   \* was nothing remembered when it asked?
  seen,    \* rows the table has had for its key since
  answer   \* the answer given last, NoValue for an error

vars == <<table, memo, asked, fresh, seen, answer>>

Init ==
  /\ table \in [Keys -> Values \cup {NoValue}]
  /\ memo = [k \in Keys |-> NoValue]
  /\ asked = [r \in Requests |-> NoValue]
  /\ fresh = [r \in Requests |-> FALSE]
  /\ seen = [r \in Requests |-> {}]
  /\ answer = NoValue

\* The shop edits a row, inserts it or deletes it.
Change(k) ==
  /\ \E v \in Values \cup {NoValue} : table' = [table EXCEPT ![k] = v]
  /\ seen' = [r \in Requests |->
                IF asked[r] = k THEN seen[r] \cup ({table'[k]} \ {NoValue})
                ELSE seen[r]]
  /\ UNCHANGED <<memo, asked, fresh, answer>>

Ask(r, k) ==
  /\ asked[r] = NoValue
  /\ asked' = [asked EXCEPT ![r] = k]
  /\ fresh' = [fresh EXCEPT ![r] = memo[k] = NoValue]
  /\ seen' = [seen EXCEPT ![r] = {table[k]} \ {NoValue}]
  /\ UNCHANGED <<table, memo, answer>>

\* Answers of request r: a value remembered, or, when it found none, also a
\* row it has seen, which it may leave behind as the value remembered.
Answer(r) ==
  LET k == asked[r] IN
  /\ k # NoValue
  /\ \/ /\ memo[k] # NoValue /\ answer' = memo[k]
        /\ UNCHANGED memo
     \/ /\ fresh[r] /\ answer' = NoValue /\ UNCHANGED memo
     \/ \E v \in seen[r] :
          /\ fresh[r] /\ answer' = v
          /\ memo' = [memo EXCEPT ![k] = v]
  /\ asked' = [asked EXCEPT ![r] = NoValue]
  /\ fresh' = [fresh EXCEPT ![r] = FALSE]
  /\ seen' = [seen EXCEPT ![r] = {}]
  /\ UNCHANGED table

Next ==
  \/ \E r \in Requests : Answer(r) \/ \E k \in Keys : Ask(r, k)
  \/ \E k \in Keys : Change(k)

Spec == Init /\ [][Next]_vars
=============================================================================
