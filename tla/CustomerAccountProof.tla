------------------------ MODULE CustomerAccountProof ------------------------
(***************************************************************************)
(* Theorems about CustomerAccount for every set of requests and passwords  *)
(* and every value of the thresholds and bounds.  The inductive invariant  *)
(* adds to TypeOK what a handler knows of its own locals: which operation  *)
(* it runs, that its row was read, and when its timestamp was taken.       *)
(***************************************************************************)
EXTENDS CustomerAccount, FiniteSetTheorems, TLAPS

\* A handler that revokes runs one of the four operations that do; one that
\* uses the row it read has read one; a timestamp about to be written was
\* taken, and not in the future.
HandlerOK(r) ==
  /\ pc[r] \in {"stamp", "revoke"} =>
       op[r] \in {"RevokeToken", "ResetPassword", "ChangePassword",
                 "DeleteCustomer"}
  /\ pc[r] \in {"check", "verify", "increment", "unlock", "mint"} =>
       snap[r] \in CustomerRow
  /\ pc[r] \in {"read", "verify"} => op[r] = "ChangePassword"
  /\ pc[r] = "lock" => stamp[r] \in Nat
  /\ pc[r] = "revoke" => stamp[r] \in 0..now
  /\ (pc[r] = "write" /\ op[r] = "RequestPasswordResetEmail")
       => stamp[r] \in 0..now

Typed == TypeOK /\ \A r \in Requests : HandlerOK(r)

USE BoundAssumption, LockoutAssumption, ParseTimeAssumption,
    OperationsAssumption

----------------------------------------------------------------------------
(* Lemmas about the parts of a handler's step.                             *)

\* A set is numbered from one just when it is an interval from one.
LEMMA NumberedShape ==
  ASSUME NEW S
  PROVE  NumberedFromOne(S) <=> \E n \in Nat : S = 1..n
<1>1. ASSUME NumberedFromOne(S) PROVE \E n \in Nat : S = 1..n
  BY <1>1, FS_CardinalityType DEF NumberedFromOne
<1>2. ASSUME NEW n \in Nat, S = 1..n PROVE NumberedFromOne(S)
  BY <1>2, FS_Interval DEF NumberedFromOne
<1>3. QED
  BY <1>1, <1>2

\* A statement counts at most MaxFaults errors.
LEMMA StatementType ==
  ASSUME TypeOK, NEW a, NEW b, Statement(a, b)
  PROVE  faults' \in 0..MaxFaults /\ faults <= faults'
BY DEF TypeOK, Statement

\* An UPDATE with a well-formed row keeps the row well-formed.
LEMMA UpdateRowType ==
  ASSUME TypeOK, NEW a, NEW new \in CustomerRow, UpdateRow(a, new)
  PROVE  customer' \in CustomerRow
BY DEF TypeOK, UpdateRow

\* Every column assignment of the handlers keeps the row well-formed.
LEMMA RowUpdates ==
  ASSUME customer \in CustomerRow
  PROVE  /\ [customer EXCEPT !.failures = @ + 1] \in CustomerRow
         /\ [customer EXCEPT !.failures = 0, !.lock = Null] \in CustomerRow
         /\ \A t \in Nat : [customer EXCEPT !.lock = t] \in CustomerRow
         /\ \A p \in Passwords : [customer EXCEPT !.password = p] \in CustomerRow
         /\ [customer EXCEPT !.present = FALSE] \in CustomerRow
         /\ [customer EXCEPT !.confirmation = FALSE] \in CustomerRow
         /\ \A n \in Nat, t \in Times :
              [customer EXCEPT !.rpToken = n, !.rpCreated = t] \in CustomerRow
         /\ \A p \in Passwords :
              [customer EXCEPT !.password = p, !.rpToken = 0, !.rpCreated = Null]
                \in CustomerRow
<1>1. [customer EXCEPT !.failures = @ + 1] \in CustomerRow
  BY DEF CustomerRow
<1>2. [customer EXCEPT !.failures = 0, !.lock = Null] \in CustomerRow
  BY DEF CustomerRow
<1>3. \A t \in Nat : [customer EXCEPT !.lock = t] \in CustomerRow
  BY DEF CustomerRow
<1>4. \A p \in Passwords : [customer EXCEPT !.password = p] \in CustomerRow
  BY DEF CustomerRow
<1>5. [customer EXCEPT !.present = FALSE] \in CustomerRow
  BY DEF CustomerRow
<1>6. [customer EXCEPT !.confirmation = FALSE] \in CustomerRow
  BY DEF CustomerRow
<1>7. \A n \in Nat, t \in Times :
        [customer EXCEPT !.rpToken = n, !.rpCreated = t] \in CustomerRow
  BY DEF CustomerRow
<1>8. \A p \in Passwords :
        [customer EXCEPT !.password = p, !.rpToken = 0, !.rpCreated = Null]
          \in CustomerRow
  BY DEF CustomerRow
<1>9. QED
  BY <1>1, <1>2, <1>3, <1>4, <1>5, <1>6, <1>7, <1>8

LocalsType ==
  /\ op \in [Requests -> Operations \cup {"none"}]
  /\ pc \in [Requests -> Labels]
  /\ snap \in [Requests -> CustomerRow \cup {NoRow}]
  /\ stamp \in [Requests -> Nat \cup {Null}]
  /\ result \in [Requests -> {"none", "ok", "error", "panic"}]

\* Only the locals of request r change.
OnlyLocalsOf(r) ==
  \A q \in Requests \ {r} :
    /\ op'[q] = op[q] /\ pc'[q] = pc[q] /\ snap'[q] = snap[q]
    /\ stamp'[q] = stamp[q] /\ result'[q] = result[q]

\* An answer empties the locals of the request and leaves the others alone.
LEMMA ReplyStep ==
  ASSUME TypeOK, NEW r \in Requests,
         NEW answer \in {"ok", "error", "panic"}, Reply(r, answer)
  PROVE  /\ LocalsType' /\ OnlyLocalsOf(r) /\ HandlerOK(r)'
         /\ pc'[r] = "idle" /\ result'[r] = answer /\ op' = op
<1>1. pc' \in [Requests -> Labels] /\ pc'[r] = "idle"
  BY DEF TypeOK, Reply, Labels
<1>2. snap' \in [Requests -> CustomerRow \cup {NoRow}]
  BY DEF TypeOK, Reply
<1>3. stamp' \in [Requests -> Nat \cup {Null}]
  BY DEF TypeOK, Reply
<1>4. /\ result' \in [Requests -> {"none", "ok", "error", "panic"}]
      /\ result'[r] = answer
  BY DEF TypeOK, Reply
<1>5. OnlyLocalsOf(r) /\ op' = op
  BY DEF TypeOK, Reply, OnlyLocalsOf
<1>6. HandlerOK(r)'
  BY <1>1 DEF HandlerOK
<1>7. QED
  BY <1>1, <1>2, <1>3, <1>4, <1>5, <1>6 DEF TypeOK, LocalsType

\* A jump changes one program counter.
LEMMA GotoStep ==
  ASSUME TypeOK, NEW r \in Requests, NEW label \in Labels, Goto(r, label),
         snap' \in [Requests -> CustomerRow \cup {NoRow}],
         stamp' \in [Requests -> Nat \cup {Null}],
         \A q \in Requests \ {r} : snap'[q] = snap[q] /\ stamp'[q] = stamp[q]
  PROVE  /\ LocalsType' /\ OnlyLocalsOf(r)
         /\ pc'[r] = label /\ op' = op /\ result' = result
BY DEF TypeOK, Goto, LocalsType, OnlyLocalsOf

\* A jump that touches no other local.
LEMMA JumpStep ==
  ASSUME TypeOK, NEW r \in Requests, NEW label \in Labels, Goto(r, label),
         UNCHANGED <<snap, stamp>>
  PROVE  /\ LocalsType' /\ OnlyLocalsOf(r)
         /\ pc'[r] = label /\ op' = op /\ result' = result
BY DEF TypeOK, Goto, LocalsType, OnlyLocalsOf

\* A step of r that is well-typed and leaves r consistent keeps Typed.
LEMMA TypedStep ==
  ASSUME Typed, NEW r \in Requests,
         customer' \in CustomerRow,
         revokeBefore' \in Times \cup {Null},
         tokens' \subseteq Times, closed' \subseteq Times,
         NumberedFromOne(mailed'),
         now' = now, faults' \in 0..MaxFaults,
         LocalsType', OnlyLocalsOf(r), HandlerOK(r)'
  PROVE  Typed'
<1>1. TypeOK'
  BY DEF Typed, TypeOK, LocalsType
<1>2. ASSUME NEW q \in Requests \ {r} PROVE HandlerOK(q)'
  <2>1. HandlerOK(q)
    BY DEF Typed
  <2>2. QED
    BY <2>1 DEF HandlerOK, OnlyLocalsOf
<1>3. QED
  BY <1>1, <1>2 DEF Typed

----------------------------------------------------------------------------
(* Type correctness.                                                       *)

LEMMA InitTyped == Init => Typed
<1> SUFFICES ASSUME Init PROVE Typed
  OBVIOUS
<1>1. NumberedFromOne(mailed)
  <2>1. mailed = 1..0
    BY DEF Init
  <2>2. QED
    BY <2>1, NumberedShape
<1>2. customer \in CustomerRow
  <2>1. Null \in Times \cup {Null} /\ Null \in Nat \cup {Null} /\ 0 \in Nat
    OBVIOUS
  <2>2. QED
    BY <2>1, Zenon DEF Init, CustomerRow
<1>3. TypeOK
  BY <1>1, <1>2 DEF Init, TypeOK, Times, Labels
<1>4. QED
  BY <1>3 DEF Init, Typed, HandlerOK

\* The steps of a login.
LEMMA LoginTyped ==
  ASSUME Typed, NEW r \in Requests,
         \/ LoginCheck(r) \/ IncrementLoginFailure(r) \/ GetLoginFailures(r)
         \/ SetLockExpires(r) \/ ResetLoginFailures(r) \/ CreateToken(r)
  PROVE  Typed'
<1> USE DEF Typed
<1>1. CASE LoginCheck(r)
  <2>1. CASE Reply(r, "error")
    <3>1. LocalsType' /\ OnlyLocalsOf(r) /\ HandlerOK(r)'
      BY <2>1, ReplyStep
    <3>2. QED
      BY <1>1, <3>1, TypedStep DEF LoginCheck, row, jwt, TypeOK
  <2>2. CASE UNCHANGED <<snap, stamp>> /\ (Goto(r, "unlock") \/ Goto(r, "increment"))
    <3>1. LocalsType' /\ OnlyLocalsOf(r) /\ pc'[r] \in {"unlock", "increment"}
      BY <2>2, JumpStep DEF Labels
    <3>2. HandlerOK(r)'
      BY <1>1, <2>2, <3>1 DEF HandlerOK, LoginCheck
    <3>3. QED
      BY <1>1, <3>1, <3>2, TypedStep DEF LoginCheck, row, jwt, TypeOK
  <2>3. QED
    BY <1>1, <2>1, <2>2 DEF LoginCheck
<1>2. CASE IncrementLoginFailure(r)
  <2>1. PICK a \in BOOLEAN, b \in BOOLEAN :
          /\ Statement(a, b)
          /\ UpdateRow(a, [customer EXCEPT !.failures = @ + 1])
    BY <1>2 DEF IncrementLoginFailure
  <2>2. [customer EXCEPT !.failures = @ + 1] \in CustomerRow
    BY RowUpdates DEF TypeOK
  <2>3. customer' \in CustomerRow /\ faults' \in 0..MaxFaults
    BY <2>1, <2>2, StatementType, UpdateRowType
  <2>4. LocalsType' /\ OnlyLocalsOf(r) /\ pc'[r] = "count"
    BY <1>2, JumpStep DEF IncrementLoginFailure, Labels
  <2>5. HandlerOK(r)'
    BY <2>4 DEF HandlerOK
  <2>6. QED
    BY <1>2, <2>3, <2>4, <2>5, TypedStep
    DEF IncrementLoginFailure, jwt, TypeOK
<1>3. CASE GetLoginFailures(r)
  <2>1. faults' \in 0..MaxFaults
    BY <1>3, StatementType DEF GetLoginFailures, CountThenLock
  <2>2. CASE Reply(r, "error")
    BY <1>3, <2>1, <2>2, ReplyStep, TypedStep
    DEF GetLoginFailures, CountThenLock, row, jwt, TypeOK
  <2>3. CASE /\ Goto(r, "lock") /\ UNCHANGED snap
             /\ stamp' = [stamp EXCEPT ![r] = now + LockoutTicks]
    <3>1. /\ stamp' \in [Requests -> Nat \cup {Null}] /\ stamp'[r] \in Nat
          /\ \A q \in Requests \ {r} : stamp'[q] = stamp[q]
      BY <2>3 DEF TypeOK, Times
    <3>2. LocalsType' /\ OnlyLocalsOf(r) /\ pc'[r] = "lock"
      BY <2>3, <3>1, GotoStep DEF TypeOK, Labels
    <3>3. HandlerOK(r)'
      BY <3>1, <3>2 DEF HandlerOK
    <3>4. QED
      BY <1>3, <2>1, <3>2, <3>3, TypedStep
      DEF GetLoginFailures, CountThenLock, row, jwt, TypeOK
  <2>4. QED
    BY <1>3, <2>2, <2>3 DEF GetLoginFailures, CountThenLock
<1>4. CASE SetLockExpires(r)
  <2>1. PICK a \in BOOLEAN, b \in BOOLEAN :
          /\ Statement(a, b)
          /\ UpdateRow(a, [customer EXCEPT !.lock = stamp[r]])
    BY <1>4 DEF SetLockExpires
  <2>2. [customer EXCEPT !.lock = stamp[r]] \in CustomerRow
    BY <1>4, RowUpdates DEF SetLockExpires, HandlerOK, TypeOK
  <2>3. customer' \in CustomerRow /\ faults' \in 0..MaxFaults
    BY <2>1, <2>2, StatementType, UpdateRowType
  <2>4. QED
    BY <1>4, <2>3, ReplyStep, TypedStep DEF SetLockExpires, jwt, TypeOK
<1>5. CASE ResetLoginFailures(r)
  <2>1. PICK a \in BOOLEAN, b \in BOOLEAN :
          /\ Statement(a, b)
          /\ UpdateRow(a, [customer EXCEPT !.failures = 0, !.lock = Null])
    BY <1>5 DEF ResetLoginFailures
  <2>2. [customer EXCEPT !.failures = 0, !.lock = Null] \in CustomerRow
    BY RowUpdates DEF TypeOK
  <2>3. customer' \in CustomerRow /\ faults' \in 0..MaxFaults
    BY <2>1, <2>2, StatementType, UpdateRowType
  <2>4. LocalsType' /\ OnlyLocalsOf(r) /\ pc'[r] = "mint"
    BY <1>5, JumpStep DEF ResetLoginFailures, Labels
  <2>5. HandlerOK(r)'
    BY <1>5, <2>4 DEF HandlerOK, ResetLoginFailures
  <2>6. QED
    BY <1>5, <2>3, <2>4, <2>5, TypedStep DEF ResetLoginFailures, jwt, TypeOK
<1>6. CASE CreateToken(r)
  <2>1. PICK ok \in BOOLEAN :
          /\ Statement(ok, ok)
          /\ tokens' = IF ok THEN tokens \cup {now} ELSE tokens
          /\ Reply(r, IF ok THEN "ok" ELSE "error")
    BY <1>6 DEF CreateToken
  <2>2. tokens' \subseteq Times /\ faults' \in 0..MaxFaults
    BY <2>1, StatementType DEF TypeOK
  <2>3. LocalsType' /\ OnlyLocalsOf(r) /\ HandlerOK(r)'
    BY <2>1, ReplyStep
  <2>4. QED
    BY <1>6, <2>2, <2>3, TypedStep DEF CreateToken, row, TypeOK
<1>7. QED
  BY <1>1, <1>2, <1>3, <1>4, <1>5, <1>6

\* The first step of a request.
LEMMA AdmissionTyped ==
  ASSUME Typed, NEW r \in Requests, NEW o \in Operations,
         LookupByEmail(r, o) \/ Authenticate(r, o)
  PROVE  Typed'
<1> USE DEF Typed
<1>1. CASE LookupByEmail(r, o)
  <2>1. o \in EmailOperations /\ op' = [op EXCEPT ![r] = o] /\ pc[r] = "idle"
    BY <1>1 DEF LookupByEmail
  <2>2. faults' \in 0..MaxFaults
    BY <1>1, StatementType DEF LookupByEmail
  <2>3. CASE /\ customer.present
             /\ pc' = [pc EXCEPT ![r] = "check"]
             /\ snap' = [snap EXCEPT ![r] = customer]
             /\ result' = [result EXCEPT ![r] = "none"]
    <3>1. LocalsType'
      BY <1>1, <2>1, <2>3 DEF LookupByEmail, LocalsType, TypeOK, Labels
    <3>2. OnlyLocalsOf(r) /\ pc'[r] = "check" /\ snap'[r] \in CustomerRow
      BY <1>1, <2>1, <2>3 DEF LookupByEmail, OnlyLocalsOf, TypeOK
    <3>3. HandlerOK(r)'
      BY <3>2 DEF HandlerOK
    <3>4. QED
      BY <1>1, <2>2, <3>1, <3>2, <3>3, TypedStep
      DEF LookupByEmail, row, jwt, TypeOK
  <2>4. CASE /\ result' = [result EXCEPT ![r] = UnknownEmail(o)]
             /\ UNCHANGED <<pc, snap>>
    <3>1. LocalsType'
      BY <1>1, <2>1, <2>4
      DEF LookupByEmail, LocalsType, TypeOK, UnknownEmail
    <3>2. OnlyLocalsOf(r) /\ pc'[r] = "idle"
      BY <1>1, <2>1, <2>4 DEF LookupByEmail, OnlyLocalsOf, TypeOK
    <3>3. HandlerOK(r)'
      BY <3>2 DEF HandlerOK
    <3>4. QED
      BY <1>1, <2>2, <3>1, <3>2, <3>3, TypedStep
      DEF LookupByEmail, row, jwt, TypeOK
  <2>5. QED
    BY <1>1, <2>3, <2>4 DEF LookupByEmail
<1>2. CASE Authenticate(r, o)
  <2>1. /\ o \in SessionOperations /\ op' = [op EXCEPT ![r] = o]
        /\ pc' = [pc EXCEPT ![r] =
                    IF o = "ChangePassword" THEN "read" ELSE "stamp"]
    BY <1>2 DEF Authenticate
  <2>2. LocalsType'
    BY <1>2, <2>1 DEF Authenticate, LocalsType, TypeOK, Labels
  <2>3. /\ OnlyLocalsOf(r) /\ op'[r] = o
        /\ pc'[r] = IF o = "ChangePassword" THEN "read" ELSE "stamp"
    BY <1>2, <2>1 DEF Authenticate, OnlyLocalsOf, TypeOK
  <2>4. HandlerOK(r)'
    BY <2>1, <2>3 DEF HandlerOK, SessionOperations
  <2>5. QED
    BY <1>2, <2>2, <2>3, <2>4, TypedStep DEF Authenticate, row, jwt, TypeOK
<1>3. QED
  BY <1>1, <1>2

\* The revocation, shared by four operations.
LEMMA RevocationTyped ==
  ASSUME Typed, NEW r \in Requests,
         StampRevocation(r) \/ RevokeAllForCustomer(r)
  PROVE  Typed'
<1> USE DEF Typed
<1>1. CASE StampRevocation(r)
  <2>1. /\ stamp' \in [Requests -> Nat \cup {Null}] /\ stamp'[r] = now
        /\ \A q \in Requests \ {r} : stamp'[q] = stamp[q]
    BY <1>1 DEF StampRevocation, TypeOK, Times
  <2>2. LocalsType' /\ OnlyLocalsOf(r) /\ pc'[r] = "revoke" /\ op' = op
    BY <1>1, <2>1, GotoStep DEF StampRevocation, TypeOK, Labels
  <2>3. HandlerOK(r)'
    BY <1>1, <2>1, <2>2 DEF HandlerOK, StampRevocation, TypeOK, Times
  <2>4. QED
    BY <1>1, <2>2, <2>3, TypedStep DEF StampRevocation, row, jwt, TypeOK
<1>2. CASE RevokeAllForCustomer(r)
  <2>1. PICK applied \in BOOLEAN, reported \in BOOLEAN :
          /\ Statement(applied, reported)
          /\ IF applied THEN revokeBefore' = stamp[r] /\ CloseRevocation(r)
             ELSE UNCHANGED <<revokeBefore, closed>>
          /\ AfterRevocation(r, reported)
    BY <1>2 DEF RevokeAllForCustomer
  <2>2. stamp[r] \in Times
    BY <1>2 DEF RevokeAllForCustomer, HandlerOK, TypeOK, Times
  <2>3. revokeBefore' \in Times \cup {Null} /\ closed' \subseteq Times
    <3>1. CASE applied
      <4>1. 0..stamp[r] \subseteq Times
        BY <2>2 DEF Times
      <4>2. QED
        BY <2>1, <2>2, <3>1, <4>1 DEF CloseRevocation, TypeOK
    <3>2. CASE ~applied
      BY <2>1, <3>2 DEF TypeOK
    <3>3. QED
      BY <3>1, <3>2
  <2>4. faults' \in 0..MaxFaults
    BY <2>1, StatementType
  <2>5. \/ \E answer \in {"ok", "error"} : Reply(r, answer)
        \/ /\ Goto(r, "reread") \/ Goto(r, "delete")
           /\ UNCHANGED <<snap, stamp>>
    BY <1>2, <2>1 DEF RevokeAllForCustomer, AfterRevocation, HandlerOK
  <2>6. LocalsType' /\ OnlyLocalsOf(r) /\ HandlerOK(r)'
    <3>1. CASE \E answer \in {"ok", "error"} : Reply(r, answer)
      BY <3>1, ReplyStep
    <3>2. CASE /\ Goto(r, "reread") \/ Goto(r, "delete")
               /\ UNCHANGED <<snap, stamp>>
      <4>1. LocalsType' /\ OnlyLocalsOf(r) /\ pc'[r] \in {"reread", "delete"}
        BY <3>2, JumpStep DEF Labels
      <4>2. QED
        BY <4>1 DEF HandlerOK
    <3>3. QED
      BY <2>5, <3>1, <3>2
  <2>7. QED
    BY <1>2, <2>3, <2>4, <2>6, TypedStep DEF RevokeAllForCustomer, row, TypeOK
<1>3. QED
  BY <1>1, <1>2

\* ChangePassword, the row read back, and DeleteCustomer.
LEMMA ChangeTyped ==
  ASSUME Typed, NEW r \in Requests,
         \/ ChangeRead(r) \/ ChangeVerify(r) \/ ChangeWrite(r) \/ ReRead(r)
         \/ DeleteRow(r)
  PROVE  Typed'
<1> USE DEF Typed
<1>1. CASE ChangeRead(r)
  <2>1. faults' \in 0..MaxFaults
    BY <1>1, StatementType DEF ChangeRead
  <2>2. CASE Reply(r, "error")
    <3>1. LocalsType' /\ OnlyLocalsOf(r) /\ HandlerOK(r)'
      BY <2>2, ReplyStep
    <3>2. QED
      BY <1>1, <2>1, <3>1, TypedStep DEF ChangeRead, row, jwt, TypeOK
  <2>3. CASE /\ Goto(r, "verify") /\ UNCHANGED stamp
             /\ snap' = [snap EXCEPT ![r] = customer]
    <3>1. /\ snap' \in [Requests -> CustomerRow \cup {NoRow}]
          /\ snap'[r] \in CustomerRow
          /\ \A q \in Requests \ {r} : snap'[q] = snap[q]
      BY <2>3 DEF TypeOK
    <3>2. LocalsType' /\ OnlyLocalsOf(r) /\ pc'[r] = "verify" /\ op' = op
      BY <2>3, <3>1, GotoStep DEF TypeOK, Labels
    <3>3. op[r] = "ChangePassword"
      BY <1>1 DEF ChangeRead, HandlerOK
    <3>4. HandlerOK(r)'
      BY <3>1, <3>2, <3>3 DEF HandlerOK
    <3>5. QED
      BY <1>1, <2>1, <3>2, <3>4, TypedStep DEF ChangeRead, row, jwt, TypeOK
  <2>4. QED
    BY <1>1, <2>2, <2>3 DEF ChangeRead
<1>2. CASE ChangeVerify(r)
  <2>1. LocalsType' /\ OnlyLocalsOf(r) /\ HandlerOK(r)'
    <3>1. CASE Reply(r, "error")
      BY <3>1, ReplyStep
    <3>2. CASE Goto(r, "write") /\ UNCHANGED <<snap, stamp>> /\ pc[r] = "verify"
      <4>1. LocalsType' /\ OnlyLocalsOf(r) /\ pc'[r] = "write" /\ op' = op
        BY <3>2, JumpStep DEF Labels
      <4>2. op[r] = "ChangePassword"
        BY <3>2 DEF HandlerOK
      <4>3. QED
        BY <4>1, <4>2 DEF HandlerOK
    <3>3. QED
      BY <1>2, <3>1, <3>2 DEF ChangeVerify
  <2>2. QED
    BY <1>2, <2>1, TypedStep DEF ChangeVerify, row, jwt, TypeOK
<1>3. CASE ChangeWrite(r)
  <2>1. PICK new \in Passwords, a \in BOOLEAN, b \in BOOLEAN :
          /\ Statement(a, b)
          /\ UpdateRow(a, [customer EXCEPT !.password = new])
          /\ IF b THEN Goto(r, "stamp") /\ UNCHANGED <<snap, stamp>>
             ELSE Reply(r, "error")
    BY <1>3 DEF ChangeWrite
  <2>2. customer' \in CustomerRow /\ faults' \in 0..MaxFaults
    BY <2>1, StatementType, UpdateRowType, RowUpdates DEF TypeOK
  <2>3. LocalsType' /\ OnlyLocalsOf(r) /\ HandlerOK(r)'
    <3>1. CASE Reply(r, "error")
      BY <3>1, ReplyStep
    <3>2. CASE Goto(r, "stamp") /\ UNCHANGED <<snap, stamp>>
      <4>1. LocalsType' /\ OnlyLocalsOf(r) /\ pc'[r] = "stamp" /\ op' = op
        BY <3>2, JumpStep DEF Labels
      <4>2. QED
        BY <1>3, <4>1 DEF HandlerOK, ChangeWrite
    <3>3. QED
      BY <2>1, <3>1, <3>2
  <2>4. QED
    BY <1>3, <2>2, <2>3, TypedStep DEF ChangeWrite, jwt, TypeOK
<1>4. CASE ReRead(r)
  <2>1. faults' \in 0..MaxFaults
    BY <1>4, StatementType DEF ReRead
  <2>2. \E answer \in {"ok", "error", "panic"} : Reply(r, answer)
    BY <1>4 DEF ReRead
  <2>3. LocalsType' /\ OnlyLocalsOf(r) /\ HandlerOK(r)'
    BY <2>2, ReplyStep
  <2>4. QED
    BY <1>4, <2>1, <2>3, TypedStep DEF ReRead, row, jwt, TypeOK
<1>5. CASE DeleteRow(r)
  <2>1. PICK a \in BOOLEAN, b \in BOOLEAN :
          /\ Statement(a, b)
          /\ UpdateRow(a, [customer EXCEPT !.present = FALSE])
          /\ Reply(r, IF b THEN "ok" ELSE "error")
    BY <1>5 DEF DeleteRow
  <2>2. customer' \in CustomerRow /\ faults' \in 0..MaxFaults
    BY <2>1, StatementType, UpdateRowType, RowUpdates DEF TypeOK
  <2>3. LocalsType' /\ OnlyLocalsOf(r) /\ HandlerOK(r)'
    BY <2>1, ReplyStep
  <2>4. QED
    BY <1>5, <2>2, <2>3, TypedStep DEF DeleteRow, jwt, TypeOK
<1>6. QED
  BY <1>1, <1>2, <1>3, <1>4, <1>5

\* RequestPasswordResetEmail and ResetPassword.
LEMMA ResetTyped ==
  ASSUME Typed, NEW r \in Requests,
         RequestCheck(r) \/ RequestStore(r) \/ ResetCheck(r) \/ ResetWrite(r)
  PROVE  Typed'
<1> USE DEF Typed
<1>1. CASE RequestCheck(r)
  <2>1. LocalsType' /\ OnlyLocalsOf(r) /\ HandlerOK(r)'
    <3>1. CASE Reply(r, "error")
      BY <3>1, ReplyStep
    <3>2. CASE /\ Goto(r, "write") /\ UNCHANGED snap
               /\ stamp' = [stamp EXCEPT ![r] = now]
      <4>1. /\ stamp' \in [Requests -> Nat \cup {Null}] /\ stamp'[r] = now
            /\ \A q \in Requests \ {r} : stamp'[q] = stamp[q]
        BY <3>2 DEF TypeOK, Times
      <4>2. LocalsType' /\ OnlyLocalsOf(r) /\ pc'[r] = "write"
        BY <3>2, <4>1, GotoStep DEF TypeOK, Labels
      <4>3. now' = now /\ now \in Nat
        BY <1>1 DEF RequestCheck, TypeOK, Times
      <4>4. stamp'[r] \in 0..now'
        BY <4>1, <4>3
      <4>5. QED
        BY <4>2, <4>4 DEF HandlerOK
    <3>3. QED
      BY <1>1, <3>1, <3>2 DEF RequestCheck
  <2>2. QED
    BY <1>1, <2>1, TypedStep DEF RequestCheck, row, jwt, TypeOK
<1>2. CASE RequestStore(r)
  <2> DEFINE fresh == Cardinality(mailed) + 1
  <2>1. PICK a \in BOOLEAN, b \in BOOLEAN :
          /\ Statement(a, b)
          /\ UpdateRow(a, [customer EXCEPT !.rpToken = fresh,
                                           !.rpCreated = stamp[r]])
          /\ mailed' = IF b THEN mailed \cup {fresh} ELSE mailed
          /\ Reply(r, IF b THEN "ok" ELSE "error")
    BY <1>2 DEF RequestStore
  <2>2. PICK n \in Nat : mailed = 1..n
    BY NumberedShape DEF TypeOK
  <2>3. fresh = n + 1
    BY <2>2, FS_Interval
  <2> HIDE DEF fresh
  <2>4. NumberedFromOne(mailed')
    <3>1. 1..(n + 1) = 1..n \cup {n + 1}
      OBVIOUS
    <3>2. mailed' = 1..(n + 1) \/ mailed' = 1..n
      BY <2>1, <2>2, <2>3, <3>1
    <3>3. QED
      BY <3>2, NumberedShape
  <2>5. stamp[r] \in Times
    BY <1>2 DEF RequestStore, HandlerOK, TypeOK, Times
  <2>6. [customer EXCEPT !.rpToken = fresh, !.rpCreated = stamp[r]] \in CustomerRow
    <3>1. customer \in CustomerRow /\ fresh \in Nat
      BY <2>3 DEF TypeOK
    <3>2. QED
      BY <2>5, <3>1, RowUpdates
  <2>7. customer' \in CustomerRow /\ faults' \in 0..MaxFaults
    BY <2>1, <2>6, StatementType, UpdateRowType
  <2>8. LocalsType' /\ OnlyLocalsOf(r) /\ HandlerOK(r)'
    BY <2>1, ReplyStep
  <2>9. QED
    BY <1>2, <2>4, <2>7, <2>8, TypedStep DEF RequestStore, jwt, TypeOK
<1>3. CASE ResetCheck(r)
  <2>1. LocalsType' /\ OnlyLocalsOf(r) /\ HandlerOK(r)'
    <3>1. CASE Reply(r, "error")
      BY <3>1, ReplyStep
    <3>2. CASE Goto(r, "write") /\ UNCHANGED <<snap, stamp>>
      <4>1. LocalsType' /\ OnlyLocalsOf(r) /\ pc'[r] = "write" /\ op' = op
        BY <3>2, JumpStep DEF Labels
      <4>2. QED
        BY <1>3, <4>1 DEF HandlerOK, ResetCheck
    <3>3. QED
      BY <1>3, <3>1, <3>2 DEF ResetCheck
  <2>2. QED
    BY <1>3, <2>1, TypedStep DEF ResetCheck, row, jwt, TypeOK
<1>4. CASE ResetWrite(r)
  <2>1. PICK new \in Passwords, a \in BOOLEAN, b \in BOOLEAN :
          /\ Statement(a, b)
          /\ UpdateRow(a, [customer EXCEPT !.password = new, !.rpToken = 0,
                                           !.rpCreated = Null])
          /\ IF b THEN Goto(r, "stamp") /\ UNCHANGED <<snap, stamp>>
             ELSE Reply(r, "error")
    BY <1>4 DEF ResetWrite
  <2>2. customer' \in CustomerRow /\ faults' \in 0..MaxFaults
    BY <2>1, StatementType, UpdateRowType, RowUpdates DEF TypeOK
  <2>3. LocalsType' /\ OnlyLocalsOf(r) /\ HandlerOK(r)'
    <3>1. CASE Reply(r, "error")
      BY <3>1, ReplyStep
    <3>2. CASE Goto(r, "stamp") /\ UNCHANGED <<snap, stamp>>
      <4>1. LocalsType' /\ OnlyLocalsOf(r) /\ pc'[r] = "stamp" /\ op' = op
        BY <3>2, JumpStep DEF Labels
      <4>2. QED
        BY <1>4, <4>1 DEF HandlerOK, ResetWrite
    <3>3. QED
      BY <2>1, <3>1, <3>2
  <2>4. QED
    BY <1>4, <2>2, <2>3, TypedStep DEF ResetWrite, jwt, TypeOK
<1>5. QED
  BY <1>1, <1>2, <1>3, <1>4

\* ConfirmEmail.
LEMMA ConfirmTyped ==
  ASSUME Typed, NEW r \in Requests, ConfirmCheck(r) \/ ConfirmWrite(r)
  PROVE  Typed'
<1> USE DEF Typed
<1>1. CASE ConfirmCheck(r)
  <2>1. LocalsType' /\ OnlyLocalsOf(r) /\ HandlerOK(r)'
    <3>1. CASE Reply(r, "error")
      BY <3>1, ReplyStep
    <3>2. CASE Goto(r, "write") /\ UNCHANGED <<snap, stamp>>
      <4>1. LocalsType' /\ OnlyLocalsOf(r) /\ pc'[r] = "write" /\ op' = op
        BY <3>2, JumpStep DEF Labels
      <4>2. QED
        BY <1>1, <4>1 DEF HandlerOK, ConfirmCheck
    <3>3. QED
      BY <1>1, <3>1, <3>2 DEF ConfirmCheck
  <2>2. QED
    BY <1>1, <2>1, TypedStep DEF ConfirmCheck, row, jwt, TypeOK
<1>2. CASE ConfirmWrite(r)
  <2>1. PICK a \in BOOLEAN, b \in BOOLEAN :
          /\ Statement(a, b)
          /\ UpdateRow(a, [customer EXCEPT !.confirmation = FALSE])
          /\ IF b THEN Goto(r, "reread") /\ UNCHANGED <<snap, stamp>>
             ELSE Reply(r, "error")
    BY <1>2 DEF ConfirmWrite
  <2>2. customer' \in CustomerRow /\ faults' \in 0..MaxFaults
    BY <2>1, StatementType, UpdateRowType, RowUpdates DEF TypeOK
  <2>3. LocalsType' /\ OnlyLocalsOf(r) /\ HandlerOK(r)'
    <3>1. CASE Reply(r, "error")
      BY <3>1, ReplyStep
    <3>2. CASE Goto(r, "reread") /\ UNCHANGED <<snap, stamp>>
      <4>1. LocalsType' /\ OnlyLocalsOf(r) /\ pc'[r] = "reread" /\ op' = op
        BY <3>2, JumpStep DEF Labels
      <4>2. QED
        BY <4>1 DEF HandlerOK
    <3>3. QED
      BY <2>1, <3>1, <3>2
  <2>4. QED
    BY <1>2, <2>2, <2>3, TypedStep DEF ConfirmWrite, jwt, TypeOK
<1>3. QED
  BY <1>1, <1>2

LEMMA TickTyped == Typed /\ Tick => Typed'
<1> SUFFICES ASSUME Typed, Tick PROVE Typed'
  OBVIOUS
<1>1. now' \in Times /\ now' = now + 1 /\ now \in Nat
  BY DEF Typed, TypeOK, Tick, Times
<1>2. /\ UNCHANGED <<customer, mailed, revokeBefore, tokens, closed, faults>>
      /\ UNCHANGED <<op, pc, snap, stamp, result>>
  BY DEF Tick, row, jwt, locals
<1>3. TypeOK'
  BY <1>1, <1>2 DEF Typed, TypeOK
<1>4. ASSUME NEW r \in Requests PROVE HandlerOK(r)'
  <2>1. HandlerOK(r)
    BY DEF Typed
  <2>2. QED
    BY <1>1, <1>2, <2>1 DEF HandlerOK
<1>5. QED
  BY <1>3, <1>4 DEF Typed

LEMMA NextTyped == Typed /\ [Next]_vars => Typed'
<1> SUFFICES ASSUME Typed, [Next]_vars PROVE Typed'
  OBVIOUS
<1>1. CASE Tick
  BY <1>1, TickTyped
<1>2. ASSUME NEW r \in Requests, NEW o \in Operations,
             LookupByEmail(r, o) \/ Authenticate(r, o)
      PROVE  Typed'
  BY <1>2, AdmissionTyped
<1>3. ASSUME NEW r \in Requests, Continue(r) PROVE Typed'
  BY <1>3, LoginTyped, RevocationTyped, ChangeTyped, ResetTyped, ConfirmTyped
  DEF Continue
<1>4. CASE UNCHANGED vars
  BY <1>4 DEF vars, Typed, TypeOK, HandlerOK
<1>5. QED
  BY <1>1, <1>2, <1>3, <1>4 DEF Next

\* Every state of every instance is well-typed, and every handler's locals
\* are what its next step takes them to be.
THEOREM TypeCorrect == Spec => []TypeOK
<1>1. Typed => TypeOK
  BY DEF Typed
<1>2. QED
  BY <1>1, InitTyped, NextTyped, PTL DEF Spec

----------------------------------------------------------------------------
(* What a step leaves alone.                                               *)

\* A goto or a reply of r leaves the other requests alone.
LEMMA GotoFrame ==
  ASSUME TypeOK, NEW r \in Requests, NEW label, Goto(r, label),
         \A q \in Requests \ {r} : snap'[q] = snap[q] /\ stamp'[q] = stamp[q]
  PROVE  OnlyLocalsOf(r)
BY DEF TypeOK, Goto, OnlyLocalsOf

LEMMA ReplyFrame ==
  ASSUME TypeOK, NEW r \in Requests, NEW answer, Reply(r, answer)
  PROVE  OnlyLocalsOf(r)
BY DEF TypeOK, Reply, OnlyLocalsOf

LEMMA StepFrame ==
  ASSUME Typed, NEW r \in Requests,
         \/ Continue(r)
         \/ \E o \in Operations : LookupByEmail(r, o) \/ Authenticate(r, o)
  PROVE  OnlyLocalsOf(r)
<1> USE DEF Typed
<1>1. ASSUME NEW o \in Operations, LookupByEmail(r, o) PROVE OnlyLocalsOf(r)
  BY <1>1 DEF LookupByEmail, OnlyLocalsOf, TypeOK
<1>2. ASSUME NEW o \in Operations, Authenticate(r, o) PROVE OnlyLocalsOf(r)
  BY <1>2 DEF Authenticate, OnlyLocalsOf, TypeOK
<1>3. CASE LoginCheck(r)
  BY <1>3, GotoFrame, ReplyFrame DEF LoginCheck
<1>4. CASE IncrementLoginFailure(r) \/ ResetLoginFailures(r)
  BY <1>4, GotoFrame DEF IncrementLoginFailure, ResetLoginFailures
<1>5. CASE GetLoginFailures(r)
  <2>1. CASE Reply(r, "error")
    BY <2>1, ReplyFrame
  <2>2. CASE /\ Goto(r, "lock") /\ UNCHANGED snap
             /\ stamp' = [stamp EXCEPT ![r] = now + LockoutTicks]
    BY <2>2, GotoFrame DEF TypeOK
  <2>3. QED
    BY <1>5, <2>1, <2>2 DEF GetLoginFailures, CountThenLock
<1>6. CASE SetLockExpires(r) \/ CreateToken(r) \/ DeleteRow(r) \/ RequestStore(r)
           \/ ReRead(r)
  BY <1>6, ReplyFrame
  DEF SetLockExpires, CreateToken, DeleteRow, RequestStore, ReRead
<1>7. CASE StampRevocation(r)
  BY <1>7, GotoFrame DEF StampRevocation, TypeOK
<1>8. CASE RevokeAllForCustomer(r)
  <2>1. \/ \E answer \in {"ok", "error"} : Reply(r, answer)
        \/ /\ Goto(r, "reread") \/ Goto(r, "delete")
           /\ UNCHANGED <<snap, stamp>>
    BY <1>8 DEF RevokeAllForCustomer, AfterRevocation, HandlerOK
  <2>2. QED
    BY <2>1, GotoFrame, ReplyFrame
<1>9. CASE ChangeRead(r)
  <2>1. CASE Reply(r, "error")
    BY <2>1, ReplyFrame
  <2>2. CASE /\ Goto(r, "verify") /\ UNCHANGED stamp
             /\ snap' = [snap EXCEPT ![r] = customer]
    BY <2>2, GotoFrame DEF TypeOK
  <2>3. QED
    BY <1>9, <2>1, <2>2 DEF ChangeRead
<1>10. CASE RequestCheck(r)
  <2>1. CASE Reply(r, "error")
    BY <2>1, ReplyFrame
  <2>2. CASE /\ Goto(r, "write") /\ UNCHANGED snap
             /\ stamp' = [stamp EXCEPT ![r] = now]
    BY <2>2, GotoFrame DEF TypeOK
  <2>3. QED
    BY <1>10, <2>1, <2>2 DEF RequestCheck
<1>11. CASE ChangeVerify(r) \/ ChangeWrite(r) \/ ResetCheck(r) \/ ResetWrite(r)
            \/ ConfirmCheck(r) \/ ConfirmWrite(r)
  BY <1>11, GotoFrame, ReplyFrame
  DEF ChangeVerify, ChangeWrite, ResetCheck, ResetWrite, ConfirmCheck,
      ConfirmWrite
<1>12. QED
  BY <1>1, <1>2, <1>3, <1>4, <1>5, <1>6, <1>7, <1>8, <1>9, <1>10, <1>11
  DEF Continue

----------------------------------------------------------------------------
(* The lockout.                                                            *)

\* Steps that neither fill the counter nor finish a failed login.
LEMMA ThresholdKept ==
  ASSUME Typed, ThresholdLocks, NEW r \in Requests, OnlyLocalsOf(r),
         faults <= faults', faults' \in Nat,
         pc[r] \notin {"count", "lock"},
         /\ customer'.present => customer.present
         /\ customer'.failures = customer.failures
         /\ customer'.lock = customer.lock
  PROVE  ThresholdLocks'
<1> SUFFICES ASSUME faults' = 0, customer'.present,
                    customer'.failures >= MaxFailures, customer'.lock = Null
             PROVE  \E q \in Requests : pc'[q] \in {"count", "lock"}
  BY DEF ThresholdLocks
<1>1. faults = 0
  BY DEF Typed, TypeOK
<1>2. PICK q \in Requests : pc[q] \in {"count", "lock"}
  BY <1>1 DEF ThresholdLocks
<1>3. QED
  BY <1>2 DEF OnlyLocalsOf

\* The statements that write other columns leave the counter and the lock.
LEMMA OtherColumns ==
  ASSUME Typed, NEW r \in Requests,
         ChangeWrite(r) \/ RequestStore(r) \/ ResetWrite(r)
           \/ ConfirmWrite(r) \/ DeleteRow(r)
  PROVE  /\ customer'.present => customer.present
         /\ customer'.failures = customer.failures
         /\ customer'.lock = customer.lock
         /\ faults <= faults' /\ faults' \in Nat
<1>1. customer \in CustomerRow
  BY DEF Typed, TypeOK
<1>2. faults <= faults' /\ faults' \in Nat
  <2>1. \E a \in BOOLEAN, b \in BOOLEAN : Statement(a, b)
    BY DEF ChangeWrite, RequestStore, ResetWrite, ConfirmWrite, DeleteRow
  <2>2. QED
    BY <2>1, StatementType DEF Typed
<1>3. /\ customer'.present => customer.present
      /\ customer'.failures = customer.failures
      /\ customer'.lock = customer.lock
  <2>1. CASE ChangeWrite(r)
    BY <1>1, <2>1 DEF ChangeWrite, UpdateRow, CustomerRow
  <2>2. CASE RequestStore(r)
    BY <1>1, <2>2 DEF RequestStore, UpdateRow, CustomerRow
  <2>3. CASE ResetWrite(r)
    BY <1>1, <2>3 DEF ResetWrite, UpdateRow, CustomerRow
  <2>4. CASE ConfirmWrite(r)
    BY <1>1, <2>4 DEF ConfirmWrite, UpdateRow, CustomerRow
  <2>5. CASE DeleteRow(r)
    BY <1>1, <2>5 DEF DeleteRow, UpdateRow, CustomerRow
  <2>6. QED
    BY <2>1, <2>2, <2>3, <2>4, <2>5
<1>4. QED
  BY <1>2, <1>3

\* The steps that leave the row alone.
LEMMA RowKept ==
  ASSUME Typed, NEW r \in Requests,
         \/ \E o \in Operations : LookupByEmail(r, o) \/ Authenticate(r, o)
         \/ LoginCheck(r) \/ GetLoginFailures(r) \/ CreateToken(r)
         \/ StampRevocation(r) \/ RevokeAllForCustomer(r)
         \/ ChangeRead(r) \/ ChangeVerify(r) \/ ReRead(r)
         \/ RequestCheck(r) \/ ResetCheck(r) \/ ConfirmCheck(r)
  PROVE  /\ customer' = customer /\ mailed' = mailed
         /\ faults <= faults' /\ faults' \in Nat
<1>1. customer' = customer /\ mailed' = mailed
  BY DEF row, LookupByEmail, Authenticate, LoginCheck, GetLoginFailures,
     CountThenLock, CreateToken, StampRevocation, RevokeAllForCustomer,
     ChangeRead, ChangeVerify, ReRead, RequestCheck, ResetCheck, ConfirmCheck
<1>2. \/ faults' = faults
      \/ \E a \in BOOLEAN, b \in BOOLEAN : Statement(a, b)
  BY DEF LookupByEmail, Authenticate, LoginCheck, GetLoginFailures,
     CountThenLock, CreateToken, StampRevocation, RevokeAllForCustomer,
     ChangeRead, ChangeVerify, ReRead, RequestCheck, ResetCheck, ConfirmCheck
<1>3. faults <= faults' /\ faults' \in Nat
  BY <1>2, StatementType DEF Typed, TypeOK
<1>4. QED
  BY <1>1, <1>3

LEMMA ThresholdStep ==
  ASSUME Typed, ThresholdLocks, [Next]_vars
  PROVE  ThresholdLocks'
<1> USE DEF Typed
<1>1. ASSUME NEW r \in Requests,
             \/ \E o \in Operations : LookupByEmail(r, o) \/ Authenticate(r, o)
             \/ LoginCheck(r) \/ CreateToken(r)
             \/ StampRevocation(r) \/ RevokeAllForCustomer(r)
             \/ ChangeRead(r) \/ ChangeVerify(r) \/ ReRead(r)
             \/ RequestCheck(r) \/ ResetCheck(r) \/ ConfirmCheck(r)
      PROVE  ThresholdLocks'
  <2>1. OnlyLocalsOf(r)
    BY <1>1, StepFrame DEF Continue
  <2>2. pc[r] \notin {"count", "lock"}
    BY <1>1 DEF LookupByEmail, Authenticate, LoginCheck, CreateToken,
       StampRevocation, RevokeAllForCustomer, ChangeRead, ChangeVerify, ReRead,
       RequestCheck, ResetCheck, ConfirmCheck
  <2>3. QED
    BY <1>1, <2>1, <2>2, RowKept, ThresholdKept
<1>2. ASSUME NEW r \in Requests,
             ChangeWrite(r) \/ RequestStore(r) \/ ResetWrite(r)
               \/ ConfirmWrite(r) \/ DeleteRow(r)
      PROVE  ThresholdLocks'
  <2>1. OnlyLocalsOf(r)
    BY <1>2, StepFrame DEF Continue
  <2>2. pc[r] \notin {"count", "lock"}
    BY <1>2 DEF ChangeWrite, RequestStore, ResetWrite, ConfirmWrite, DeleteRow
  <2>3. QED
    BY <1>2, <2>1, <2>2, OtherColumns, ThresholdKept
<1>3. ASSUME NEW r \in Requests, IncrementLoginFailure(r) PROVE ThresholdLocks'
  <2>1. pc'[r] = "count"
    BY <1>3 DEF IncrementLoginFailure, Goto, TypeOK
  <2>2. QED
    BY <2>1 DEF ThresholdLocks
<1>4. ASSUME NEW r \in Requests, GetLoginFailures(r) PROVE ThresholdLocks'
  <2>1. PICK ok \in BOOLEAN :
          /\ Statement(ok, ok)
          /\ ok /\ customer.present /\ customer.failures >= MaxFailures
               => Goto(r, "lock")
    BY <1>4 DEF GetLoginFailures, CountThenLock
  <2>2. customer' = customer
    BY <1>4, RowKept
  <2>3. CASE ok /\ customer.present /\ customer.failures >= MaxFailures
    <3>1. pc'[r] = "lock"
      BY <2>1, <2>3 DEF Goto, TypeOK
    <3>2. QED
      BY <3>1 DEF ThresholdLocks
  <2>4. CASE ~ok
    <3>1. faults' # 0
      BY <2>1, <2>4 DEF Statement, TypeOK
    <3>2. QED
      BY <3>1 DEF ThresholdLocks
  <2>5. CASE ~(customer.present /\ customer.failures >= MaxFailures)
    BY <2>2, <2>5 DEF ThresholdLocks
  <2>6. QED
    BY <2>3, <2>4, <2>5
<1>5. ASSUME NEW r \in Requests, SetLockExpires(r) PROVE ThresholdLocks'
  <2>1. PICK a \in BOOLEAN, b \in BOOLEAN :
          /\ Statement(a, b)
          /\ UpdateRow(a, [customer EXCEPT !.lock = stamp[r]])
    BY <1>5 DEF SetLockExpires
  <2>2. stamp[r] \in Nat /\ customer \in CustomerRow
    BY <1>5 DEF SetLockExpires, HandlerOK, TypeOK
  <2>3. CASE a /\ customer.present
    <3>1. customer'.lock = stamp[r]
      BY <2>1, <2>2, <2>3 DEF UpdateRow, CustomerRow
    <3>2. stamp[r] # Null
      BY <2>2 DEF Null
    <3>3. QED
      BY <3>1, <3>2 DEF ThresholdLocks
  <2>4. CASE ~customer.present
    BY <2>1, <2>4 DEF UpdateRow, ThresholdLocks
  <2>5. CASE ~a
    <3>1. faults' # 0
      BY <2>1, <2>5 DEF Statement, TypeOK
    <3>2. QED
      BY <3>1 DEF ThresholdLocks
  <2>6. QED
    BY <2>3, <2>4, <2>5
<1>6. ASSUME NEW r \in Requests, ResetLoginFailures(r) PROVE ThresholdLocks'
  <2>1. PICK a \in BOOLEAN, b \in BOOLEAN :
          /\ Statement(a, b)
          /\ UpdateRow(a, [customer EXCEPT !.failures = 0, !.lock = Null])
    BY <1>6 DEF ResetLoginFailures
  <2>2. CASE a /\ customer.present
    <3>1. customer'.failures = 0
      BY <2>1, <2>2 DEF UpdateRow, TypeOK, CustomerRow
    <3>2. QED
      BY <3>1 DEF ThresholdLocks
  <2>3. CASE ~customer.present
    BY <2>1, <2>3 DEF UpdateRow, ThresholdLocks
  <2>4. CASE ~a
    <3>1. faults' # 0
      BY <2>1, <2>4 DEF Statement, TypeOK
    <3>2. QED
      BY <3>1 DEF ThresholdLocks
  <2>5. QED
    BY <2>2, <2>3, <2>4
<1>7. CASE Tick
  BY <1>7 DEF Tick, row, locals, ThresholdLocks
<1>8. CASE UNCHANGED vars
  BY <1>8 DEF vars, ThresholdLocks
<1>9. QED
  BY <1>1, <1>2, <1>3, <1>4, <1>5, <1>6, <1>7, <1>8 DEF Next, Continue

\* For any number of concurrent logins, and whatever the other operations do
\* between their statements, a full counter without a lock has a failed login
\* that is about to write it (as long as no statement failed).
THEOREM ThresholdTheorem == Spec => []ThresholdLocks
<1>1. Init => ThresholdLocks
  BY DEF Init, ThresholdLocks
<1>2. Typed /\ ThresholdLocks /\ [Next]_vars => ThresholdLocks'
  BY ThresholdStep
<1>3. QED
  BY <1>1, <1>2, InitTyped, NextTyped, PTL DEF Spec

\* A login past its checks read a lock that had expired by then, or none.
LockPast ==
  \A r \in Requests :
    pc[r] \in {"increment", "unlock", "mint"} => snap[r].lock <= now

LEMMA LockPastStep ==
  ASSUME ~ParseTime, Typed, LockPast, [Next]_vars
  PROVE  LockPast'
<1> USE DEF Typed
<1>1. ASSUME NEW r \in Requests, OnlyLocalsOf(r), now' = now,
             pc'[r] \in {"increment", "unlock", "mint"} => snap'[r].lock <= now
      PROVE  LockPast'
  <2>1. ASSUME NEW q \in Requests,
               pc'[q] \in {"increment", "unlock", "mint"}
        PROVE  snap'[q].lock <= now'
    BY <1>1, <2>1 DEF LockPast, OnlyLocalsOf
  <2>2. QED
    BY <2>1 DEF LockPast
<1>2. ASSUME NEW r \in Requests, LoginCheck(r) PROVE LockPast'
  <2>1. OnlyLocalsOf(r) /\ now' = now
    BY <1>2, StepFrame DEF Continue, LoginCheck
  <2>2. CASE Reply(r, "error")
    BY <1>1, <2>1, <2>2, ReplyStep
  <2>3. CASE ~Locked(snap[r]) /\ UNCHANGED snap
    <3>1. snap[r] \in CustomerRow /\ now \in Nat
      BY <1>2 DEF LoginCheck, HandlerOK, TypeOK, Times
    <3>2. snap[r].lock \in Nat \cup {Null}
      BY <3>1 DEF CustomerRow
    <3>3. snap[r].lock <= now
      BY <2>3, <3>1, <3>2 DEF Locked, Null
    <3>4. QED
      BY <1>1, <2>1, <2>3, <3>3
  <2>4. QED
    BY <1>2, <2>2, <2>3 DEF LoginCheck
<1>3. ASSUME NEW r \in Requests, ResetLoginFailures(r) PROVE LockPast'
  <2>1. OnlyLocalsOf(r) /\ now' = now /\ snap' = snap /\ pc[r] = "unlock"
    BY <1>3, StepFrame DEF Continue, ResetLoginFailures
  <2>2. QED
    BY <1>1, <2>1 DEF LockPast
<1>4. ASSUME NEW r \in Requests,
             \/ \E o \in Operations : LookupByEmail(r, o) \/ Authenticate(r, o)
             \/ IncrementLoginFailure(r) \/ GetLoginFailures(r)
             \/ SetLockExpires(r) \/ CreateToken(r)
             \/ StampRevocation(r) \/ RevokeAllForCustomer(r)
             \/ ChangeRead(r) \/ ChangeVerify(r) \/ ChangeWrite(r) \/ ReRead(r)
             \/ DeleteRow(r) \/ RequestCheck(r) \/ RequestStore(r)
             \/ ResetCheck(r) \/ ResetWrite(r)
             \/ ConfirmCheck(r) \/ ConfirmWrite(r)
      PROVE  LockPast'
  <2>1. OnlyLocalsOf(r)
    BY <1>4, StepFrame DEF Continue
  <2>2. now' = now
    BY <1>4 DEF LookupByEmail, Authenticate, IncrementLoginFailure,
       GetLoginFailures, CountThenLock, SetLockExpires, CreateToken,
       StampRevocation, RevokeAllForCustomer, ChangeRead, ChangeVerify,
       ChangeWrite, ReRead, DeleteRow, RequestCheck, RequestStore, ResetCheck,
       ResetWrite, ConfirmCheck, ConfirmWrite
  <2>3. pc'[r] \notin {"increment", "unlock", "mint"}
    <3>1. CASE \E o \in Operations : LookupByEmail(r, o) \/ Authenticate(r, o)
      BY <3>1 DEF LookupByEmail, Authenticate, TypeOK
    <3>2. CASE IncrementLoginFailure(r) \/ GetLoginFailures(r)
               \/ SetLockExpires(r) \/ CreateToken(r) \/ StampRevocation(r)
      BY <3>2 DEF IncrementLoginFailure, GetLoginFailures, CountThenLock,
         SetLockExpires, CreateToken, StampRevocation, Goto, Reply, TypeOK
    <3>3. CASE RevokeAllForCustomer(r)
      BY <3>3 DEF RevokeAllForCustomer, AfterRevocation, HandlerOK, Goto, Reply,
         TypeOK
    <3>4. CASE ChangeRead(r) \/ ChangeVerify(r) \/ ChangeWrite(r) \/ ReRead(r)
               \/ DeleteRow(r)
      BY <3>4 DEF ChangeRead, ChangeVerify, ChangeWrite, ReRead, DeleteRow,
         Goto, Reply, TypeOK
    <3>5. CASE RequestCheck(r) \/ RequestStore(r) \/ ResetCheck(r)
               \/ ResetWrite(r) \/ ConfirmCheck(r) \/ ConfirmWrite(r)
      BY <3>5 DEF RequestCheck, RequestStore, ResetCheck, ResetWrite,
         ConfirmCheck, ConfirmWrite, Goto, Reply, TypeOK
    <3>6. QED
      BY <1>4, <3>1, <3>2, <3>3, <3>4, <3>5
  <2>4. QED
    BY <1>1, <2>1, <2>2, <2>3
<1>5. CASE Tick
  <2>1. /\ now' = now + 1 /\ now \in Nat
        /\ pc' = pc /\ snap' = snap
    BY <1>5 DEF Tick, locals, TypeOK, Times
  <2>2. ASSUME NEW q \in Requests, pc[q] \in {"increment", "unlock", "mint"}
        PROVE  snap[q].lock <= now + 1
    <3>1. snap[q].lock <= now
      BY <2>2 DEF LockPast
    <3>2. snap[q].lock \in Int
      BY <2>2 DEF HandlerOK, CustomerRow, Null
    <3>3. QED
      BY <2>1, <3>1, <3>2
  <2>3. QED
    BY <2>1, <2>2 DEF LockPast
<1>6. CASE UNCHANGED vars
  BY <1>6 DEF vars, LockPast
<1>7. QED
  BY <1>2, <1>3, <1>4, <1>5, <1>6 DEF Next, Continue

\* Without parseTime, a password typed while a lock is in force takes effect
\* only in a login that read the row before that lock was written.
THEOREM LockTheorem == ~ParseTime => (Spec => []LockHonoured)
<1> SUFFICES ASSUME ~ParseTime PROVE Spec => []LockHonoured
  OBVIOUS
<1>1. Init => LockPast
  BY DEF Init, LockPast
<1>2. Typed /\ LockPast /\ [Next]_vars => LockPast'
  BY LockPastStep
<1>3. Typed /\ LockPast => LockHonoured
  <2> SUFFICES ASSUME Typed, LockPast, LockInForce, NEW r \in Requests,
                      pc[r] \in {"increment", "unlock", "mint"},
                      snap[r].lock = customer.lock
               PROVE  FALSE
    BY DEF LockHonoured
  <2>1. snap[r].lock <= now
    BY DEF LockPast
  <2>2. customer.lock \in Nat \cup {Null} /\ now \in Nat
    BY DEF Typed, TypeOK, CustomerRow, Times
  <2>3. QED
    BY <2>1, <2>2 DEF LockInForce, Null
<1>4. QED
  BY <1>1, <1>2, <1>3, InitTyped, NextTyped, PTL DEF Spec

----------------------------------------------------------------------------
(* The burst.                                                              *)

\* Logins whose guess is still to be counted: they have read a row that is not
\* locked.  Logins whose guess was counted, and that have not locked yet.
Guessing == {q \in Requests : \/ pc[q] = "increment"
                              \/ pc[q] = "check" /\ snap[q].lock = Null}
Counted == {q \in Requests : pc[q] \in {"count", "lock"}}

\* No lock ends before LockoutTicks.
LocksAhead ==
  /\ customer.lock = Null \/ customer.lock >= LockoutTicks
  /\ \A q \in Requests :
       /\ pc[q] = "check" => snap[q].lock = Null \/ snap[q].lock >= LockoutTicks
       /\ pc[q] = "lock" => stamp[q] >= LockoutTicks

\* As long as there is no lock, every guess beyond the threshold has a login
\* that will lock; once there is one, nobody joins those who may still guess.
Burst ==
  (faults = 0 /\ now < LockoutTicks) =>
    /\ customer.present =>
         /\ customer.lock = Null =>
              customer.failures <= MaxFailures - 1 + Cardinality(Counted)
         /\ customer.failures + Cardinality(Guessing)
              <= MaxFailures - 1 + Cardinality(Requests)
    /\ customer.failures <= MaxFailures - 1 + Cardinality(Requests)

LEMMA TwoParts ==
  ASSUME IsFiniteSet(Requests), NEW S \in SUBSET Requests, NEW T \in SUBSET Requests,
         S \cap T = {}
  PROVE  /\ IsFiniteSet(S) /\ IsFiniteSet(T)
         /\ Cardinality(S) \in Nat /\ Cardinality(T) \in Nat
         /\ Cardinality(Requests) \in Nat
         /\ Cardinality(S) + Cardinality(T) <= Cardinality(Requests)
<1>1. IsFiniteSet(S) /\ IsFiniteSet(T) /\ IsFiniteSet(S \cup T)
  BY FS_Subset, FS_Union
<1>2. /\ Cardinality(S) \in Nat /\ Cardinality(T) \in Nat
      /\ Cardinality(Requests) \in Nat /\ Cardinality(S \cup T) \in Nat
  BY <1>1, FS_CardinalityType
<1>3. Cardinality(S \cup T) = Cardinality(S) + Cardinality(T)
  <2>1. Cardinality(S \cup T) = Cardinality(S) + Cardinality(T) - Cardinality(S \cap T)
    BY <1>1, FS_Union
  <2>2. Cardinality(S \cap T) = 0
    BY FS_EmptySet
  <2>3. QED
    BY <1>2, <2>1, <2>2
<1>4. Cardinality(S \cup T) <= Cardinality(Requests)
  BY FS_Subset, S \cup T \subseteq Requests
<1>5. QED
  BY <1>1, <1>2, <1>3, <1>4

LEMMA TwoPartsNow ==
  ASSUME IsFiniteSet(Requests)
  PROVE  /\ IsFiniteSet(Guessing) /\ IsFiniteSet(Counted)
         /\ Cardinality(Guessing) \in Nat /\ Cardinality(Counted) \in Nat
         /\ Cardinality(Requests) \in Nat
         /\ Cardinality(Guessing) + Cardinality(Counted) <= Cardinality(Requests)
<1>1. Guessing \cap Counted = {}
  BY DEF Guessing, Counted
<1>2. QED
  BY <1>1, TwoParts DEF Guessing, Counted

LEMMA TwoPartsNext ==
  ASSUME IsFiniteSet(Requests)
  PROVE  /\ IsFiniteSet(Guessing') /\ IsFiniteSet(Counted')
         /\ Cardinality(Guessing') \in Nat /\ Cardinality(Counted') \in Nat
         /\ Cardinality(Guessing') + Cardinality(Counted') <= Cardinality(Requests)
<1>1. Guessing' \cap Counted' = {}
  BY DEF Guessing, Counted
<1>2. Guessing' \subseteq Requests /\ Counted' \subseteq Requests
  BY DEF Guessing, Counted
<1>3. QED
  BY <1>1, <1>2, TwoParts

\* Steps that leave counter and lock alone, when nobody who has counted goes on,
\* and nobody passes a lock.
LEMMA BurstKept ==
  ASSUME Typed, Burst, IsFiniteSet(Requests),
         faults <= faults', faults' \in Nat, now' = now,
         /\ customer'.present => customer.present
         /\ customer'.failures = customer.failures
         /\ customer'.lock = customer.lock,
         Counted \subseteq Counted',
         (faults' = 0 /\ now < LockoutTicks /\ customer.lock # Null)
           => Guessing' \subseteq Guessing
  PROVE  Burst'
<1> SUFFICES ASSUME faults' = 0, now < LockoutTicks PROVE
      /\ customer'.present =>
           /\ customer'.lock = Null =>
                customer'.failures <= MaxFailures - 1 + Cardinality(Counted')
           /\ customer'.failures + Cardinality(Guessing')
                <= MaxFailures - 1 + Cardinality(Requests)
      /\ customer'.failures <= MaxFailures - 1 + Cardinality(Requests)
  BY DEF Burst
<1>1. faults = 0 /\ customer.failures \in Nat
  BY DEF Typed, TypeOK, CustomerRow
<1>2. /\ Cardinality(Guessing) \in Nat /\ Cardinality(Counted) \in Nat
      /\ Cardinality(Guessing') \in Nat /\ Cardinality(Counted') \in Nat
      /\ Cardinality(Requests) \in Nat
      /\ Cardinality(Guessing') + Cardinality(Counted') <= Cardinality(Requests)
      /\ IsFiniteSet(Counted') /\ IsFiniteSet(Guessing)
  BY TwoPartsNow, TwoPartsNext
<1>3. Cardinality(Counted) <= Cardinality(Counted')
  BY <1>2, FS_Subset
<1>4. customer.failures <= MaxFailures - 1 + Cardinality(Requests)
  BY <1>1 DEF Burst
<1>5. CASE ~customer.present
  BY <1>4, <1>5
<1>6. CASE customer.present /\ customer.lock = Null
  <2>1. customer.failures <= MaxFailures - 1 + Cardinality(Counted)
    BY <1>1, <1>6 DEF Burst
  <2>2. customer.failures <= MaxFailures - 1 + Cardinality(Counted')
    BY <1>1, <1>2, <1>3, <2>1
  <2>3. customer.failures + Cardinality(Guessing') <= MaxFailures - 1 + Cardinality(Requests)
    BY <1>1, <1>2, <2>2
  <2>4. QED
    BY <1>4, <2>2, <2>3
<1>7. CASE customer.present /\ customer.lock # Null
  <2>1. Cardinality(Guessing') <= Cardinality(Guessing)
    BY <1>2, <1>7, FS_Subset
  <2>2. customer.failures + Cardinality(Guessing) <= MaxFailures - 1 + Cardinality(Requests)
    BY <1>1, <1>7 DEF Burst
  <2>3. customer.failures + Cardinality(Guessing') <= MaxFailures - 1 + Cardinality(Requests)
    BY <1>1, <1>2, <2>1, <2>2
  <2>4. QED
    BY <1>4, <1>7, <2>3
<1>8. QED
  BY <1>5, <1>6, <1>7

\* The steps that are not part of a login, or of its part before the token.
Otherwise(r) ==
  \/ \E o \in Operations : Authenticate(r, o)
  \/ CreateToken(r) \/ StampRevocation(r) \/ RevokeAllForCustomer(r)
  \/ ChangeRead(r) \/ ChangeVerify(r) \/ ChangeWrite(r) \/ ReRead(r)
  \/ DeleteRow(r) \/ RequestCheck(r) \/ RequestStore(r)
  \/ ResetCheck(r) \/ ResetWrite(r) \/ ConfirmCheck(r) \/ ConfirmWrite(r)

LEMMA OtherwiseFrame ==
  ASSUME Typed, NEW r \in Requests, Otherwise(r)
  PROVE  /\ OnlyLocalsOf(r) /\ now' = now
         /\ customer'.present => customer.present
         /\ customer'.failures = customer.failures
         /\ customer'.lock = customer.lock
         /\ faults <= faults' /\ faults' \in Nat
         /\ pc[r] \notin {"count", "lock"}
         /\ pc'[r] \notin {"check", "increment", "count", "lock"}
<1> USE DEF Typed
<1>1. OnlyLocalsOf(r)
  BY StepFrame DEF Otherwise, Continue
<1>2. now' = now
  BY DEF Otherwise, Authenticate, CreateToken, StampRevocation,
     RevokeAllForCustomer, ChangeRead, ChangeVerify, ChangeWrite, ReRead,
     DeleteRow, RequestCheck, RequestStore, ResetCheck, ResetWrite,
     ConfirmCheck, ConfirmWrite
<1>3. /\ customer'.present => customer.present
      /\ customer'.failures = customer.failures
      /\ customer'.lock = customer.lock
      /\ faults <= faults' /\ faults' \in Nat
  BY RowKept, OtherColumns DEF Otherwise
<1>4. pc[r] \notin {"count", "lock"}
  BY DEF Otherwise, Authenticate, CreateToken, StampRevocation,
     RevokeAllForCustomer, ChangeRead, ChangeVerify, ChangeWrite, ReRead,
     DeleteRow, RequestCheck, RequestStore, ResetCheck, ResetWrite,
     ConfirmCheck, ConfirmWrite
<1>5. pc'[r] \notin {"check", "increment", "count", "lock"}
  <2>1. CASE \E o \in Operations : Authenticate(r, o)
    BY <2>1 DEF Authenticate, TypeOK
  <2>2. CASE CreateToken(r) \/ StampRevocation(r)
    BY <2>2 DEF CreateToken, StampRevocation, Goto, Reply, TypeOK
  <2>3. CASE RevokeAllForCustomer(r)
    BY <2>3 DEF RevokeAllForCustomer, AfterRevocation, HandlerOK, Goto, Reply, TypeOK
  <2>4. CASE ChangeRead(r) \/ ChangeVerify(r) \/ ChangeWrite(r) \/ ReRead(r)
             \/ DeleteRow(r)
    BY <2>4 DEF ChangeRead, ChangeVerify, ChangeWrite, ReRead, DeleteRow,
       Goto, Reply, TypeOK
  <2>5. CASE RequestCheck(r) \/ RequestStore(r) \/ ResetCheck(r)
             \/ ResetWrite(r) \/ ConfirmCheck(r) \/ ConfirmWrite(r)
    BY <2>5 DEF RequestCheck, RequestStore, ResetCheck, ResetWrite,
       ConfirmCheck, ConfirmWrite, Goto, Reply, TypeOK
  <2>6. QED
    BY <2>1, <2>2, <2>3, <2>4, <2>5 DEF Otherwise
<1>6. QED
  BY <1>1, <1>2, <1>3, <1>4, <1>5

\* A lock that is computed now, or was found in the row, ends late enough.
LEMMA LocksAheadStep ==
  ASSUME Typed, LocksAhead, [Next]_vars PROVE LocksAhead'
<1> USE DEF Typed
<1>1. ASSUME NEW r \in Requests, OnlyLocalsOf(r),
             customer'.lock = Null \/ customer'.lock >= LockoutTicks,
             pc'[r] = "check" =>
               snap'[r].lock = Null \/ snap'[r].lock >= LockoutTicks,
             pc'[r] = "lock" => stamp'[r] >= LockoutTicks
      PROVE  LocksAhead'
  BY <1>1 DEF LocksAhead, OnlyLocalsOf
<1>2. ASSUME NEW r \in Requests, NEW o \in Operations, LookupByEmail(r, o)
      PROVE  LocksAhead'
  <2>1. OnlyLocalsOf(r) /\ customer' = customer
    BY <1>2, StepFrame, RowKept
  <2>2. pc'[r] \in {"idle", "check"} /\ (pc'[r] = "check" => snap'[r] = customer)
    BY <1>2 DEF LookupByEmail, TypeOK
  <2>3. QED
    BY <1>1, <2>1, <2>2 DEF LocksAhead
<1>3. ASSUME NEW r \in Requests, GetLoginFailures(r) PROVE LocksAhead'
  <2>1. OnlyLocalsOf(r) /\ customer' = customer
    BY <1>3, StepFrame, RowKept DEF Continue
  <2>2. \/ pc'[r] = "lock" /\ stamp'[r] = now + LockoutTicks
        \/ pc'[r] = "idle"
    BY <1>3 DEF GetLoginFailures, CountThenLock, Goto, Reply, TypeOK
  <2>3. now + LockoutTicks >= LockoutTicks
    BY DEF TypeOK, Times
  <2>4. QED
    BY <1>1, <2>1, <2>2, <2>3 DEF LocksAhead
<1>4. ASSUME NEW r \in Requests, SetLockExpires(r) PROVE LocksAhead'
  <2>1. OnlyLocalsOf(r) /\ pc'[r] = "idle"
    BY <1>4, StepFrame DEF Continue, SetLockExpires, Reply, TypeOK
  <2>2. customer' \in {customer, [customer EXCEPT !.lock = stamp[r]]}
    BY <1>4 DEF SetLockExpires, UpdateRow
  <2>3. customer'.lock \in {customer.lock, stamp[r]}
    BY <2>2 DEF TypeOK, CustomerRow
  <2>4. stamp[r] >= LockoutTicks
    BY <1>4 DEF LocksAhead, SetLockExpires
  <2>5. QED
    BY <1>1, <2>1, <2>3, <2>4 DEF LocksAhead
<1>5. ASSUME NEW r \in Requests, ResetLoginFailures(r) PROVE LocksAhead'
  <2>1. OnlyLocalsOf(r) /\ pc'[r] = "mint"
    BY <1>5, StepFrame DEF Continue, ResetLoginFailures, Goto, TypeOK
  <2>2. customer'.lock \in {customer.lock, Null}
    BY <1>5 DEF ResetLoginFailures, UpdateRow, TypeOK, CustomerRow
  <2>3. QED
    BY <1>1, <2>1, <2>2 DEF LocksAhead
<1>6. ASSUME NEW r \in Requests, IncrementLoginFailure(r) PROVE LocksAhead'
  <2>1. OnlyLocalsOf(r) /\ pc'[r] = "count"
    BY <1>6, StepFrame DEF Continue, IncrementLoginFailure, Goto, TypeOK
  <2>2. customer'.lock = customer.lock
    BY <1>6 DEF IncrementLoginFailure, UpdateRow, TypeOK, CustomerRow
  <2>3. QED
    BY <1>1, <2>1, <2>2 DEF LocksAhead
<1>7. ASSUME NEW r \in Requests, Otherwise(r) PROVE LocksAhead'
  <2>1. OnlyLocalsOf(r) /\ customer'.lock = customer.lock
    BY <1>7, OtherwiseFrame
  <2>2. pc'[r] \notin {"check", "increment", "count", "lock"}
    BY <1>7, OtherwiseFrame
  <2>3. QED
    BY <1>1, <2>1, <2>2 DEF LocksAhead
<1>8. ASSUME NEW r \in Requests, LoginCheck(r) PROVE LocksAhead'
  <2>1. OnlyLocalsOf(r) /\ customer' = customer
    BY <1>8, StepFrame, RowKept DEF Continue
  <2>2. pc'[r] \notin {"check", "lock"}
    BY <1>8 DEF LoginCheck, Goto, Reply, TypeOK
  <2>3. QED
    BY <1>1, <2>1, <2>2 DEF LocksAhead
<1>9. CASE Tick
  BY <1>9 DEF Tick, row, locals, LocksAhead
<1>10. CASE UNCHANGED vars
  BY <1>10 DEF vars, LocksAhead
<1>11. QED
  BY <1>2, <1>3, <1>4, <1>5, <1>6, <1>7, <1>8, <1>9, <1>10
  DEF Next, Continue, Otherwise

LEMMA BurstStep ==
  ASSUME ~ParseTime, IsFiniteSet(Requests), Typed, LocksAhead, Burst, [Next]_vars
  PROVE  Burst'
<1> USE DEF Typed
<1>1. ASSUME NEW r \in Requests, NEW o \in Operations, LookupByEmail(r, o)
      PROVE  Burst'
  <2>1. /\ OnlyLocalsOf(r) /\ customer' = customer /\ now' = now
        /\ faults <= faults' /\ faults' \in Nat
    BY <1>1, StepFrame, RowKept DEF LookupByEmail
  <2>2. /\ pc[r] = "idle" /\ pc'[r] \in {"idle", "check"}
        /\ pc'[r] = "check" => snap'[r] = customer
    BY <1>1 DEF LookupByEmail, TypeOK
  <2>3. Counted \subseteq Counted'
    BY <2>1, <2>2 DEF Counted, OnlyLocalsOf
  <2>4. customer.lock # Null => Guessing' \subseteq Guessing
    BY <2>1, <2>2 DEF Guessing, OnlyLocalsOf
  <2>5. QED
    BY <2>1, <2>3, <2>4, BurstKept
<1>2. ASSUME NEW r \in Requests, LoginCheck(r) PROVE Burst'
  <2>1. /\ OnlyLocalsOf(r) /\ customer' = customer /\ now' = now
        /\ faults <= faults' /\ faults' \in Nat /\ pc[r] = "check"
    BY <1>2, StepFrame, RowKept DEF LoginCheck, Continue
  <2>2. Counted \subseteq Counted'
    BY <2>1 DEF Counted, OnlyLocalsOf
  <2>3. ASSUME now < LockoutTicks PROVE Guessing' \subseteq Guessing
    <3>1. CASE Reply(r, "error")
      <4>1. pc'[r] = "idle"
        BY <3>1 DEF Reply, TypeOK
      <4>2. QED
        BY <2>1, <4>1 DEF Guessing, OnlyLocalsOf
    <3>2. CASE ~Locked(snap[r])
      <4>1. now \in Nat /\ snap[r] \in CustomerRow
        BY <2>1 DEF TypeOK, Times, HandlerOK
      <4>2. snap[r].lock \in Nat \cup {Null}
        BY <4>1 DEF CustomerRow
      <4>3. snap[r].lock = Null
        BY <2>1, <2>3, <3>2, <4>1, <4>2 DEF LocksAhead, Locked
      <4>4. QED
        BY <2>1, <4>3 DEF Guessing, OnlyLocalsOf
    <3>3. QED
      BY <1>2, <3>1, <3>2 DEF LoginCheck
  <2>4. QED
    BY <2>1, <2>2, <2>3, BurstKept
<1>3. ASSUME NEW r \in Requests, Otherwise(r) PROVE Burst'
  <2>1. /\ OnlyLocalsOf(r) /\ pc[r] \notin {"count", "lock"}
        /\ pc'[r] \notin {"check", "increment", "count", "lock"}
    BY <1>3, OtherwiseFrame
  <2>2. Counted \subseteq Counted'
    BY <2>1 DEF Counted, OnlyLocalsOf
  <2>3. Guessing' \subseteq Guessing
    BY <2>1 DEF Guessing, OnlyLocalsOf
  <2>4. QED
    BY <1>3, <2>2, <2>3, OtherwiseFrame, BurstKept
<1>4. ASSUME NEW r \in Requests, IncrementLoginFailure(r) PROVE Burst'
  <2>1. /\ OnlyLocalsOf(r) /\ pc[r] = "increment" /\ pc'[r] = "count" /\ now' = now
    BY <1>4, StepFrame DEF IncrementLoginFailure, Continue, Goto, TypeOK
  <2>2. PICK a \in BOOLEAN, b \in BOOLEAN :
          /\ Statement(a, b)
          /\ UpdateRow(a, [customer EXCEPT !.failures = @ + 1])
    BY <1>4 DEF IncrementLoginFailure
  <2>3. faults <= faults' /\ faults' \in Nat /\ faults \in Nat /\ now \in Nat
    BY <2>2, StatementType DEF TypeOK, Times
  <2>4. SUFFICES ASSUME faults' = 0, now < LockoutTicks PROVE Burst'
    BY <2>1 DEF Burst
  <2>5. a /\ faults = 0
    BY <2>2, <2>3, <2>4 DEF Statement, TypeOK
  <2>6. customer.failures \in Nat
    BY DEF TypeOK, CustomerRow
  <2>7. /\ Guessing' = Guessing \ {r} /\ r \in Guessing
        /\ Counted' = Counted \cup {r} /\ r \notin Counted
    BY <2>1 DEF Guessing, Counted, OnlyLocalsOf
  <2>8. /\ Cardinality(Guessing) \in Nat /\ Cardinality(Counted) \in Nat
        /\ Cardinality(Guessing') \in Nat /\ Cardinality(Counted') \in Nat
        /\ Cardinality(Requests) \in Nat
        /\ IsFiniteSet(Guessing) /\ IsFiniteSet(Counted)
    BY TwoPartsNow, TwoPartsNext
  <2>9. /\ Cardinality(Guessing') = Cardinality(Guessing) - 1
        /\ Cardinality(Counted') = Cardinality(Counted) + 1
    BY <2>7, <2>8, FS_RemoveElement, FS_AddElement
  <2>10. CASE customer.present
    <3>1. /\ customer'.failures = customer.failures + 1
          /\ customer'.lock = customer.lock
      BY <2>2, <2>5, <2>10 DEF UpdateRow, TypeOK, CustomerRow
    <3>2. customer'.lock = Null =>
            customer'.failures <= MaxFailures - 1 + Cardinality(Counted')
      BY <2>4, <2>5, <2>6, <2>8, <2>9, <2>10, <3>1 DEF Burst
    <3>3. customer.failures + Cardinality(Guessing) <= MaxFailures - 1 + Cardinality(Requests)
      BY <2>4, <2>5, <2>10 DEF Burst
    <3>4. customer'.failures + Cardinality(Guessing') <= MaxFailures - 1 + Cardinality(Requests)
      BY <2>6, <2>8, <2>9, <3>1, <3>3
    <3>5. customer'.failures <= MaxFailures - 1 + Cardinality(Requests)
      BY <2>6, <2>8, <3>1, <3>4
    <3>6. QED
      BY <3>2, <3>4, <3>5 DEF Burst
  <2>11. CASE ~customer.present
    <3>1. customer' = customer
      BY <2>2, <2>11 DEF UpdateRow
    <3>2. QED
      BY <2>4, <2>5, <2>11, <3>1 DEF Burst
  <2>12. QED
    BY <2>10, <2>11
<1>5. ASSUME NEW r \in Requests, GetLoginFailures(r) PROVE Burst'
  <2>1. /\ OnlyLocalsOf(r) /\ pc[r] = "count" /\ now' = now /\ customer' = customer
        /\ faults <= faults' /\ faults' \in Nat
    BY <1>5, StepFrame, RowKept DEF GetLoginFailures, CountThenLock, Continue
  <2>2. PICK ok \in BOOLEAN :
          /\ Statement(ok, ok)
          /\ IF ok /\ customer.present /\ customer.failures >= MaxFailures
             THEN pc'[r] = "lock" ELSE pc'[r] = "idle"
    BY <1>5 DEF GetLoginFailures, CountThenLock, Goto, Reply, TypeOK
  <2>3. Guessing' \subseteq Guessing
    BY <2>1, <2>2 DEF Guessing, OnlyLocalsOf
  <2>4. CASE ok /\ customer.present /\ customer.failures >= MaxFailures
    <3>1. Counted \subseteq Counted'
      BY <2>1, <2>2, <2>4 DEF Counted, OnlyLocalsOf
    <3>2. QED
      BY <2>1, <2>3, <3>1, BurstKept
  <2>5. CASE ~ok
    <3>1. faults' # 0
      BY <2>2, <2>5 DEF Statement, TypeOK
    <3>2. QED
      BY <3>1 DEF Burst
  <2>6. CASE ~customer.present
    <3>1. faults' = 0 => faults = 0
      BY <2>1 DEF TypeOK
    <3>2. QED
      BY <2>1, <2>6, <3>1 DEF Burst
  <2>7. CASE customer.failures < MaxFailures
    <3>1. /\ Cardinality(Guessing') \in Nat /\ Cardinality(Counted') \in Nat
          /\ Cardinality(Guessing') + Cardinality(Counted') <= Cardinality(Requests)
          /\ Cardinality(Requests) \in Nat
      BY TwoPartsNow, TwoPartsNext
    <3>2. customer.failures \in Nat
      BY DEF TypeOK, CustomerRow
    <3>3. /\ customer.failures <= MaxFailures - 1 + Cardinality(Counted')
          /\ customer.failures + Cardinality(Guessing') <= MaxFailures - 1 + Cardinality(Requests)
          /\ customer.failures <= MaxFailures - 1 + Cardinality(Requests)
      BY <2>7, <3>1, <3>2
    <3>4. QED
      BY <2>1, <3>3 DEF Burst
  <2>8. QED
    BY <2>4, <2>5, <2>6, <2>7 DEF TypeOK, CustomerRow
<1>6. ASSUME NEW r \in Requests, SetLockExpires(r) PROVE Burst'
  <2>1. /\ OnlyLocalsOf(r) /\ pc[r] = "lock" /\ pc'[r] = "idle" /\ now' = now
    BY <1>6, StepFrame DEF SetLockExpires, Continue, Reply, TypeOK
  <2>2. PICK a \in BOOLEAN, b \in BOOLEAN :
          /\ Statement(a, b)
          /\ UpdateRow(a, [customer EXCEPT !.lock = stamp[r]])
    BY <1>6 DEF SetLockExpires
  <2>3. faults <= faults' /\ faults' \in Nat /\ faults \in Nat /\ now \in Nat
    BY <2>2, StatementType DEF TypeOK, Times
  <2>4. SUFFICES ASSUME faults' = 0, now < LockoutTicks PROVE Burst'
    BY <2>1 DEF Burst
  <2>5. a /\ faults = 0
    BY <2>2, <2>3, <2>4 DEF Statement, TypeOK
  <2>6. CASE customer.present
    <3>1. customer'.failures = customer.failures /\ customer'.lock = stamp[r]
      BY <2>2, <2>5, <2>6 DEF UpdateRow, TypeOK, CustomerRow
    <3>2. stamp[r] # Null
      BY <2>1 DEF HandlerOK, Null
    <3>3. Guessing' \subseteq Guessing
      BY <2>1 DEF Guessing, OnlyLocalsOf
    <3>4. /\ Cardinality(Guessing) \in Nat /\ Cardinality(Guessing') \in Nat
          /\ Cardinality(Requests) \in Nat
          /\ Cardinality(Guessing') <= Cardinality(Guessing)
      BY <3>3, TwoPartsNow, TwoPartsNext, FS_Subset
    <3>5. customer.failures + Cardinality(Guessing) <= MaxFailures - 1 + Cardinality(Requests)
      BY <2>4, <2>5, <2>6 DEF Burst
    <3>6. customer.failures \in Nat
      BY DEF TypeOK, CustomerRow
    <3>7. /\ customer.failures + Cardinality(Guessing') <= MaxFailures - 1 + Cardinality(Requests)
          /\ customer.failures <= MaxFailures - 1 + Cardinality(Requests)
      BY <3>4, <3>5, <3>6
    <3>8. QED
      BY <3>1, <3>2, <3>7 DEF Burst
  <2>7. CASE ~customer.present
    <3>1. customer' = customer
      BY <2>2, <2>7 DEF UpdateRow
    <3>2. QED
      BY <2>4, <2>5, <2>7, <3>1 DEF Burst
  <2>8. QED
    BY <2>6, <2>7
<1>7. ASSUME NEW r \in Requests, ResetLoginFailures(r) PROVE Burst'
  <2>1. now' = now
    BY <1>7 DEF ResetLoginFailures
  <2>2. PICK a \in BOOLEAN, b \in BOOLEAN :
          /\ Statement(a, b)
          /\ UpdateRow(a, [customer EXCEPT !.failures = 0, !.lock = Null])
    BY <1>7 DEF ResetLoginFailures
  <2>3. faults <= faults' /\ faults' \in Nat /\ faults \in Nat
    BY <2>2, StatementType DEF TypeOK
  <2>4. SUFFICES ASSUME faults' = 0, now < LockoutTicks PROVE Burst'
    BY <2>1 DEF Burst
  <2>5. a /\ faults = 0
    BY <2>2, <2>3, <2>4 DEF Statement, TypeOK
  <2>6. CASE customer.present
    <3>1. customer'.failures = 0
      BY <2>2, <2>5, <2>6 DEF UpdateRow, TypeOK, CustomerRow
    <3>2. /\ Cardinality(Guessing') \in Nat /\ Cardinality(Counted') \in Nat
          /\ Cardinality(Guessing') + Cardinality(Counted') <= Cardinality(Requests)
          /\ Cardinality(Requests) \in Nat
      BY TwoPartsNow, TwoPartsNext
    <3>3. QED
      BY <3>1, <3>2 DEF Burst
  <2>7. CASE ~customer.present
    <3>1. customer' = customer
      BY <2>2, <2>7 DEF UpdateRow
    <3>2. QED
      BY <2>4, <2>5, <2>7, <3>1 DEF Burst
  <2>8. QED
    BY <2>6, <2>7
<1>8. CASE Tick
  <2>1. /\ now' < LockoutTicks => now < LockoutTicks
        /\ faults' = faults /\ customer' = customer /\ pc' = pc /\ snap' = snap
    BY <1>8 DEF Tick, row, locals, TypeOK, Times
  <2>2. Guessing' = Guessing /\ Counted' = Counted
    BY <2>1 DEF Guessing, Counted
  <2>3. QED
    BY <2>1, <2>2 DEF Burst
<1>9. CASE UNCHANGED vars
  BY <1>9 DEF vars, Burst, Guessing, Counted
<1>10. QED
  BY <1>1, <1>2, <1>3, <1>4, <1>5, <1>6, <1>7, <1>8, <1>9
  DEF Next, Continue, Otherwise

\* Without parseTime, and while no statement fails, the first lock stops the
\* guesses at the threshold plus one for every other login that can be at work,
\* however many there are and whatever the other operations write meanwhile.
THEOREM BurstTheorem ==
  ~ParseTime /\ IsFiniteSet(Requests) => (Spec => []GuessBurst)
<1> SUFFICES ASSUME ~ParseTime, IsFiniteSet(Requests) PROVE Spec => []GuessBurst
  OBVIOUS
<1>1. Init => LocksAhead /\ Burst
  <2> SUFFICES ASSUME Init PROVE LocksAhead /\ Burst
    OBVIOUS
  <2>1. customer.failures = 0 /\ customer.lock = Null
    BY DEF Init
  <2>2. /\ Cardinality(Guessing) \in Nat /\ Cardinality(Counted) \in Nat
        /\ Cardinality(Requests) \in Nat
        /\ Cardinality(Guessing) + Cardinality(Counted) <= Cardinality(Requests)
    BY TwoPartsNow
  <2>3. Burst
    BY <2>1, <2>2 DEF Burst
  <2>4. LocksAhead
    BY <2>1 DEF Init, LocksAhead
  <2>5. QED
    BY <2>3, <2>4
<1>2. Typed /\ LocksAhead /\ Burst /\ [Next]_vars => LocksAhead' /\ Burst'
  BY LocksAheadStep, BurstStep
<1>3. Burst => GuessBurst
  BY DEF Burst, GuessBurst
<1>4. QED
  BY <1>1, <1>2, <1>3, InitTyped, NextTyped, PTL DEF Spec

----------------------------------------------------------------------------
(* Revocation.                                                             *)

\* A closed time lies in the past, under the stored record, and under every
\* record that is about to be written.
ClosedBelow ==
  \A t \in closed :
    /\ t <= now /\ t <= revokeBefore
    /\ \A r \in Requests : pc[r] = "revoke" => t <= stamp[r]

LEMMA ClosedStep ==
  ASSUME Typed, ClosedBelow, [Next]_vars
  PROVE  ClosedBelow'
<1> USE DEF Typed
<1>1. closed \subseteq Int /\ now \in Int
  BY DEF TypeOK, Times
<1>2. ASSUME NEW r \in Requests, OnlyLocalsOf(r),
             now' = now, closed' = closed, revokeBefore' = revokeBefore,
             pc'[r] # "revoke"
      PROVE  ClosedBelow'
  <2>1. ASSUME NEW t \in closed, NEW q \in Requests, pc'[q] = "revoke"
        PROVE  t <= stamp'[q]
    BY <1>2, <2>1 DEF ClosedBelow, OnlyLocalsOf
  <2>2. QED
    BY <1>2, <2>1 DEF ClosedBelow
<1>3. ASSUME NEW r \in Requests, StampRevocation(r) PROVE ClosedBelow'
  <2>1. /\ OnlyLocalsOf(r) /\ stamp'[r] = now /\ now' = now
        /\ closed' = closed /\ revokeBefore' = revokeBefore
    BY <1>3, StepFrame DEF Continue, StampRevocation, jwt, TypeOK
  <2>2. ASSUME NEW t \in closed, NEW q \in Requests, pc'[q] = "revoke"
        PROVE  t <= stamp'[q]
    BY <2>1, <2>2 DEF ClosedBelow, OnlyLocalsOf
  <2>3. QED
    BY <2>1, <2>2 DEF ClosedBelow
<1>4. ASSUME NEW r \in Requests, RevokeAllForCustomer(r) PROVE ClosedBelow'
  <2>1. OnlyLocalsOf(r) /\ pc'[r] # "revoke" /\ now' = now
    BY <1>4, StepFrame
    DEF Continue, RevokeAllForCustomer, AfterRevocation, HandlerOK, Goto, Reply,
        TypeOK
  <2>2. CASE revokeBefore' = stamp[r] /\ CloseRevocation(r)
    <3>1. pc[r] = "revoke" /\ stamp[r] \in 0..now
      BY <1>4 DEF RevokeAllForCustomer, HandlerOK
    <3>2. ASSUME NEW t \in closed'
          PROVE  /\ t <= now /\ t <= stamp[r]
                 /\ \A q \in Requests : pc[q] = "revoke" => t <= stamp[q]
      <4>1. CASE t \in closed
        BY <3>1, <4>1 DEF ClosedBelow
      <4>2. CASE /\ t \in 0..stamp[r]
                 /\ \A q \in Requests : pc[q] = "revoke" => stamp[q] >= t
        <5>1. ASSUME NEW q \in Requests, pc[q] = "revoke" PROVE t <= stamp[q]
          <6>1. stamp[q] \in Int
            BY <5>1 DEF HandlerOK
          <6>2. QED
            BY <4>2, <5>1, <6>1
        <5>2. QED
          BY <1>1, <3>1, <4>2, <5>1
      <4>3. QED
        BY <2>2, <3>2, <4>1, <4>2 DEF CloseRevocation
    <3>3. ASSUME NEW t \in closed', NEW q \in Requests, pc'[q] = "revoke"
          PROVE  t <= stamp'[q]
      BY <2>1, <3>2, <3>3 DEF OnlyLocalsOf
    <3>4. QED
      BY <2>1, <2>2, <3>2, <3>3 DEF ClosedBelow
  <2>3. CASE UNCHANGED <<revokeBefore, closed>>
    BY <1>2, <2>1, <2>3
  <2>4. QED
    BY <1>4, <2>2, <2>3 DEF RevokeAllForCustomer
<1>5. ASSUME NEW r \in Requests,
             \/ \E o \in Operations : LookupByEmail(r, o) \/ Authenticate(r, o)
             \/ LoginCheck(r) \/ IncrementLoginFailure(r) \/ GetLoginFailures(r)
             \/ SetLockExpires(r) \/ ResetLoginFailures(r) \/ CreateToken(r)
             \/ ChangeRead(r) \/ ChangeVerify(r) \/ ChangeWrite(r) \/ ReRead(r)
             \/ DeleteRow(r) \/ RequestCheck(r) \/ RequestStore(r)
             \/ ResetCheck(r) \/ ResetWrite(r)
             \/ ConfirmCheck(r) \/ ConfirmWrite(r)
      PROVE  ClosedBelow'
  <2>1. OnlyLocalsOf(r)
    BY <1>5, StepFrame DEF Continue
  <2>2. now' = now /\ closed' = closed /\ revokeBefore' = revokeBefore
    BY <1>5 DEF jwt, LookupByEmail, Authenticate, LoginCheck,
       IncrementLoginFailure, GetLoginFailures, CountThenLock, SetLockExpires,
       ResetLoginFailures, CreateToken, ChangeRead, ChangeVerify,
       ChangeWrite, ReRead, DeleteRow, RequestCheck, RequestStore, ResetCheck,
       ResetWrite, ConfirmCheck, ConfirmWrite
  <2>3. pc'[r] # "revoke"
    <3>1. CASE \E o \in Operations : LookupByEmail(r, o) \/ Authenticate(r, o)
      BY <3>1 DEF LookupByEmail, Authenticate, TypeOK
    <3>2. CASE LoginCheck(r) \/ IncrementLoginFailure(r) \/ GetLoginFailures(r)
               \/ SetLockExpires(r) \/ ResetLoginFailures(r) \/ CreateToken(r)
      BY <3>2 DEF LoginCheck, IncrementLoginFailure, GetLoginFailures,
         CountThenLock, SetLockExpires, ResetLoginFailures, CreateToken, Goto,
         Reply, TypeOK
    <3>3. CASE ChangeRead(r) \/ ChangeVerify(r) \/ ChangeWrite(r) \/ ReRead(r)
               \/ DeleteRow(r)
      BY <3>3 DEF ChangeRead, ChangeVerify, ChangeWrite, ReRead, DeleteRow,
         Goto, Reply, TypeOK
    <3>4. CASE RequestCheck(r) \/ RequestStore(r) \/ ResetCheck(r)
               \/ ResetWrite(r) \/ ConfirmCheck(r) \/ ConfirmWrite(r)
      BY <3>4 DEF RequestCheck, RequestStore, ResetCheck, ResetWrite,
         ConfirmCheck, ConfirmWrite, Goto, Reply, TypeOK
    <3>5. QED
      BY <1>5, <3>1, <3>2, <3>3, <3>4
  <2>4. QED
    BY <1>2, <2>1, <2>2, <2>3
<1>6. CASE Tick
  <2>1. /\ now' = now + 1
        /\ pc' = pc /\ stamp' = stamp
        /\ closed' = closed /\ revokeBefore' = revokeBefore
    BY <1>6 DEF Tick, locals, jwt
  <2>2. QED
    BY <1>1, <2>1 DEF ClosedBelow
<1>7. CASE UNCHANGED vars
  BY <1>7 DEF vars, ClosedBelow
<1>8. QED
  BY <1>3, <1>4, <1>5, <1>6, <1>7 DEF Next, Continue

\* For any number of overlapping revocations, a session no younger than all
\* the revocations in flight when one was written is refused for good.
THEOREM RevocationTheorem == Spec => []ClosedStaysRevoked
<1>1. Init => ClosedBelow
  BY DEF Init, ClosedBelow
<1>2. Typed /\ ClosedBelow /\ [Next]_vars => ClosedBelow'
  BY ClosedStep
<1>3. Typed /\ ClosedBelow => ClosedStaysRevoked
  <2> SUFFICES ASSUME Typed, ClosedBelow, NEW iat \in tokens \cap closed
               PROVE  ~Accepted(iat)
    BY DEF ClosedStaysRevoked
  <2>1. iat <= revokeBefore
    BY DEF ClosedBelow
  <2>2. iat \in Int /\ revokeBefore \in Int
    BY DEF Typed, TypeOK, Times, Null
  <2>3. QED
    BY <2>1, <2>2 DEF Accepted
<1>4. QED
  BY <1>1, <1>2, <1>3, InitTyped, NextTyped, PTL DEF Spec

----------------------------------------------------------------------------
(* Reset links and ConfirmEmail.                                           *)

LinksStayDead ==
  \A link \in mailed : customer.rpToken # link => customer'.rpToken # link

LEMMA DeadLinkStep ==
  ASSUME Typed, [Next]_vars
  PROVE  LinksStayDead
<1> USE DEF Typed
<1>1. customer \in CustomerRow /\ 0 \notin mailed
  BY NumberedShape DEF TypeOK
<1>2. ASSUME customer'.rpToken \in {customer.rpToken, 0} PROVE LinksStayDead
  BY <1>1, <1>2 DEF LinksStayDead
<1>3. ASSUME NEW r \in Requests, RequestStore(r) PROVE LinksStayDead
  <2>1. PICK n \in Nat : mailed = 1..n
    BY NumberedShape DEF TypeOK
  <2>2. Cardinality(mailed) = n
    BY <2>1, FS_Interval
  <2>3. customer'.rpToken \in {customer.rpToken, n + 1}
    BY <1>1, <1>3, <2>2 DEF RequestStore, UpdateRow, CustomerRow
  <2>4. n + 1 \notin mailed
    BY <2>1
  <2>5. QED
    BY <2>3, <2>4 DEF LinksStayDead
<1>4. ASSUME NEW r \in Requests,
             \/ IncrementLoginFailure(r) \/ SetLockExpires(r)
             \/ ResetLoginFailures(r) \/ ChangeWrite(r) \/ DeleteRow(r)
             \/ ResetWrite(r) \/ ConfirmWrite(r)
      PROVE  LinksStayDead
  <2>1. CASE IncrementLoginFailure(r)
    BY <1>1, <1>2, <2>1 DEF IncrementLoginFailure, UpdateRow, CustomerRow
  <2>2. CASE SetLockExpires(r)
    BY <1>1, <1>2, <2>2 DEF SetLockExpires, UpdateRow, CustomerRow
  <2>3. CASE ResetLoginFailures(r)
    BY <1>1, <1>2, <2>3 DEF ResetLoginFailures, UpdateRow, CustomerRow
  <2>4. CASE ChangeWrite(r)
    BY <1>1, <1>2, <2>4 DEF ChangeWrite, UpdateRow, CustomerRow
  <2>5. CASE DeleteRow(r)
    BY <1>1, <1>2, <2>5 DEF DeleteRow, UpdateRow, CustomerRow
  <2>6. CASE ResetWrite(r)
    BY <1>1, <1>2, <2>6 DEF ResetWrite, UpdateRow, CustomerRow
  <2>7. CASE ConfirmWrite(r)
    BY <1>1, <1>2, <2>7 DEF ConfirmWrite, UpdateRow, CustomerRow
  <2>8. QED
    BY <1>4, <2>1, <2>2, <2>3, <2>4, <2>5, <2>6, <2>7
<1>5. ASSUME NEW r \in Requests,
             \/ \E o \in Operations : LookupByEmail(r, o) \/ Authenticate(r, o)
             \/ LoginCheck(r) \/ GetLoginFailures(r) \/ CreateToken(r)
             \/ StampRevocation(r) \/ RevokeAllForCustomer(r)
             \/ ChangeRead(r) \/ ChangeVerify(r) \/ ReRead(r)
             \/ RequestCheck(r) \/ ResetCheck(r) \/ ConfirmCheck(r)
      PROVE  LinksStayDead
  BY <1>2, <1>5, RowKept
<1>6. CASE Tick
  BY <1>2, <1>6 DEF Tick, row
<1>7. CASE UNCHANGED vars
  BY <1>2, <1>7 DEF vars
<1>8. QED
  BY <1>3, <1>4, <1>5, <1>6, <1>7 DEF Next, Continue

\* However requests and uses of reset links overlap, a mailed link that was
\* used or replaced never becomes the stored one again.
THEOREM DeadLinkTheorem == Spec => DeadLinkStaysDead
<1>1. Typed /\ [Next]_vars => [LinksStayDead]_vars
  BY DeadLinkStep
<1>2. QED
  BY <1>1, InitTyped, NextTyped, PTL DEF Spec, DeadLinkStaysDead, LinksStayDead

----------------------------------------------------------------------------
(* What was acknowledged.                                                  *)

Confirmed == ~customer.present \/ ~customer.confirmation

\* A deleted row stays deleted and a confirmed one stays confirmed: every
\* UPDATE sets its own columns of the row as it stands.
LEMMA RowForGood ==
  ASSUME Typed, [Next]_vars
  PROVE  /\ ~customer.present => ~customer'.present
         /\ Confirmed => Confirmed'
<1> USE DEF Typed
<1>1. customer \in CustomerRow
  BY DEF TypeOK
<1>2. ASSUME \/ ~customer.present /\ customer' = customer
             \/ customer'.confirmation = customer.confirmation
                  /\ customer'.present = customer.present
             \/ ~customer'.present
             \/ ~customer'.confirmation /\ customer'.present = customer.present
      PROVE  /\ ~customer.present => ~customer'.present
             /\ Confirmed => Confirmed'
  BY <1>2 DEF Confirmed
<1>3. ASSUME NEW r \in Requests,
             \/ IncrementLoginFailure(r) \/ SetLockExpires(r)
             \/ ResetLoginFailures(r) \/ ChangeWrite(r) \/ RequestStore(r)
             \/ ResetWrite(r)
      PROVE  /\ customer'.confirmation = customer.confirmation
             /\ customer'.present = customer.present
  <2>1. CASE IncrementLoginFailure(r)
    BY <1>1, <2>1 DEF IncrementLoginFailure, UpdateRow, CustomerRow
  <2>2. CASE SetLockExpires(r)
    BY <1>1, <2>2 DEF SetLockExpires, UpdateRow, CustomerRow
  <2>3. CASE ResetLoginFailures(r)
    BY <1>1, <2>3 DEF ResetLoginFailures, UpdateRow, CustomerRow
  <2>4. CASE ChangeWrite(r)
    BY <1>1, <2>4 DEF ChangeWrite, UpdateRow, CustomerRow
  <2>5. CASE RequestStore(r)
    BY <1>1, <2>5 DEF RequestStore, UpdateRow, CustomerRow
  <2>6. CASE ResetWrite(r)
    BY <1>1, <2>6 DEF ResetWrite, UpdateRow, CustomerRow
  <2>7. QED
    BY <1>3, <2>1, <2>2, <2>3, <2>4, <2>5, <2>6
<1>4. ASSUME NEW r \in Requests, DeleteRow(r)
      PROVE  \/ ~customer'.present
             \/ customer' = customer
  BY <1>1, <1>4 DEF DeleteRow, UpdateRow, CustomerRow
<1>5. ASSUME NEW r \in Requests, ConfirmWrite(r)
      PROVE  \/ ~customer'.confirmation /\ customer'.present = customer.present
             \/ customer' = customer
  BY <1>1, <1>5 DEF ConfirmWrite, UpdateRow, CustomerRow
<1>6. ASSUME NEW r \in Requests,
             \/ \E o \in Operations : LookupByEmail(r, o) \/ Authenticate(r, o)
             \/ LoginCheck(r) \/ GetLoginFailures(r) \/ CreateToken(r)
             \/ StampRevocation(r) \/ RevokeAllForCustomer(r)
             \/ ChangeRead(r) \/ ChangeVerify(r) \/ ReRead(r)
             \/ RequestCheck(r) \/ ResetCheck(r) \/ ConfirmCheck(r)
      PROVE  customer' = customer
  BY <1>6, RowKept
<1>7. CASE Tick \/ UNCHANGED vars
  BY <1>2, <1>7 DEF Tick, row, vars
<1>8. QED
  BY <1>2, <1>3, <1>4, <1>5, <1>6, <1>7 DEF Next, Continue

\* What a request knows of its own: a login hands out sessions and nothing
\* else does; a row read back after ConfirmEmail's UPDATE is confirmed or
\* gone; and so is one whose request was answered, or panicked.
AcknowledgedBy(r) ==
  /\ pc[r] \in {"unlock", "mint"} => op[r] = "GenerateToken"
  /\ pc[r] = "reread" =>
       op[r] = "ChangePassword" \/ (op[r] = "ConfirmEmail" /\ Confirmed)
  /\ (op[r] = "ConfirmEmail" /\ result[r] \in {"ok", "panic"}) => Confirmed
  /\ (op[r] = "DeleteCustomer" /\ result[r] = "ok") => ~customer.present

Acknowledgements == \A r \in Requests : AcknowledgedBy(r)

LEMMA AcknowledgedStep ==
  ASSUME Typed, Acknowledgements, [Next]_vars
  PROVE  Acknowledgements'
<1> USE DEF Typed
<1>1. /\ ~customer.present => ~customer'.present
      /\ Confirmed => Confirmed'
  BY RowForGood
<1>2. ASSUME NEW q \in Requests, pc'[q] = pc[q], op'[q] = op[q],
             result'[q] = result[q]
      PROVE  AcknowledgedBy(q)'
  BY <1>1, <1>2 DEF AcknowledgedBy, Acknowledgements
<1>3. ASSUME NEW r \in Requests, OnlyLocalsOf(r), AcknowledgedBy(r)'
      PROVE  Acknowledgements'
  BY <1>2, <1>3 DEF OnlyLocalsOf, Acknowledgements
<1>4. ASSUME NEW r \in Requests, NEW label, Goto(r, label),
             label \notin {"unlock", "mint", "reread"}
      PROVE  AcknowledgedBy(r)'
  <2>1. pc'[r] = label /\ op' = op /\ result' = result
    BY <1>4 DEF Goto, TypeOK
  <2>2. QED
    BY <1>1, <1>4, <2>1 DEF AcknowledgedBy, Acknowledgements
<1>5. ASSUME NEW r \in Requests, Reply(r, "error")
      PROVE  AcknowledgedBy(r)'
  BY <1>5, ReplyStep DEF AcknowledgedBy
<1>6. ASSUME NEW r \in Requests, NEW o \in Operations,
             LookupByEmail(r, o) \/ Authenticate(r, o)
      PROVE  AcknowledgedBy(r)'
  <2>1. /\ op'[r] = o /\ pc'[r] \notin {"unlock", "mint", "reread"}
        /\ result'[r] # "none" =>
             o \in EmailOperations /\ result'[r] = UnknownEmail(o)
    BY <1>6 DEF LookupByEmail, Authenticate, TypeOK
  <2>2. QED
    BY <2>1 DEF AcknowledgedBy, UnknownEmail, EmailOperations
<1>7. ASSUME NEW r \in Requests, LoginCheck(r) \/ ResetLoginFailures(r)
      PROVE  AcknowledgedBy(r)'
  <2>1. CASE Reply(r, "error")
    BY <1>5, <2>1
  <2>2. CASE Goto(r, "increment")
    BY <1>4, <2>2
  <2>3. CASE (Goto(r, "unlock") \/ Goto(r, "mint")) /\ op[r] = "GenerateToken"
    <3>1. /\ pc'[r] \in {"unlock", "mint"}
          /\ op'[r] = "GenerateToken" /\ result' = result
      BY <2>3 DEF Goto, TypeOK
    <3>2. QED
      BY <3>1 DEF AcknowledgedBy
  <2>4. QED
    BY <1>7, <2>1, <2>2, <2>3
    DEF LoginCheck, ResetLoginFailures, AcknowledgedBy, Acknowledgements
<1>8. ASSUME NEW r \in Requests, CreateToken(r)
      PROVE  AcknowledgedBy(r)'
  <2>1. op[r] = "GenerateToken"
    BY <1>8 DEF CreateToken, AcknowledgedBy, Acknowledgements
  <2>2. \E answer \in {"ok", "error"} : Reply(r, answer)
    BY <1>8 DEF CreateToken
  <2>3. pc'[r] = "idle" /\ op' = op
    BY <2>2, ReplyStep
  <2>4. QED
    BY <2>1, <2>3 DEF AcknowledgedBy
<1>9. ASSUME NEW r \in Requests, RevokeAllForCustomer(r)
      PROVE  AcknowledgedBy(r)'
  <2>1. CASE Reply(r, "error") \/ Goto(r, "delete")
    BY <1>4, <1>5, <2>1
  <2>2. CASE Reply(r, "ok") /\ op[r] \in {"RevokeToken", "ResetPassword"}
    BY <2>2, ReplyStep DEF AcknowledgedBy
  <2>3. CASE Goto(r, "reread") /\ op[r] = "ChangePassword"
    <3>1. pc'[r] = "reread" /\ op'[r] = "ChangePassword"
      BY <2>3 DEF Goto, TypeOK
    <3>2. QED
      BY <3>1 DEF AcknowledgedBy
  <2>4. QED
    BY <1>9, <2>1, <2>2, <2>3
    DEF RevokeAllForCustomer, AfterRevocation, HandlerOK
<1>10. ASSUME NEW r \in Requests, ReRead(r) PROVE AcknowledgedBy(r)'
  <2>1. \E answer \in {"ok", "error", "panic"} : Reply(r, answer)
    BY <1>10 DEF ReRead
  <2>2. pc'[r] = "idle" /\ op' = op
    BY <2>1, ReplyStep
  <2>3. op[r] = "ChangePassword" \/ (op[r] = "ConfirmEmail" /\ Confirmed)
    BY <1>10 DEF ReRead, AcknowledgedBy, Acknowledgements
  <2>4. QED
    BY <1>1, <2>2, <2>3 DEF AcknowledgedBy
<1>11. ASSUME NEW r \in Requests, DeleteRow(r) PROVE AcknowledgedBy(r)'
  <2>1. PICK applied \in BOOLEAN, reported \in BOOLEAN :
          /\ Statement(applied, reported)
          /\ UpdateRow(applied, [customer EXCEPT !.present = FALSE])
          /\ Reply(r, IF reported THEN "ok" ELSE "error")
    BY <1>11 DEF DeleteRow
  <2>2. CASE reported
    <3>1. ~customer'.present
      BY <2>1, <2>2 DEF Statement, UpdateRow, CustomerRow, TypeOK
    <3>2. Reply(r, "ok")
      BY <2>1, <2>2
    <3>3. pc'[r] = "idle"
      BY <3>2, ReplyStep
    <3>4. QED
      BY <3>1, <3>3 DEF AcknowledgedBy, Confirmed
  <2>3. CASE ~reported
    BY <1>5, <2>1, <2>3
  <2>4. QED
    BY <2>2, <2>3
<1>12. ASSUME NEW r \in Requests, RequestStore(r) PROVE AcknowledgedBy(r)'
  <2>1. \E answer \in {"ok", "error"} : Reply(r, answer)
    BY <1>12 DEF RequestStore
  <2>2. pc'[r] = "idle" /\ op' = op /\ op[r] = "RequestPasswordResetEmail"
    BY <1>12, <2>1, ReplyStep DEF RequestStore
  <2>3. QED
    BY <2>2 DEF AcknowledgedBy
<1>13. ASSUME NEW r \in Requests, ConfirmWrite(r) PROVE AcknowledgedBy(r)'
  <2>1. PICK applied \in BOOLEAN, reported \in BOOLEAN :
          /\ Statement(applied, reported)
          /\ UpdateRow(applied, [customer EXCEPT !.confirmation = FALSE])
          /\ IF reported THEN Goto(r, "reread") /\ UNCHANGED <<snap, stamp>>
             ELSE Reply(r, "error")
    BY <1>13 DEF ConfirmWrite
  <2>2. CASE reported
    <3>1. Confirmed'
      BY <2>1, <2>2 DEF Statement, UpdateRow, CustomerRow, TypeOK, Confirmed
    <3>2. /\ pc'[r] = "reread" /\ op'[r] = "ConfirmEmail"
      BY <1>13, <2>1, <2>2 DEF Goto, TypeOK, ConfirmWrite
    <3>3. QED
      BY <3>1, <3>2 DEF AcknowledgedBy
  <2>3. CASE ~reported
    BY <1>5, <2>1, <2>3
  <2>4. QED
    BY <2>2, <2>3
<1>14. ASSUME NEW r \in Requests,
             \/ IncrementLoginFailure(r) \/ GetLoginFailures(r)
             \/ SetLockExpires(r) \/ StampRevocation(r)
             \/ ChangeRead(r) \/ ChangeVerify(r) \/ ChangeWrite(r)
             \/ RequestCheck(r) \/ ResetCheck(r) \/ ResetWrite(r)
             \/ ConfirmCheck(r)
       PROVE  AcknowledgedBy(r)'
  BY <1>4, <1>5, <1>14
  DEF IncrementLoginFailure, GetLoginFailures, CountThenLock, SetLockExpires,
      StampRevocation, ChangeRead, ChangeVerify, ChangeWrite, RequestCheck,
      ResetCheck, ResetWrite, ConfirmCheck
<1>15. CASE Tick \/ UNCHANGED vars
  <2>1. pc' = pc /\ op' = op /\ result' = result
    BY <1>15 DEF Tick, locals, vars
  <2>2. QED
    BY <1>2, <2>1 DEF Acknowledgements
<1>16. ASSUME NEW r \in Requests,
             \/ Continue(r)
             \/ \E o \in Operations : LookupByEmail(r, o) \/ Authenticate(r, o)
       PROVE  Acknowledgements'
  <2>1. AcknowledgedBy(r)'
    BY <1>6, <1>7, <1>8, <1>9, <1>10, <1>11, <1>12, <1>13, <1>14, <1>16
    DEF Continue
  <2>2. QED
    BY <1>3, <1>16, <2>1, StepFrame
<1>17. QED
  BY <1>15, <1>16 DEF Next

\* A confirmation that was answered, or whose handler panicked after its
\* UPDATE, and a deletion that was answered are never undone, however many
\* handlers go on with rows they read before.
THEOREM AcknowledgedTheorem == Spec => []AcknowledgedHolds
<1>1. Init => Acknowledgements
  BY DEF Init, Acknowledgements, AcknowledgedBy
<1>2. Typed /\ Acknowledgements /\ [Next]_vars => Acknowledgements'
  BY AcknowledgedStep
<1>3. Acknowledgements => AcknowledgedHolds
  BY DEF Acknowledgements, AcknowledgedBy, AcknowledgedHolds, Confirmed
<1>4. QED
  BY <1>1, <1>2, <1>3, InitTyped, NextTyped, PTL DEF Spec
=============================================================================
