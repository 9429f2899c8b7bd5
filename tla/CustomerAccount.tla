-------------------------- MODULE CustomerAccount --------------------------
(***************************************************************************)
(* One customer account and the sessions opened on it, as the handlers of  *)
(* internal/service/customer.go and security.go change them.               *)
(*                                                                         *)
(* A request is a goroutine of the HTTP server.  Each SQL statement it     *)
(* runs is autocommitted (the code opens no transaction), so a statement   *)
(* is one action and any other request may run between two of them.  A     *)
(* request works on the row it read earlier (snap) and on timestamps it    *)
(* took earlier (stamp): both may be stale when they are used.             *)
(*                                                                         *)
(* One row is enough: every statement of these handlers names one          *)
(* entity_id, and no handler reads two customers.                          *)
(***************************************************************************)
EXTENDS Integers, FiniteSets

CONSTANTS
  Requests,        \* requests the server handles at the same time
  Operations,      \* the mutations the clients of this instance send
  Passwords,       \* passwords clients type and the row's hash stands for
  MaxFailures,     \* customer/password/lockout_failures
  LockoutTicks,    \* customer/password/lockout_threshold
  ExpiryTicks,     \* customer/password/reset_link_expiration_period
  ParseTime,       \* does the DSN set parseTime, as the tests' DSN does?
  MaxTime,         \* bound: the last value of the clock
  FailureBound,    \* bound: no wrong password is typed from this count on
  MaxResets,       \* bound: no reset is asked for once so many were mailed
  MaxFaults        \* bound: statements that return an error

EmailOperations ==      \* they find the row by email and need no session
  {"GenerateToken", "RequestPasswordResetEmail", "ResetPassword",
   "ConfirmEmail"}
SessionOperations ==    \* they take the customer id from a session
  {"RevokeToken", "ChangePassword", "DeleteCustomer"}

ASSUME OperationsAssumption ==
  Operations \subseteq EmailOperations \cup SessionOperations
ASSUME LockoutAssumption ==
  MaxFailures \in Nat \ {0} /\ LockoutTicks \in Nat /\ ExpiryTicks \in Nat
ASSUME ParseTimeAssumption == ParseTime \in BOOLEAN
ASSUME BoundAssumption ==
  /\ MaxTime \in Nat /\ FailureBound \in Nat
  /\ MaxResets \in Nat /\ MaxFaults \in Nat

VARIABLES
  customer,       \* the customer_entity row
  revokeBefore,   \* the customer's row of jwt_auth_revoked
  tokens,         \* issue times (iat) of the sessions handed out
  mailed,         \* reset tokens sent to the customer
  now,            \* the clock, in the seconds all timestamps are cut to
  faults,         \* statements that have returned an error
  op,             \* the mutation each request executes, or executed last
  pc,             \* the next step of each request
  snap,           \* the row as the request read it
  stamp,          \* a timestamp the request took for its next statement
  result,         \* what the request answered
  closed          \* history: see CloseRevocation

row      == <<customer, mailed>>
jwt      == <<revokeBefore, tokens, closed>>
locals   == <<op, pc, snap, stamp, result>>
vars     == <<customer, revokeBefore, tokens, mailed, now, faults,
              op, pc, snap, stamp, result, closed>>

Null  == -1                       \* SQL NULL, or "no record"
Times == 0..MaxTime
Max2(a, b) == IF a > b THEN a ELSE b

CustomerRow ==
  [present : BOOLEAN, active : BOOLEAN, password : Passwords,
   confirmation : BOOLEAN,        \* a confirmation key is pending
   failures : Nat, lock : Nat \cup {Null},
   rpToken : Nat, rpCreated : Times \cup {Null}]   \* rpToken 0 is NULL

NoRow == [present |-> FALSE]      \* snap of a request that holds no row

Labels ==
  {"idle", "check", "increment", "count", "lock", "unlock", "mint",
   "read", "verify", "write", "stamp", "revoke", "reread", "delete"}

Init ==
  /\ customer \in [present : {TRUE}, active : BOOLEAN, password : Passwords,
                   confirmation : BOOLEAN, failures : {0}, lock : {Null},
                   rpToken : {0}, rpCreated : {Null}]
  /\ revokeBefore = Null /\ tokens = {} /\ mailed = {} /\ closed = {}
  /\ now = 0 /\ faults = 0
  /\ op = [r \in Requests |-> "none"] /\ pc = [r \in Requests |-> "idle"]
  /\ snap = [r \in Requests |-> NoRow]
  /\ stamp = [r \in Requests |-> Null]
  /\ result = [r \in Requests |-> "none"]

----------------------------------------------------------------------------
(* The database and the session check.                                     *)

\* A statement is applied and reported so; or it fails; or it is applied and
\* the connection breaks before the answer arrives.
Statement(applied, reported) ==
  /\ reported => applied
  /\ reported \/ faults < MaxFaults
  /\ faults' = IF reported THEN faults ELSE faults + 1

\* UPDATE customer_entity SET ... WHERE entity_id = ?: no row, no change.
UpdateRow(applied, new) ==
  customer' = IF applied /\ customer.present THEN new ELSE customer

\* The session middleware (go-common): a token is accepted when it was
\* issued after revoke_before.
Accepted(iat) == iat > revokeBefore

\* lock_expires compared with the clock.  With parseTime the driver hands
\* the column over as RFC 3339, time.Parse fails, and nobody is locked.
Locked(data) == ~ParseTime /\ data.lock # Null /\ now < data.lock

\* rp_token_created_at compared with the clock; the same parse applies.
LinkExpired(data) ==
  ~ParseTime /\ data.rpCreated # Null /\ now - data.rpCreated > ExpiryTicks

(* How a request goes on.                                                  *)

Goto(r, label) ==
  pc' = [pc EXCEPT ![r] = label] /\ UNCHANGED <<op, result>>

Reply(r, answer) ==
  /\ pc' = [pc EXCEPT ![r] = "idle"]
  /\ result' = [result EXCEPT ![r] = answer]
  /\ snap' = [snap EXCEPT ![r] = NoRow]
  /\ stamp' = [stamp EXCEPT ![r] = Null]
  /\ UNCHANGED op

\* The answer of an operation whose email belongs to no row.
UnknownEmail(o) == IF o = "RequestPasswordResetEmail" THEN "ok" ELSE "error"

\* GetByEmail, the first statement of the operations that need no session.
LookupByEmail(r, o) ==
  /\ pc[r] = "idle" /\ o \in Operations \cap EmailOperations
  /\ o = "RequestPasswordResetEmail" => Cardinality(mailed) < MaxResets
  /\ op' = [op EXCEPT ![r] = o]
  /\ \E ok \in BOOLEAN :
       /\ Statement(ok, ok)
       /\ IF ok /\ customer.present
          THEN /\ pc' = [pc EXCEPT ![r] = "check"]
               /\ snap' = [snap EXCEPT ![r] = customer]
               /\ result' = [result EXCEPT ![r] = "none"]
          ELSE /\ result' = [result EXCEPT ![r] = UnknownEmail(o)]
               /\ UNCHANGED <<pc, snap>>
  /\ UNCHANGED <<row, jwt, now, stamp>>

\* The middleware lets a session through; the handler finds its customer id.
Authenticate(r, o) ==
  /\ pc[r] = "idle" /\ o \in Operations \cap SessionOperations
  /\ \E iat \in tokens : Accepted(iat)
  /\ op' = [op EXCEPT ![r] = o]
  /\ pc' = [pc EXCEPT ![r] = IF o = "ChangePassword" THEN "read" ELSE "stamp"]
  /\ result' = [result EXCEPT ![r] = "none"]
  /\ UNCHANGED <<row, jwt, now, faults, snap, stamp>>

----------------------------------------------------------------------------
(* GenerateToken.                                                          *)

\* Mutant: the lock is not looked at.
LoginCheckIgnoringLock(r) ==
  /\ pc[r] = "check" /\ op[r] = "GenerateToken"
  /\ IF ~snap[r].active \/ snap[r].confirmation
     THEN Reply(r, "error")
     ELSE /\ \E typed \in Passwords :
               IF typed = snap[r].password THEN Goto(r, "unlock")
               ELSE snap[r].failures < FailureBound /\ Goto(r, "increment")
          /\ UNCHANGED <<snap, stamp>>
  /\ UNCHANGED <<row, jwt, now, faults>>

\* The checks on the row that was read, and the password typed.
LoginCheck(r) ==
  /\ pc[r] = "check" /\ op[r] = "GenerateToken"
  /\ IF ~snap[r].active \/ Locked(snap[r]) \/ snap[r].confirmation
     THEN Reply(r, "error")
     ELSE /\ \E typed \in Passwords :
               IF typed = snap[r].password THEN Goto(r, "unlock")
               ELSE snap[r].failures < FailureBound /\ Goto(r, "increment")
          /\ UNCHANGED <<snap, stamp>>
  /\ UNCHANGED <<row, jwt, now, faults>>

\* failures_num = failures_num + 1 in one statement; its error is dropped.
IncrementLoginFailure(r) ==
  /\ pc[r] = "increment"
  /\ \E applied, reported \in BOOLEAN :
       /\ Statement(applied, reported)
       /\ UpdateRow(applied, [customer EXCEPT !.failures = @ + 1])
  /\ Goto(r, "count")
  /\ UNCHANGED <<mailed, jwt, now, snap, stamp>>

\* The counter read back (0 when there is no row or on an error), and the
\* end of the lock computed from the clock when the counter is full.
CountThenLock(r, full) ==
  /\ pc[r] = "count"
  /\ \E ok \in BOOLEAN :
       /\ Statement(ok, ok)
       /\ IF ok /\ customer.present /\ full
          THEN /\ Goto(r, "lock")
               /\ stamp' = [stamp EXCEPT ![r] = now + LockoutTicks]
               /\ UNCHANGED snap
          ELSE Reply(r, "error")
  /\ UNCHANGED <<row, jwt, now>>

\* Mutant: the counter of the row read at the start is used again.
CountFromSnapshot(r) == CountThenLock(r, snap[r].failures + 1 >= MaxFailures)

\* Mutant: one failure too many is allowed.
CountPastThreshold(r) == CountThenLock(r, customer.failures > MaxFailures)

\* The counter itself, as it stands now, is compared with the threshold.
GetLoginFailures(r) == CountThenLock(r, customer.failures >= MaxFailures)

SetLockExpires(r) ==
  /\ pc[r] = "lock"
  /\ \E applied, reported \in BOOLEAN :
       /\ Statement(applied, reported)
       /\ UpdateRow(applied, [customer EXCEPT !.lock = stamp[r]])
  /\ Reply(r, "error")
  /\ UNCHANGED <<mailed, jwt, now>>

\* Mutant: the counter is cleared to something that is not a count.
ResetToNull(r) ==
  /\ pc[r] = "unlock"
  /\ UpdateRow(TRUE, [customer EXCEPT !.failures = Null, !.lock = Null])
  /\ Goto(r, "mint")
  /\ UNCHANGED <<mailed, jwt, now, faults, snap, stamp>>

\* Counter and lock cleared in one statement; its error is dropped.
ResetLoginFailures(r) ==
  /\ pc[r] = "unlock"
  /\ \E applied, reported \in BOOLEAN :
       /\ Statement(applied, reported)
       /\ UpdateRow(applied, [customer EXCEPT !.failures = 0, !.lock = Null])
  /\ Goto(r, "mint")
  /\ UNCHANGED <<mailed, jwt, now, snap, stamp>>

\* jwtManager.Create: the token carries the second it is signed in.  It
\* fails when no signing key is configured.
CreateToken(r) ==
  /\ pc[r] = "mint"
  /\ \E ok \in BOOLEAN :
       /\ Statement(ok, ok)
       /\ tokens' = IF ok THEN tokens \cup {now} ELSE tokens
       /\ Reply(r, IF ok THEN "ok" ELSE "error")
  /\ UNCHANGED <<row, revokeBefore, closed, now>>

----------------------------------------------------------------------------
(* RevokeAllForCustomer, called by four operations.                        *)

\* time.Now().Unix() is an argument of Exec: taken before the statement runs.
StampRevocation(r) ==
  /\ pc[r] = "stamp"
  /\ stamp' = [stamp EXCEPT ![r] = now]
  /\ Goto(r, "revoke")
  /\ UNCHANGED <<row, jwt, now, faults, snap>>

\* History: t is closed once a revocation stamped t or later is applied while
\* every revocation still in flight is stamped t or later too.
CloseRevocation(r) ==
  closed' = closed \cup
    {t \in 0..stamp[r] :
       \A q \in Requests : pc[q] = "revoke" => stamp[q] >= t}

\* What the caller does with the error RevokeAllForCustomer returns: only
\* RevokeToken looks at it.
AfterRevocation(r, reported) ==
  CASE op[r] = "RevokeToken" -> Reply(r, IF reported THEN "ok" ELSE "error")
    [] op[r] = "ResetPassword" -> Reply(r, "ok")
    [] op[r] = "ChangePassword" -> Goto(r, "reread") /\ UNCHANGED <<snap, stamp>>
    [] op[r] = "DeleteCustomer" -> Goto(r, "delete") /\ UNCHANGED <<snap, stamp>>

\* Mutant: INSERT IGNORE, an existing record is kept.
RevokeOnce(r) ==
  /\ pc[r] = "revoke"
  /\ revokeBefore' = IF revokeBefore = Null THEN stamp[r] ELSE revokeBefore
  /\ CloseRevocation(r)
  /\ AfterRevocation(r, TRUE)
  /\ UNCHANGED <<row, tokens, now, faults>>

\* INSERT ... ON DUPLICATE KEY UPDATE revoke_before = VALUES(revoke_before).
RevokeAllForCustomer(r) ==
  /\ pc[r] = "revoke"
  /\ \E applied, reported \in BOOLEAN :
       /\ Statement(applied, reported)
       /\ IF applied THEN revokeBefore' = stamp[r] /\ CloseRevocation(r)
          ELSE UNCHANGED <<revokeBefore, closed>>
       /\ AfterRevocation(r, reported)
  /\ UNCHANGED <<row, tokens, now>>

----------------------------------------------------------------------------
(* ChangePassword.                                                         *)

ChangeRead(r) ==
  /\ pc[r] = "read"
  /\ \E ok \in BOOLEAN :
       /\ Statement(ok, ok)
       /\ IF ok /\ customer.present
          THEN /\ Goto(r, "verify")
               /\ snap' = [snap EXCEPT ![r] = customer]
               /\ UNCHANGED stamp
          ELSE Reply(r, "error")
  /\ UNCHANGED <<row, jwt, now>>

\* The current password is compared with the row that was read; the new one
\* passes validatePassword or not.
ChangeVerify(r) ==
  /\ pc[r] = "verify"
  /\ \E typed \in Passwords, valid \in BOOLEAN :
       IF typed = snap[r].password /\ valid
       THEN Goto(r, "write") /\ UNCHANGED <<snap, stamp>>
       ELSE Reply(r, "error")
  /\ UNCHANGED <<row, jwt, now, faults>>

ChangeWrite(r) ==
  /\ pc[r] = "write" /\ op[r] = "ChangePassword"
  /\ \E new \in Passwords, applied, reported \in BOOLEAN :
       /\ Statement(applied, reported)
       /\ UpdateRow(applied, [customer EXCEPT !.password = new])
       /\ IF reported THEN Goto(r, "stamp") /\ UNCHANGED <<snap, stamp>>
          ELSE Reply(r, "error")
  /\ UNCHANGED <<mailed, jwt, now>>

\* The row read back for the answer.  ConfirmEmail drops the error and maps
\* a nil row: the handler panics and the server recovers it.
ReRead(r) ==
  /\ pc[r] = "reread"
  /\ \E ok \in BOOLEAN :
       /\ Statement(ok, ok)
       /\ Reply(r, IF ok /\ customer.present THEN "ok"
                   ELSE IF op[r] = "ConfirmEmail" THEN "panic" ELSE "error")
  /\ UNCHANGED <<row, jwt, now>>

----------------------------------------------------------------------------
(* DeleteCustomer, after the revocation.                                   *)

DeleteRow(r) ==
  /\ pc[r] = "delete"
  /\ \E applied, reported \in BOOLEAN :
       /\ Statement(applied, reported)
       /\ UpdateRow(applied, [customer EXCEPT !.present = FALSE])
       /\ Reply(r, IF reported THEN "ok" ELSE "error")
  /\ UNCHANGED <<mailed, jwt, now>>

----------------------------------------------------------------------------
(* RequestPasswordResetEmail and ResetPassword.                            *)

RequestCheck(r) ==
  /\ pc[r] = "check" /\ op[r] = "RequestPasswordResetEmail"
  /\ IF Locked(snap[r]) THEN Reply(r, "error")
     ELSE /\ Goto(r, "write")
          /\ stamp' = [stamp EXCEPT ![r] = now]
          /\ UNCHANGED snap
  /\ UNCHANGED <<row, jwt, now, faults>>

\* A fresh token replaces the stored one and is mailed unless the statement
\* failed.  Tokens are random: the next number stands for one never mailed.
RequestStore(r) ==
  /\ pc[r] = "write" /\ op[r] = "RequestPasswordResetEmail"
  /\ LET fresh == Cardinality(mailed) + 1 IN
     \E applied, reported \in BOOLEAN :
       /\ Statement(applied, reported)
       /\ UpdateRow(applied, [customer EXCEPT !.rpToken = fresh,
                                              !.rpCreated = stamp[r]])
       /\ mailed' = IF reported THEN mailed \cup {fresh} ELSE mailed
       /\ Reply(r, IF reported THEN "ok" ELSE "error")
  /\ UNCHANGED <<jwt, now>>

\* The token of the link, the age of the link, the new password: all checked
\* against the row that was read.
ResetCheck(r) ==
  /\ pc[r] = "check" /\ op[r] = "ResetPassword"
  /\ \E sent \in mailed \cup {0}, valid \in BOOLEAN :
       IF \/ Locked(snap[r]) \/ LinkExpired(snap[r]) \/ ~valid
          \/ sent = 0 \/ sent # snap[r].rpToken
       THEN Reply(r, "error")
       ELSE Goto(r, "write") /\ UNCHANGED <<snap, stamp>>
  /\ UNCHANGED <<row, jwt, now, faults>>

\* Mutant: the row read earlier is written back whole.
ResetWriteBack(r) ==
  /\ pc[r] = "write" /\ op[r] = "ResetPassword"
  /\ \E new \in Passwords :
       UpdateRow(TRUE, [snap[r] EXCEPT !.password = new,
                                       !.rpToken = 0, !.rpCreated = Null])
  /\ Goto(r, "stamp")
  /\ UNCHANGED <<mailed, jwt, now, faults, snap, stamp>>

\* Password set and token cleared in one statement.
ResetWrite(r) ==
  /\ pc[r] = "write" /\ op[r] = "ResetPassword"
  /\ \E new \in Passwords, applied, reported \in BOOLEAN :
       /\ Statement(applied, reported)
       /\ UpdateRow(applied, [customer EXCEPT !.password = new,
                              !.rpToken = 0, !.rpCreated = Null])
       /\ IF reported THEN Goto(r, "stamp") /\ UNCHANGED <<snap, stamp>>
          ELSE Reply(r, "error")
  /\ UNCHANGED <<mailed, jwt, now>>

----------------------------------------------------------------------------
(* ConfirmEmail.                                                           *)

ConfirmCheck(r) ==
  /\ pc[r] = "check" /\ op[r] = "ConfirmEmail"
  /\ \E right \in BOOLEAN :
       IF snap[r].confirmation /\ right
       THEN Goto(r, "write") /\ UNCHANGED <<snap, stamp>>
       ELSE Reply(r, "error")
  /\ UNCHANGED <<row, jwt, now, faults>>

\* Mutant: the row read earlier is written back whole.
ConfirmWriteBack(r) ==
  /\ pc[r] = "write" /\ op[r] = "ConfirmEmail"
  /\ UpdateRow(TRUE, [snap[r] EXCEPT !.confirmation = FALSE])
  /\ Goto(r, "reread")
  /\ UNCHANGED <<mailed, jwt, now, faults, snap, stamp>>

ConfirmWrite(r) ==
  /\ pc[r] = "write" /\ op[r] = "ConfirmEmail"
  /\ \E applied, reported \in BOOLEAN :
       /\ Statement(applied, reported)
       /\ UpdateRow(applied, [customer EXCEPT !.confirmation = FALSE])
       /\ IF reported THEN Goto(r, "reread") /\ UNCHANGED <<snap, stamp>>
          ELSE Reply(r, "error")
  /\ UNCHANGED <<mailed, jwt, now>>

----------------------------------------------------------------------------

Tick ==
  /\ now < MaxTime
  /\ now' = now + 1
  /\ UNCHANGED <<row, jwt, faults, locals>>

\* Every step a handler takes once its request is admitted.
Continue(r) ==
  \/ LoginCheck(r) \/ IncrementLoginFailure(r) \/ GetLoginFailures(r)
  \/ SetLockExpires(r) \/ ResetLoginFailures(r) \/ CreateToken(r)
  \/ StampRevocation(r) \/ RevokeAllForCustomer(r)
  \/ ChangeRead(r) \/ ChangeVerify(r) \/ ChangeWrite(r) \/ ReRead(r)
  \/ DeleteRow(r)
  \/ RequestCheck(r) \/ RequestStore(r) \/ ResetCheck(r) \/ ResetWrite(r)
  \/ ConfirmCheck(r) \/ ConfirmWrite(r)

Next ==
  \/ Tick
  \/ \E r \in Requests :
       \/ \E o \in Operations : LookupByEmail(r, o) \/ Authenticate(r, o)
       \/ Continue(r)

Spec == Init /\ [][Next]_vars

\* A handler never waits for another one: net/http schedules its goroutine
\* and the driver answers or reports an error, so an admitted request goes on.
FairSpec == Spec /\ \A r \in Requests : WF_vars(Continue(r))
----------------------------------------------------------------------------
(* Correctness.                                                            *)

\* Reset tokens are numbered in the order they are mailed.
NumberedFromOne(S) == IsFiniteSet(S) /\ S = 1..Cardinality(S)

\* The variables keep their types, and reset links are numbered as they are mailed.
TypeOK ==
  /\ customer \in CustomerRow
  /\ revokeBefore \in Times \cup {Null}
  /\ tokens \subseteq Times /\ closed \subseteq Times
  /\ NumberedFromOne(mailed)
  /\ now \in Times /\ faults \in 0..MaxFaults
  /\ op \in [Requests -> Operations \cup {"none"}]
  /\ pc \in [Requests -> Labels]
  /\ snap \in [Requests -> CustomerRow \cup {NoRow}]
  /\ stamp \in [Requests -> Nat \cup {Null}]
  /\ result \in [Requests -> {"none", "ok", "error", "panic"}]

\* The account reaches the threshold without a lock only while a failed login
\* still has to read the counter or to write the lock: concurrent failures,
\* and a successful login that clears the counter between them, never leave
\* a full counter that nobody acts on (recordLoginFailure).
ThresholdLocks ==
  (/\ faults = 0 /\ customer.present
   /\ customer.failures >= MaxFailures /\ customer.lock = Null)
    => \E r \in Requests : pc[r] \in {"count", "lock"}

\* The lock of the row holds against the clock.
LockInForce == customer.lock # Null /\ now < customer.lock

\* A password typed while a lock is in force takes effect (a failure counted,
\* the lock cleared, a session handed out) only in a login that read the row
\* before that lock was written (checkAccountLockout works on the row read).
LockHonoured ==
  LockInForce =>
    \A r \in Requests :
      pc[r] \in {"increment", "unlock", "mint"}
        => snap[r].lock # customer.lock

\* However the logins interleave, the first lock stops the counter at the
\* threshold plus one more guess for every other login that was already past
\* the lock check (GenerateToken checks the lock, then hashes, then counts).
GuessBurst ==
  (faults = 0 /\ now < LockoutTicks)
    => customer.failures <= MaxFailures - 1 + Cardinality(Requests)

\* A revocation holds for good, whatever revocations follow it, for sessions
\* no younger than every revocation that was in flight when it was written
\* (RevokeAllForCustomer overwrites revoke_before without comparing).
ClosedStaysRevoked == \A iat \in tokens \cap closed : ~Accepted(iat)

\* What a client was told, or could not be told because the handler panicked
\* after its UPDATE, is never undone by a handler that goes on with a row it
\* read before: a confirmed account stays confirmed through resets that read
\* the pending key, and a deleted one does not come back.
AcknowledgedHolds ==
  \A r \in Requests :
    /\ (op[r] = "ConfirmEmail" /\ result[r] \in {"ok", "panic"})
         => ~customer.present \/ ~customer.confirmation
    /\ (op[r] = "DeleteCustomer" /\ result[r] = "ok") => ~customer.present

\* A mailed link that was used or replaced never works again, although other
\* handlers go on writing the row from reads made while it still did: Update
\* sets the columns it is given and never writes a whole row back.
DeadLinkStaysDead ==
  [][\A link \in mailed : customer.rpToken # link => customer'.rpToken # link]_vars

\* A full counter does not stay without a lock: the login that filled it, or
\* another one, writes the lock, or a successful login empties the counter.
ThresholdEventuallyLocks ==
  (/\ faults = 0 /\ customer.present
   /\ customer.failures >= MaxFailures /\ customer.lock = Null)
    ~> (customer.failures < MaxFailures \/ customer.lock # Null)

(* What the documentation says and the code does not keep.                 *)

\* token.go: a revocation record invalidates all tokens issued before now,
\* so a session once revoked is never accepted again.
RevokedStaysRevoked ==
  [][\A iat \in tokens : ~Accepted(iat) => ~Accepted(iat)']_vars
=============================================================================
