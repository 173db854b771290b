------------------------------ MODULE Accounts ------------------------------
(***************************************************************************)
(* The account service of server/auth: Register, LoginByCredentials,       *)
(* LoginByToken, ScheduleAccountDeletion, CancelAccountDeletion and the    *)
(* deletion worker.  Every request runs in a goroutine of its own, so      *)
(* requests and the worker interleave between any two statements sent to   *)
(* PostgreSQL or Redis: one action per statement, each with the local      *)
(* computation that follows it.  A statement may fail without effect, or   *)
(* take effect while its answer is lost; the server may crash and restart. *)
(***************************************************************************)
EXTENDS Database

CONSTANTS
  Calls,         \* slots for concurrent requests
  Usernames,     \* names that are valid once trimmed and lower-cased
  Passwords,     \* passwords that are not blank
  Devices,       \* device ids that are not blank
  Malformed,     \* stands for a name ValidUsername refuses
  Blank,         \* stands for a string of white space only
  Forged,        \* stands for a session token the server never generated
  Forms,         \* spellings of one string that differ in case or padding
  Ops,           \* the operations clients call
  Delay,         \* AccountDeletionDelay, in ticks
  ClaimLimit,    \* the limit processDueAccountDeletions gives ClaimDue
  RequestSpan,   \* ticks a request may take from its first step to its last
  MaxUsers,      \* bound on accounts ever created
  MaxTokens,     \* bound on session tokens ever generated
  MaxTime,       \* bound on the clock
  MaxFaults,     \* bound on failed statements and lost answers
  MaxCrashes     \* bound on crashes of the server process

\* A request is over in far less than the 30 days an account waits.
ASSUME DelayAssumption == Delay \in Nat /\ RequestSpan \in Nat /\ RequestSpan < Delay

ASSUME LimitAssumption == ClaimLimit \in Nat \ {0}

\* Room counts calls and accounts.
ASSUME BoundsAssumption == IsFiniteSet(Calls) /\ MaxUsers \in Nat

ASSUME NamesAssumption == Malformed \notin Usernames /\ Blank \notin Usernames

VARIABLES
  pc,         \* call -> the statement it is about to issue, "idle" or "done"
  call,       \* call -> its arguments and local variables
  result,     \* call -> what it returned, once "done"
  delivered,  \* session tokens some call has returned to its client
  claimed,    \* worker: ids in processDueAccountDeletions' claimed slice
  uncaching,  \* worker: the name removeUsernameFromCache is about to remove
  faults,     \* failed statements and lost answers so far
  crashes     \* crashes so far

callVars == <<pc, call, result, delivered>>
workerVars == <<claimed, uncaching>>
faultVars == <<faults, crashes>>
vars == <<dbVars, callVars, workerVars, faultVars>>

Operations == {"Register", "LoginByCredentials", "LoginByToken",
               "ScheduleAccountDeletion", "CancelAccountDeletion"}

Statements == {"UsernameExists", "IsUsernameAvailable", "CreateUser", "SetUsername",
               "UpsertActiveToken", "GetUserByUsername", "ExistsActiveByUserID",
               "GetActiveByTokenHash", "RotateToken", "Upsert", "CancelDelete",
               "CancelCheck"}

NoCall == [op |-> "none", username |-> Blank, password |-> Blank, device |-> Blank,
           token |-> Blank, at |-> 0, user |-> 0, tokenID |-> 0, deleteAt |-> 0]

\* user, device and token of an AuthResult, deleteAt of a scheduled deletion.
Failure(op, err) == [op |-> op, err |-> err, user |-> 0, device |-> Blank,
                     token |-> 0, deleteAt |-> 0]

Success(op) == Failure(op, "OK")

NoResult == Failure("none", "OK")

Init ==
  /\ InitDatabase
  /\ pc = [c \in Calls |-> "idle"]
  /\ call = [c \in Calls |-> NoCall]
  /\ result = [c \in Calls |-> NoResult]
  /\ delivered = {}
  /\ claimed = {}
  /\ uncaching = Blank
  /\ faults = 0
  /\ crashes = 0

Busy(c) == pc[c] \notin {"idle", "done"}

-----------------------------------------------------------------------------
(* Strings.  A string is [text, form]; text says which string it is once   *)
(* trimmed (and lower-cased, for a name), form which of its spellings.     *)

Spelled(S) == [text : S, form : Forms]

TrimSpace(s) == s.text

NormalizeUsername(s) == s.text

ValidUsername(username) == username \in Usernames

-----------------------------------------------------------------------------
(* How a call moves on or ends. *)

Goto(c, statement) ==
  /\ pc' = [pc EXCEPT ![c] = statement]
  /\ UNCHANGED <<call, result, delivered>>

GotoWith(c, statement, locals) ==
  /\ pc' = [pc EXCEPT ![c] = statement]
  /\ call' = [call EXCEPT ![c] = locals]
  /\ UNCHANGED <<result, delivered>>

Return(c, res) ==
  /\ pc' = [pc EXCEPT ![c] = "done"]
  /\ call' = [call EXCEPT ![c] = NoCall]
  /\ result' = [result EXCEPT ![c] = res]
  /\ delivered' = IF res.token = 0 THEN delivered ELSE delivered \cup {res.token}

Fail(c, err) == Return(c, Failure(call[c].op, err))

\* The statement before it took effect, but the driver reports an error.
LostAnswer(c) ==
  /\ faults < MaxFaults
  /\ faults' = faults + 1
  /\ Fail(c, "ErrInternal")

Answered == UNCHANGED faults

-----------------------------------------------------------------------------
(* The first, local part of each operation: its arguments are trimmed and  *)
(* checked, and it either returns at once or goes on to a statement.       *)

\* Mutant: the name is not validated.
RegisterAnyName(a) ==
  IF a.password = Blank THEN "ErrPasswordRequired"
  ELSE IF a.device = Blank THEN "ErrDeviceIDRequired"
  ELSE "OK"

RegisterRefusal(a) ==
  IF ~ValidUsername(a.username) THEN "ErrInvalidUsername"
  ELSE IF a.password = Blank THEN "ErrPasswordRequired"
  ELSE IF a.device = Blank THEN "ErrDeviceIDRequired"
  ELSE "OK"

LoginRefusal(a) ==
  IF ~ValidUsername(a.username) \/ a.password = Blank THEN "ErrInvalidCredentials"
  ELSE IF a.device = Blank THEN "ErrDeviceIDRequired"
  ELSE "OK"

TokenRefusal(a) == IF a.token = Blank THEN "ErrSessionTokenNeeded" ELSE "OK"

DeleteRefusal(a) ==
  IF ~ValidUsername(a.username) \/ a.password = Blank THEN "ErrInvalidCredentials"
  ELSE "OK"

Mints(op) == op \in {"Register", "LoginByCredentials", "LoginByToken"}

\* Bounds: the calls under way count as if they had already created their
\* account and generated their token, and a deletion scheduled now falls due
\* before the clock stops.
Room(op) ==
  /\ op = "Register" =>
       nextUserID + Cardinality({c \in Calls : call[c].op = "Register" /\ call[c].user = 0})
         <= MaxUsers
  /\ Mints(op) =>
       nextToken + Cardinality({c \in Calls : Mints(call[c].op)}) <= MaxTokens
  /\ op = "ScheduleAccountDeletion" => now + RequestSpan + Delay <= MaxTime

Begin(c, args, refusal, statement) ==
  /\ pc[c] = "idle"
  /\ args.op \in Ops
  /\ \/ /\ refusal # "OK"
        /\ Return(c, Failure(args.op, refusal))
     \/ /\ refusal = "OK"
        /\ Room(args.op)
        /\ GotoWith(c, statement, args)
  /\ UNCHANGED <<dbVars, workerVars, faultVars>>

RawUsernames == Spelled(Usernames \cup {Malformed})
RawPasswords == Passwords \cup {Blank}
RawDevices == Spelled(Devices \cup {Blank})

Args(op, username, password, device, token) ==
  [op |-> op, username |-> username, password |-> password, device |-> device,
   token |-> token, at |-> now, user |-> 0, tokenID |-> 0, deleteAt |-> 0]

Register(c) ==
  \E name \in RawUsernames, password \in RawPasswords, device \in RawDevices :
    LET a == Args("Register", NormalizeUsername(name), password, TrimSpace(device), Blank)
    IN Begin(c, a, RegisterRefusal(a), "UsernameExists")

LoginByCredentials(c) ==
  \E name \in RawUsernames, password \in RawPasswords, device \in RawDevices :
    LET a == Args("LoginByCredentials", NormalizeUsername(name), password,
                  TrimSpace(device), Blank)
    IN Begin(c, a, LoginRefusal(a), "GetUserByUsername")

LoginByToken(c) ==
  \E token \in Spelled(delivered \cup {Forged, Blank}) :
    LET a == Args("LoginByToken", Blank, Blank, Blank, TrimSpace(token))
    IN Begin(c, a, TokenRefusal(a), "GetActiveByTokenHash")

ScheduleAccountDeletion(c) ==
  \E name \in RawUsernames, password \in RawPasswords :
    LET a == Args("ScheduleAccountDeletion", NormalizeUsername(name), password, Blank, Blank)
    IN Begin(c, a, DeleteRefusal(a), "GetUserByUsername")

CancelAccountDeletion(c) ==
  \E name \in RawUsernames, password \in RawPasswords :
    LET a == Args("CancelAccountDeletion", NormalizeUsername(name), password, Blank, Blank)
    IN Begin(c, a, DeleteRefusal(a), "GetUserByUsername")

\* The caller has taken the result; the slot is free for another request.
Collect(c) ==
  /\ pc[c] = "done"
  /\ pc' = [pc EXCEPT ![c] = "idle"]
  /\ result' = [result EXCEPT ![c] = NoResult]
  /\ UNCHANGED <<dbVars, call, delivered, workerVars, faultVars>>

-----------------------------------------------------------------------------
(* Register, statement by statement. *)

UsernameExists(c) ==
  /\ pc[c] = "UsernameExists"
  /\ IF call[c].username \in usernames
     THEN Fail(c, "ErrUsernameTaken")
     ELSE Goto(c, "IsUsernameAvailable")
  /\ UNCHANGED <<dbVars, workerVars, faultVars>>

CheckUsernameAvailable(c) ==
  /\ pc[c] = "IsUsernameAvailable"
  /\ IF IsUsernameAvailable(call[c].username)
     THEN Goto(c, "CreateUser")
     ELSE Fail(c, "ErrUsernameTaken")
  /\ UNCHANGED <<dbVars, workerVars, faultVars>>

RegisterCreateUser(c) ==
  /\ pc[c] = "CreateUser"
  /\ \/ /\ CreateUser(call[c].username, hashPassword(call[c].password))
        /\ \/ /\ Answered
              /\ GotoWith(c, "SetUsername", [call[c] EXCEPT !.user = nextUserID])
           \/ LostAnswer(c)
     \/ /\ ~IsUsernameAvailable(call[c].username)
        /\ Fail(c, "ErrUsernameTaken")
        /\ UNCHANGED <<users, nextUserID, faults>>
  /\ UNCHANGED <<userTokens, pendingDeletions, usernames, nextToken, now, workerVars, crashes>>

\* A failure to fill the cache is ignored.
SetUsername(c) ==
  /\ pc[c] = "SetUsername"
  /\ \/ usernames' = usernames \cup {call[c].username} /\ Answered
     \/ usernames' = usernames /\ faults < MaxFaults /\ faults' = faults + 1
  /\ Goto(c, "UpsertActiveToken")
  /\ UNCHANGED <<tables, nextUserID, nextToken, now, workerVars, crashes>>

-----------------------------------------------------------------------------
(* The end of Register and of LoginByCredentials: a fresh session token is *)
(* generated and stored for the device.  The foreign key refuses it when   *)
(* the account has gone in the meantime.                                   *)

IssueToken(c) ==
  /\ pc[c] = "UpsertActiveToken"
  /\ \/ /\ UpsertActiveToken(call[c].user, call[c].device, nextToken)
        /\ \/ /\ Answered
              /\ Return(c, [Success(call[c].op) EXCEPT !.user = call[c].user,
                              !.device = call[c].device, !.token = nextToken])
           \/ LostAnswer(c)
     \/ /\ call[c].user \notin UserIDs
        /\ Fail(c, "ErrInternal")
        /\ UNCHANGED <<userTokens, faults>>
  /\ nextToken' = nextToken + 1
  /\ UNCHANGED <<users, pendingDeletions, usernames, nextUserID, now, workerVars, crashes>>

-----------------------------------------------------------------------------
(* LoginByCredentials, ScheduleAccountDeletion and CancelAccountDeletion   *)
(* begin with the same query and password check.  deleteAt is computed     *)
(* from the clock before the row is written.                               *)

AfterVerify(op) ==
  CASE op = "LoginByCredentials" -> "ExistsActiveByUserID"
    [] op = "ScheduleAccountDeletion" -> "Upsert"
    [] OTHER -> "CancelDelete"

VerifyCredentials(c) ==
  /\ pc[c] = "GetUserByUsername"
  /\ LET found == {u \in GetUserByUsername(call[c].username) :
                     verifyPassword(call[c].password, u.passwordHash)}
     IN \/ \E u \in found :
             GotoWith(c, AfterVerify(call[c].op),
                      [call[c] EXCEPT !.user = u.id,
                         !.deleteAt = IF call[c].op = "ScheduleAccountDeletion"
                                      THEN now + Delay ELSE 0])
        \/ found = {} /\ Fail(c, "ErrInvalidCredentials")
  /\ UNCHANGED <<dbVars, workerVars, faultVars>>

\* rejectIfPendingDeletion, in both logins.
RejectIfPendingDeletion(c) ==
  /\ pc[c] = "ExistsActiveByUserID"
  /\ IF ExistsActiveByUserID(call[c].user)
     THEN Fail(c, "ErrAccountPendingDeletion")
     ELSE Goto(c, IF call[c].op = "LoginByToken" THEN "RotateToken" ELSE "UpsertActiveToken")
  /\ UNCHANGED <<dbVars, workerVars, faultVars>>

-----------------------------------------------------------------------------
(* LoginByToken. *)

\* Mutant: LoginByToken without rejectIfPendingDeletion.
FindTokenUnchecked(c) ==
  /\ pc[c] = "GetActiveByTokenHash"
  /\ LET found == GetActiveByTokenHash(hashToken(call[c].token))
     IN \/ \E t \in found :
             GotoWith(c, "RotateToken",
                      [call[c] EXCEPT !.user = t.user, !.device = t.device, !.tokenID = t.id])
        \/ found = {} /\ Fail(c, "ErrInvalidToken")
  /\ UNCHANGED <<dbVars, workerVars, faultVars>>

FindToken(c) ==
  /\ pc[c] = "GetActiveByTokenHash"
  /\ LET found == GetActiveByTokenHash(hashToken(call[c].token))
     IN \/ \E t \in found :
             GotoWith(c, "ExistsActiveByUserID",
                      [call[c] EXCEPT !.user = t.user, !.device = t.device, !.tokenID = t.id])
        \/ found = {} /\ Fail(c, "ErrInvalidToken")
  /\ UNCHANGED <<dbVars, workerVars, faultVars>>

\* The reply names the user and device read by FindToken.
Rotate(c) ==
  /\ pc[c] = "RotateToken"
  /\ RotateToken(call[c].tokenID, nextToken)
  /\ nextToken' = nextToken + 1
  /\ IF \E t \in userTokens : t.id = call[c].tokenID
     THEN \/ /\ Answered
             /\ Return(c, [Success(call[c].op) EXCEPT !.user = call[c].user,
                             !.device = call[c].device, !.token = nextToken])
          \/ LostAnswer(c)
     ELSE Fail(c, "ErrInvalidToken") /\ Answered
  /\ UNCHANGED <<users, pendingDeletions, usernames, nextUserID, now, workerVars, crashes>>

-----------------------------------------------------------------------------
(* ScheduleAccountDeletion and CancelAccountDeletion. *)

UpsertDeletion(c) ==
  /\ pc[c] = "Upsert"
  /\ \/ /\ Upsert(call[c].user, call[c].deleteAt)
        /\ \/ /\ Answered
              /\ Return(c, [Success(call[c].op) EXCEPT !.user = call[c].user,
                              !.deleteAt = call[c].deleteAt])
           \/ LostAnswer(c)
     \/ /\ call[c].user \notin UserIDs
        /\ Fail(c, "ErrInternal")
        /\ UNCHANGED <<pendingDeletions, faults>>
  /\ UNCHANGED <<users, userTokens, usernames, nextUserID, nextToken, now, workerVars, crashes>>

CancelDelete(c) ==
  /\ pc[c] = "CancelDelete"
  /\ LET gone == Cancellable(call[c].user)
     IN /\ pendingDeletions' = pendingDeletions \ gone
        /\ \/ /\ gone = {}
              /\ Goto(c, "CancelCheck")
              /\ Answered
           \/ /\ gone # {}
              /\ Return(c, [Success(call[c].op) EXCEPT !.user = call[c].user])
              /\ Answered
           \/ LostAnswer(c)
  /\ UNCHANGED <<users, userTokens, usernames, nextUserID, nextToken, now, workerVars, crashes>>

\* Nothing was cancelled: an error if the deletion has started, otherwise
\* success all the same.
CancelCheck(c) ==
  /\ pc[c] = "CancelCheck"
  /\ IF StartedExists(call[c].user)
     THEN Fail(c, "ErrAccountDeletionInProgress")
     ELSE Return(c, [Success(call[c].op) EXCEPT !.user = call[c].user])
  /\ UNCHANGED <<dbVars, workerVars, faultVars>>

\* A statement fails without effect; every caller but SetUsername's returns
\* the error.
StatementFails(c) ==
  /\ Busy(c)
  /\ pc[c] # "SetUsername"
  /\ faults < MaxFaults
  /\ faults' = faults + 1
  /\ Fail(c, "ErrInternal")
  /\ UNCHANGED <<dbVars, workerVars, crashes>>

-----------------------------------------------------------------------------
(* The deletion worker: processDueAccountDeletions, run at startup and     *)
(* then at every interval, far shorter than a tick.                        *)

WorkerIdle == claimed = {} /\ uncaching = Blank

WorkerClaim ==
  /\ WorkerIdle
  /\ Due # {}
  /\ \E B \in ClaimBatches(ClaimLimit) :
       /\ ClaimDue(B)
       /\ \/ claimed' = {p.user : p \in B} /\ Answered
          \/ claimed' = {} /\ faults < MaxFaults /\ faults' = faults + 1
  /\ UNCHANGED <<users, userTokens, usernames, nextUserID, nextToken, now, callVars,
                 uncaching, crashes>>

\* One iteration of the loop; when the account is missing only the pending
\* deletion is removed.  The DELETE that finds no account and the statement that
\* removes the row are one step here: ClaimedUsersExist shows that branch is dead.
WorkerDelete ==
  \E id \in claimed :
    /\ uncaching = Blank
    /\ claimed' = claimed \ {id}
    /\ IF id \in UserIDs
       THEN /\ DeleteUserByID(id)
            /\ \/ /\ \E u \in users : u.id = id /\ uncaching' = u.username
                  /\ Answered
               \/ uncaching' = Blank /\ faults < MaxFaults /\ faults' = faults + 1
       ELSE /\ pendingDeletions' = DeleteByUserID(id)
            /\ UNCHANGED <<users, userTokens, uncaching, faults>>
    /\ UNCHANGED <<usernames, nextUserID, nextToken, now, callVars, crashes>>

\* The DELETE fails without effect: the worker logs and goes on to the next item.
WorkerDeleteFails ==
  \E id \in claimed :
    /\ uncaching = Blank
    /\ claimed' = claimed \ {id}
    /\ faults < MaxFaults
    /\ faults' = faults + 1
    /\ UNCHANGED <<dbVars, callVars, uncaching, crashes>>

\* Mutant: the worker leaves the cache alone.
WorkerForgetsCache ==
  /\ uncaching # Blank
  /\ uncaching' = Blank
  /\ UNCHANGED <<dbVars, callVars, claimed, faultVars>>

\* removeUsernameFromCache; a failure is only logged.
WorkerUncache ==
  /\ uncaching # Blank
  /\ \/ usernames' = usernames \ {uncaching} /\ Answered
     \/ usernames' = usernames /\ faults < MaxFaults /\ faults' = faults + 1
  /\ uncaching' = Blank
  /\ UNCHANGED <<tables, nextUserID, nextToken, now, callVars, claimed, crashes>>

-----------------------------------------------------------------------------
(* The environment. *)

\* Time passes; no request outlives RequestSpan ticks.
Tick ==
  /\ now < MaxTime
  /\ \A c \in Calls : Busy(c) => now < call[c].at + RequestSpan
  /\ now' = now + 1
  /\ UNCHANGED <<tables, usernames, nextUserID, nextToken, callVars, workerVars, faultVars>>

\* The process dies, or SIGTERM cancels the context of every statement, and
\* the server is started again: requests and the worker's slice are gone, the
\* tables and Redis stay (CREATE TABLE IF NOT EXISTS changes nothing).
Crash ==
  /\ crashes < MaxCrashes
  /\ crashes' = crashes + 1
  /\ pc' = [c \in Calls |-> "idle"]
  /\ call' = [c \in Calls |-> NoCall]
  /\ result' = [c \in Calls |-> NoResult]
  /\ claimed' = {}
  /\ uncaching' = Blank
  /\ UNCHANGED <<dbVars, delivered, faults>>

Request(c) ==
  \/ Register(c)
  \/ LoginByCredentials(c)
  \/ LoginByToken(c)
  \/ ScheduleAccountDeletion(c)
  \/ CancelAccountDeletion(c)

Step(c) ==
  \/ UsernameExists(c)
  \/ CheckUsernameAvailable(c)
  \/ RegisterCreateUser(c)
  \/ SetUsername(c)
  \/ IssueToken(c)
  \/ VerifyCredentials(c)
  \/ RejectIfPendingDeletion(c)
  \/ FindToken(c)
  \/ Rotate(c)
  \/ UpsertDeletion(c)
  \/ CancelDelete(c)
  \/ CancelCheck(c)
  \/ Collect(c)

Worker == WorkerClaim \/ WorkerDelete \/ WorkerUncache

Next ==
  \/ \E c \in Calls : Request(c) \/ Step(c) \/ StatementFails(c)
  \/ Worker
  \/ WorkerDeleteFails
  \/ Tick
  \/ Crash

Spec == Init /\ [][Next]_vars

\* Goroutines are scheduled, statements answer, and time passes.
Fairness ==
  /\ \A c \in Calls : WF_vars(Step(c))
  /\ WF_vars(Worker)
  /\ WF_vars(Tick)

FairSpec == Spec /\ Fairness

-----------------------------------------------------------------------------
(* Properties. *)

UserRow == [id : Nat, username : Usernames, passwordHash : [argon2id : Passwords],
            createdAt : Nat]

TokenRow == [id : Nat, user : Nat, device : Devices, hash : [sha256 : Nat]]

PendingRow == [user : Nat, deleteAt : Nat, started : BOOLEAN]

CallRecord == [op : Operations \cup {"none"}, username : Usernames \cup {Blank},
               password : Passwords \cup {Blank}, device : Devices \cup {Blank},
               token : Nat \cup {Forged, Blank}, at : Nat, user : Nat, tokenID : Nat,
               deleteAt : Nat]

Errors == {"OK", "ErrInvalidUsername", "ErrPasswordRequired", "ErrDeviceIDRequired",
           "ErrInvalidCredentials", "ErrSessionTokenNeeded", "ErrUsernameTaken",
           "ErrInvalidToken", "ErrAccountPendingDeletion", "ErrAccountDeletionInProgress",
           "ErrInternal"}

ResultRecord == [op : Operations \cup {"none"}, err : Errors, user : Nat,
                 device : Devices \cup {Blank}, token : Nat, deleteAt : Nat]

\* Every table, every local variable of a call and the worker's state has its type.
TypeOK ==
  /\ users \subseteq UserRow
  /\ userTokens \subseteq TokenRow
  /\ pendingDeletions \subseteq PendingRow
  /\ usernames \subseteq Usernames
  /\ nextUserID \in Nat
  /\ nextToken \in Nat
  /\ now \in Nat
  /\ pc \in [Calls -> Statements \cup {"idle", "done"}]
  /\ call \in [Calls -> CallRecord]
  /\ result \in [Calls -> ResultRecord]
  /\ delivered \subseteq Nat
  /\ claimed \subseteq Nat
  /\ uncaching \in Usernames \cup {Blank}
  /\ faults \in Nat
  /\ crashes \in Nat

\* Two accounts never share a username, whatever two registrations of the name
\* that both saw it available do next (auth.go: the check and the INSERT are
\* separate statements).
UsernameUnique == \A u, v \in users : u.username = v.username => u = v

\* As long as nothing failed, a name Redis holds belongs to an account or is the
\* one the worker is about to remove: no name stays refused after its account.
CacheAccurate ==
  faults = 0 /\ crashes = 0 =>
    \A n \in usernames : n = uncaching \/ \E u \in users : u.username = n

\* Tokens and pending deletions refer to accounts that exist, a device has one
\* row, an account one pending deletion: no interleaving of requests with the
\* worker's cascading DELETE leaves a row behind or duplicates one.
RowsConsistent ==
  /\ \A t \in userTokens : t.user \in UserIDs
  /\ \A p \in pendingDeletions : p.user \in UserIDs
  /\ \A s, t \in userTokens : s.device = t.device \/ s.id = t.id \/ s.hash = t.hash => s = t
  /\ \A p, q \in pendingDeletions : p.user = q.user => p = q

\* Every account the worker holds exists, so processDueAccountDeletions never
\* meets ErrUserNotFound: no cancellation, re-scheduling or earlier iteration
\* removes an account it has claimed.
ClaimedUsersExist == claimed \subseteq UserIDs

\* No account is deleted before AccountDeletionDelay has passed since it was
\* created, whatever is scheduled, cancelled and scheduled again in between.
AccountLivesAtLeastDelay ==
  [][\A u \in users : u \notin users' => u.createdAt + Delay <= now]_vars

-----------------------------------------------------------------------------
(* Statements of the repository that the code does not keep. *)

\* tests/account_deletion_test.go: after a cancellation answered OK the account
\* can be used.  It exists, and the worker is not about to delete it.
CancelOkKeepsAccount ==
  [][\A c \in Calls :
       Busy(c) /\ pc'[c] = "done" /\ result'[c].op = "CancelAccountDeletion"
         /\ result'[c].err = "OK" => result'[c].user \in UserIDs' \ claimed']_vars

\* server/handlers/account.go refuses a cancellation with "account deletion
\* already started": a deletion that has started is carried out.
StartedDeletionCompletes ==
  \A id \in 1..MaxUsers : StartedExists(id) ~> ~StartedExists(id)

=============================================================================
