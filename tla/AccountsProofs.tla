--------------------------- MODULE AccountsProofs ---------------------------
(***************************************************************************)
(* Proofs about Accounts, for every value of its constants.                *)
(***************************************************************************)
EXTENDS Accounts, TLAPS

-----------------------------------------------------------------------------
(* Type correctness. *)

CallsTyped ==
  /\ pc \in [Calls -> Statements \cup {"idle", "done"}]
  /\ call \in [Calls -> CallRecord]
  /\ result \in [Calls -> ResultRecord]
  /\ delivered \subseteq Nat

TablesTyped ==
  /\ users \subseteq UserRow
  /\ userTokens \subseteq TokenRow
  /\ pendingDeletions \subseteq PendingRow
  /\ usernames \subseteq Usernames
  /\ nextUserID \in Nat
  /\ nextToken \in Nat
  /\ now \in Nat

\* The record of an idle call and the results with no payload have their types.
LEMMA NullRecords ==
  /\ NoCall \in CallRecord
  /\ NoResult \in ResultRecord
  /\ \A op \in Operations \cup {"none"}, err \in Errors : Failure(op, err) \in ResultRecord
BY DEF NoCall, NoResult, Failure, CallRecord, ResultRecord, Errors, Operations

\* A call moving to its next statement keeps the types of the calls.
LEMMA GotoTyped ==
  ASSUME CallsTyped, NEW c \in Calls, NEW s \in Statements, Goto(c, s)
  PROVE  CallsTyped'
BY DEF CallsTyped, Goto

LEMMA GotoWithTyped ==
  ASSUME CallsTyped, NEW c \in Calls, NEW s \in Statements, NEW r \in CallRecord,
         GotoWith(c, s, r)
  PROVE  CallsTyped'
BY DEF CallsTyped, GotoWith

LEMMA ReturnTyped ==
  ASSUME CallsTyped, NEW c \in Calls, NEW r \in ResultRecord, Return(c, r)
  PROVE  CallsTyped'
<1>1. r.token \in Nat
  BY DEF ResultRecord
<1>2. QED
  BY <1>1, NullRecords DEF CallsTyped, Return

LEMMA FailTyped ==
  ASSUME CallsTyped, NEW c \in Calls, NEW e \in Errors, Fail(c, e)
  PROVE  CallsTyped'
<1>1. call[c].op \in Operations \cup {"none"}
  BY DEF CallsTyped, CallRecord
<1>2. Failure(call[c].op, e) \in ResultRecord
  BY <1>1, NullRecords
<1>3. QED
  BY <1>2, ReturnTyped DEF Fail

LEMMA LostAnswerTyped ==
  ASSUME CallsTyped, faults \in Nat, NEW c \in Calls, LostAnswer(c)
  PROVE  CallsTyped' /\ faults' \in Nat
<1>1. "ErrInternal" \in Errors
  BY DEF Errors
<1>2. QED
  BY <1>1, FailTyped DEF LostAnswer

\* A request that begins: arguments that are not refused have their types.
LEMMA BeginTyped ==
  ASSUME CallsTyped, NEW c \in Calls, NEW a, a.op \in Operations, NEW e \in Errors,
         NEW s \in Statements, e = "OK" => a \in CallRecord, Begin(c, a, e, s)
  PROVE  CallsTyped' /\ UNCHANGED <<dbVars, workerVars, faultVars>>
<1>1. CASE Return(c, Failure(a.op, e))
  <2>1. Failure(a.op, e) \in ResultRecord
    BY NullRecords
  <2>2. QED
    BY <1>1, <2>1, ReturnTyped DEF Begin
<1>2. CASE e = "OK" /\ GotoWith(c, s, a)
  BY <1>2, GotoWithTyped DEF Begin
<1>3. QED
  BY <1>1, <1>2 DEF Begin

LEMMA RequestTyped ==
  ASSUME CallsTyped, now \in Nat, NEW c \in Calls, Request(c)
  PROVE  CallsTyped' /\ UNCHANGED <<dbVars, workerVars, faultVars>>
<1> USE DEF Statements, Operations, Errors
<1>1. CASE Register(c)
  <2>1. PICK name \in RawUsernames, password \in RawPasswords, device \in RawDevices :
          LET a == Args("Register", NormalizeUsername(name), password, TrimSpace(device), Blank)
          IN Begin(c, a, RegisterRefusal(a), "UsernameExists")
    BY <1>1 DEF Register
  <2> DEFINE a == Args("Register", NormalizeUsername(name), password, TrimSpace(device), Blank)
  <2>2. a.op \in Operations /\ RegisterRefusal(a) \in Errors
    BY DEF Args, RegisterRefusal
  <2>3. RegisterRefusal(a) = "OK" => a \in CallRecord
    BY DEF Args, RegisterRefusal, ValidUsername, CallRecord, RawPasswords, RawDevices,
           Spelled, TrimSpace
  <2>4. QED
    BY <2>1, <2>2, <2>3, BeginTyped
<1>2. CASE LoginByCredentials(c)
  <2>1. PICK name \in RawUsernames, password \in RawPasswords, device \in RawDevices :
          LET a == Args("LoginByCredentials", NormalizeUsername(name), password,
                        TrimSpace(device), Blank)
          IN Begin(c, a, LoginRefusal(a), "GetUserByUsername")
    BY <1>2 DEF LoginByCredentials
  <2> DEFINE a == Args("LoginByCredentials", NormalizeUsername(name), password,
                       TrimSpace(device), Blank)
  <2>2. a.op \in Operations /\ LoginRefusal(a) \in Errors
    BY DEF Args, LoginRefusal
  <2>3. LoginRefusal(a) = "OK" => a \in CallRecord
    BY DEF Args, LoginRefusal, ValidUsername, CallRecord, RawPasswords, RawDevices,
           Spelled, TrimSpace
  <2>4. QED
    BY <2>1, <2>2, <2>3, BeginTyped
<1>3. CASE LoginByToken(c)
  <2>1. PICK token \in Spelled(delivered \cup {Forged, Blank}) :
          LET a == Args("LoginByToken", Blank, Blank, Blank, TrimSpace(token))
          IN Begin(c, a, TokenRefusal(a), "GetActiveByTokenHash")
    BY <1>3 DEF LoginByToken
  <2> DEFINE a == Args("LoginByToken", Blank, Blank, Blank, TrimSpace(token))
  <2>2. a.op \in Operations /\ TokenRefusal(a) \in Errors
    BY DEF Args, TokenRefusal
  <2>3. TrimSpace(token) \in Nat \cup {Forged, Blank}
    BY DEF Spelled, TrimSpace, CallsTyped
  <2>4. a \in CallRecord
    BY <2>3 DEF Args, CallRecord
  <2>5. QED
    BY <2>1, <2>2, <2>4, BeginTyped
<1>4. CASE ScheduleAccountDeletion(c)
  <2>1. PICK name \in RawUsernames, password \in RawPasswords :
          LET a == Args("ScheduleAccountDeletion", NormalizeUsername(name), password,
                        Blank, Blank)
          IN Begin(c, a, DeleteRefusal(a), "GetUserByUsername")
    BY <1>4 DEF ScheduleAccountDeletion
  <2> DEFINE a == Args("ScheduleAccountDeletion", NormalizeUsername(name), password,
                       Blank, Blank)
  <2>2. a.op \in Operations /\ DeleteRefusal(a) \in Errors
    BY DEF Args, DeleteRefusal
  <2>3. DeleteRefusal(a) = "OK" => a \in CallRecord
    BY DEF Args, DeleteRefusal, ValidUsername, CallRecord, RawPasswords
  <2>4. QED
    BY <2>1, <2>2, <2>3, BeginTyped
<1>5. CASE CancelAccountDeletion(c)
  <2>1. PICK name \in RawUsernames, password \in RawPasswords :
          LET a == Args("CancelAccountDeletion", NormalizeUsername(name), password,
                        Blank, Blank)
          IN Begin(c, a, DeleteRefusal(a), "GetUserByUsername")
    BY <1>5 DEF CancelAccountDeletion
  <2> DEFINE a == Args("CancelAccountDeletion", NormalizeUsername(name), password,
                       Blank, Blank)
  <2>2. a.op \in Operations /\ DeleteRefusal(a) \in Errors
    BY DEF Args, DeleteRefusal
  <2>3. DeleteRefusal(a) = "OK" => a \in CallRecord
    BY DEF Args, DeleteRefusal, ValidUsername, CallRecord, RawPasswords
  <2>4. QED
    BY <2>1, <2>2, <2>3, BeginTyped
<1>6. QED
  BY <1>1, <1>2, <1>3, <1>4, <1>5 DEF Request

-----------------------------------------------------------------------------
(* TypeOK is not inductive: a row is built from the arguments of a call,   *)
(* which have the row's types because they passed the checks at its start. *)

ArgsValidated ==
  \A c \in Calls :
    /\ pc[c] \in {"UsernameExists", "IsUsernameAvailable", "CreateUser", "SetUsername"} =>
         /\ call[c].op = "Register"
         /\ call[c].username \in Usernames
         /\ call[c].password \in Passwords
         /\ call[c].device \in Devices
    /\ pc[c] = "GetUserByUsername" /\ call[c].op = "LoginByCredentials" =>
         call[c].device \in Devices
    /\ pc[c] = "GetActiveByTokenHash" => call[c].op = "LoginByToken"
    /\ pc[c] = "ExistsActiveByUserID" =>
         call[c].op = "LoginByToken" \/ call[c].device \in Devices
    /\ pc[c] = "UpsertActiveToken" => call[c].device \in Devices

Typed == TypeOK /\ ArgsValidated

\* A result with a payload has its type.
LEMMA ReplyTyped ==
  ASSUME NEW r \in ResultRecord, NEW u \in Nat, NEW d \in Devices \cup {Blank}, NEW t \in Nat,
         NEW a \in Nat
  PROVE  /\ [r EXCEPT !.user = u, !.device = d, !.token = t] \in ResultRecord
         /\ [r EXCEPT !.user = u, !.deleteAt = a] \in ResultRecord
         /\ [r EXCEPT !.user = u] \in ResultRecord
BY DEF ResultRecord

\* The arguments and local variables of a call, one by one.
LEMMA CallFields ==
  ASSUME TypeOK, NEW c \in Calls
  PROVE  /\ CallsTyped /\ TablesTyped
         /\ call[c].op \in Operations \cup {"none"}
         /\ call[c].user \in Nat /\ call[c].tokenID \in Nat /\ call[c].deleteAt \in Nat
         /\ call[c].device \in Devices \cup {Blank}
         /\ Success(call[c].op) \in ResultRecord
<1>1. CallsTyped /\ TablesTyped /\ call[c] \in CallRecord
  BY DEF TypeOK, CallsTyped, TablesTyped
<1>2. call[c].op \in Operations \cup {"none"}
  BY <1>1 DEF CallRecord
<1>3. Success(call[c].op) \in ResultRecord
  BY <1>2, NullRecords DEF Success, Errors
<1>4. QED
  BY <1>1, <1>2, <1>3 DEF CallRecord

\* A call that returns leaves the other calls as they are.
LEMMA ArgsReturn ==
  ASSUME TypeOK, ArgsValidated, NEW c \in Calls, NEW r, Return(c, r)
  PROVE  ArgsValidated'
BY DEF Return, ArgsValidated, TypeOK

LEMMA ArgsFail ==
  ASSUME TypeOK, ArgsValidated, NEW c \in Calls, NEW e, Fail(c, e)
  PROVE  ArgsValidated'
BY ArgsReturn DEF Fail

\* A request that goes on has arguments that passed the checks.
LEMMA TypedRequest ==
  ASSUME Typed, NEW c \in Calls, Request(c)
  PROVE  Typed'
<1>1. CallsTyped /\ now \in Nat
  BY DEF Typed, TypeOK, CallsTyped
<1>2. TypeOK'
  BY <1>1, RequestTyped DEF Typed, TypeOK, CallsTyped, dbVars, workerVars, faultVars
<1>3. ASSUME NEW a, NEW e, NEW s, Begin(c, a, e, s),
             e = "OK" =>
               /\ s = "UsernameExists" => /\ a.op = "Register"
                                          /\ a.username \in Usernames
                                          /\ a.password \in Passwords
                                          /\ a.device \in Devices
               /\ s = "GetUserByUsername" /\ a.op = "LoginByCredentials" =>
                    a.device \in Devices
               /\ s = "GetActiveByTokenHash" => a.op = "LoginByToken",
             s \in {"UsernameExists", "GetUserByUsername", "GetActiveByTokenHash"}
      PROVE  ArgsValidated'
  <2>1. CASE Return(c, Failure(a.op, e))
    BY <2>1, ArgsReturn DEF Typed
  <2>2. CASE e = "OK" /\ GotoWith(c, s, a)
    BY <2>2, <1>3 DEF Typed, ArgsValidated, GotoWith, TypeOK
  <2>3. QED
    BY <1>3, <2>1, <2>2 DEF Begin
<1>4. ArgsValidated'
  <2>1. CASE Register(c)
    BY <2>1, <1>3 DEF Register, Args, RegisterRefusal, ValidUsername, RawPasswords, RawDevices,
                      Spelled, TrimSpace
  <2>2. CASE LoginByCredentials(c)
    BY <2>2, <1>3 DEF LoginByCredentials, Args, LoginRefusal, RawDevices, Spelled, TrimSpace
  <2>3. CASE LoginByToken(c)
    BY <2>3, <1>3 DEF LoginByToken, Args
  <2>4. CASE ScheduleAccountDeletion(c)
    BY <2>4, <1>3 DEF ScheduleAccountDeletion, Args
  <2>5. CASE CancelAccountDeletion(c)
    BY <2>5, <1>3 DEF CancelAccountDeletion, Args
  <2>6. QED
    BY <2>1, <2>2, <2>3, <2>4, <2>5 DEF Request
<1>5. QED
  BY <1>2, <1>4 DEF Typed

\* Register's statements keep the types.
LEMMA TypedRegister ==
  ASSUME Typed, NEW c \in Calls,
         UsernameExists(c) \/ CheckUsernameAvailable(c) \/ RegisterCreateUser(c) \/ SetUsername(c)
  PROVE  Typed'
<1> USE DEF Typed
<1>1. CallsTyped
  BY CallFields
<1>2. CASE UsernameExists(c)
  <2>1. CASE Fail(c, "ErrUsernameTaken")
    BY <1>1, <1>2, <2>1, FailTyped, ArgsFail
       DEF UsernameExists, Errors, TypeOK, CallsTyped, dbVars, workerVars, faultVars
  <2>2. CASE Goto(c, "IsUsernameAvailable")
    BY <1>2, <2>2
       DEF UsernameExists, Goto, Statements, TypeOK, ArgsValidated, dbVars, workerVars, faultVars
  <2>3. QED
    BY <1>2, <2>1, <2>2 DEF UsernameExists
<1>3. CASE CheckUsernameAvailable(c)
  <2>1. CASE Fail(c, "ErrUsernameTaken")
    BY <1>1, <1>3, <2>1, FailTyped, ArgsFail
       DEF CheckUsernameAvailable, Errors, TypeOK, CallsTyped, dbVars, workerVars, faultVars
  <2>2. CASE Goto(c, "CreateUser")
    BY <1>3, <2>2
       DEF CheckUsernameAvailable, Goto, Statements, TypeOK, ArgsValidated, dbVars, workerVars,
           faultVars
  <2>3. QED
    BY <1>3, <2>1, <2>2 DEF CheckUsernameAvailable
<1>4. CASE RegisterCreateUser(c)
  <2> DEFINE row == [id |-> nextUserID, username |-> call[c].username,
                     passwordHash |-> hashPassword(call[c].password), createdAt |-> now]
  <2>1. row \in UserRow
    BY <1>4 DEF RegisterCreateUser, ArgsValidated, TypeOK, UserRow, hashPassword
  <2>2. users' \subseteq UserRow /\ nextUserID' \in Nat
    BY <1>4, <2>1 DEF RegisterCreateUser, CreateUser, TypeOK
  <2>3. CallsTyped' /\ faults' \in Nat /\ ArgsValidated'
    <3>1. CASE GotoWith(c, "SetUsername", [call[c] EXCEPT !.user = nextUserID]) /\ Answered
      <4>1. [call[c] EXCEPT !.user = nextUserID] \in CallRecord
        BY DEF TypeOK, CallRecord
      <4>2. CallsTyped' /\ faults' \in Nat
        BY <1>1, <3>1, <4>1, GotoWithTyped DEF Statements, Answered, TypeOK
      <4>3. ArgsValidated'
        BY <1>4, <3>1, <4>1 DEF GotoWith, RegisterCreateUser, ArgsValidated, TypeOK, CallRecord
      <4>4. QED
        BY <4>2, <4>3
    <3>2. CASE LostAnswer(c)
      BY <1>1, <3>2, LostAnswerTyped, ArgsFail DEF LostAnswer, TypeOK
    <3>3. CASE Fail(c, "ErrUsernameTaken") /\ UNCHANGED faults
      BY <1>1, <3>3, FailTyped, ArgsFail DEF Errors, TypeOK
    <3>4. QED
      BY <1>4, <3>1, <3>2, <3>3 DEF RegisterCreateUser
  <2>4. QED
    BY <1>4, <2>2, <2>3 DEF RegisterCreateUser, TypeOK, CallsTyped, workerVars
<1>5. CASE SetUsername(c)
  <2>1. usernames' \subseteq Usernames /\ faults' \in Nat
    BY <1>5 DEF SetUsername, ArgsValidated, TypeOK, Answered
  <2>2. QED
    BY <1>5, <2>1
       DEF SetUsername, Goto, Statements, TypeOK, ArgsValidated, tables, workerVars
<1>6. QED
  BY <1>2, <1>3, <1>4, <1>5

\* The statements of the logins keep the types.
LEMMA TypedLogin ==
  ASSUME Typed, NEW c \in Calls,
         IssueToken(c) \/ VerifyCredentials(c) \/ RejectIfPendingDeletion(c) \/ FindToken(c)
           \/ Rotate(c)
  PROVE  Typed'
<1> USE DEF Typed
<1> DEFINE reply == [Success(call[c].op) EXCEPT !.user = call[c].user,
                       !.device = call[c].device, !.token = nextToken]
<1>1. CallsTyped
  BY CallFields
<1>2. reply \in ResultRecord
  BY CallFields, ReplyTyped DEF TypeOK
<1>3. hashToken(nextToken) \in [sha256 : Nat]
  BY DEF hashToken, TypeOK
<1>4. CASE IssueToken(c)
  <2>1. userTokens' \subseteq TokenRow
    <3>1. call[c].user \in Nat /\ call[c].device \in Devices
      BY <1>4, CallFields DEF IssueToken, ArgsValidated
    <3>2. [id |-> nextToken, user |-> call[c].user, device |-> call[c].device,
           hash |-> hashToken(nextToken)] \in TokenRow
      BY <3>1, <1>3 DEF TokenRow, TypeOK
    <3>3. \A t \in userTokens :
            [t EXCEPT !.user = call[c].user, !.hash = hashToken(nextToken)] \in TokenRow
      BY <3>1, <1>3 DEF TokenRow, TypeOK
    <3>4. CASE UpsertActiveToken(call[c].user, call[c].device, nextToken)
      <4>1. CASE \E t \in userTokens : t.device = call[c].device
        BY <3>3, <3>4, <4>1 DEF UpsertActiveToken, TypeOK
      <4>2. CASE ~\E t \in userTokens : t.device = call[c].device
        BY <3>2, <3>4, <4>2 DEF UpsertActiveToken, TypeOK
      <4>3. QED
        BY <4>1, <4>2
    <3>5. CASE UNCHANGED userTokens
      BY <3>5 DEF TypeOK
    <3>6. QED
      BY <1>4, <3>4, <3>5 DEF IssueToken
  <2>2. CallsTyped' /\ faults' \in Nat /\ ArgsValidated'
    <3>1. CASE Return(c, reply) /\ Answered
      BY <1>1, <1>2, <3>1, ReturnTyped, ArgsReturn DEF Answered, TypeOK
    <3>2. CASE LostAnswer(c)
      BY <1>1, <3>2, LostAnswerTyped, ArgsFail DEF LostAnswer, TypeOK
    <3>3. CASE Fail(c, "ErrInternal") /\ UNCHANGED faults
      BY <1>1, <3>3, FailTyped, ArgsFail DEF Errors, TypeOK
    <3>4. QED
      BY <1>4, <3>1, <3>2, <3>3 DEF IssueToken
  <2>3. QED
    BY <1>4, <2>1, <2>2 DEF IssueToken, TypeOK, CallsTyped, workerVars
<1>5. CASE VerifyCredentials(c)
  <2> DEFINE locals(u) == [call[c] EXCEPT !.user = u.id,
                             !.deleteAt = IF call[c].op = "ScheduleAccountDeletion"
                                          THEN now + Delay ELSE 0]
  <2>1. CASE Fail(c, "ErrInvalidCredentials")
    BY <1>1, <1>5, <2>1, FailTyped, ArgsFail
       DEF VerifyCredentials, Errors, TypeOK, CallsTyped, dbVars, workerVars, faultVars
  <2>2. ASSUME NEW u \in users, GotoWith(c, AfterVerify(call[c].op), locals(u))
        PROVE  Typed'
    <3>1. u.id \in Nat /\ now + Delay \in Nat
      BY DelayAssumption DEF TypeOK, UserRow
    <3>2. locals(u) \in CallRecord
      <4>1. PICK at \in Nat : at = IF call[c].op = "ScheduleAccountDeletion" THEN now + Delay ELSE 0
        BY <3>1
      <4>2. call[c] \in CallRecord
        BY DEF TypeOK
      <4>3. [call[c] EXCEPT !.user = u.id, !.deleteAt = at] \in CallRecord
        BY <3>1, <4>2 DEF CallRecord
      <4>4. QED
        BY <4>1, <4>3
    <3>3. AfterVerify(call[c].op) \in Statements
      BY DEF AfterVerify, Statements
    <3>4. CallsTyped'
      BY <1>1, <2>2, <3>2, <3>3, GotoWithTyped
    <3>5. ArgsValidated'
      <4> DEFINE s == AfterVerify(call[c].op)
      <4>1. /\ s \in {"ExistsActiveByUserID", "Upsert", "CancelDelete"}
            /\ s = "ExistsActiveByUserID" => call[c].op = "LoginByCredentials"
        BY DEF AfterVerify
      <4>2. locals(u).device = call[c].device
        BY DEF TypeOK, CallRecord
      <4>3. s = "ExistsActiveByUserID" => call[c].device \in Devices
        BY <1>5, <4>1 DEF VerifyCredentials, ArgsValidated
      <4>4. pc' = [pc EXCEPT ![c] = s] /\ call' = [call EXCEPT ![c] = locals(u)]
        BY <2>2 DEF GotoWith
      <4> HIDE DEF s, locals
      <4>5. QED
        BY <4>1, <4>2, <4>3, <4>4 DEF ArgsValidated, TypeOK
    <3>6. QED
      BY <1>5, <3>4, <3>5
         DEF VerifyCredentials, TypeOK, CallsTyped, dbVars, workerVars, faultVars
  <2>3. QED
    BY <1>5, <2>1, <2>2 DEF VerifyCredentials, GetUserByUsername
<1>6. CASE RejectIfPendingDeletion(c)
  <2>1. CASE Fail(c, "ErrAccountPendingDeletion")
    BY <1>1, <1>6, <2>1, FailTyped, ArgsFail
       DEF RejectIfPendingDeletion, Errors, TypeOK, CallsTyped, dbVars, workerVars, faultVars
  <2>2. CASE Goto(c, IF call[c].op = "LoginByToken" THEN "RotateToken" ELSE "UpsertActiveToken")
    BY <1>6, <2>2
       DEF RejectIfPendingDeletion, Goto, Statements, TypeOK, ArgsValidated, dbVars, workerVars,
           faultVars
  <2>3. QED
    BY <1>6, <2>1, <2>2 DEF RejectIfPendingDeletion
<1>7. CASE FindToken(c)
  <2> DEFINE locals(t) == [call[c] EXCEPT !.user = t.user, !.device = t.device, !.tokenID = t.id]
  <2>1. CASE Fail(c, "ErrInvalidToken")
    BY <1>1, <1>7, <2>1, FailTyped, ArgsFail
       DEF FindToken, Errors, TypeOK, CallsTyped, dbVars, workerVars, faultVars
  <2>2. ASSUME NEW t \in userTokens, GotoWith(c, "ExistsActiveByUserID", locals(t))
        PROVE  Typed'
    <3>1. locals(t) \in CallRecord
      <4>1. t.user \in Nat /\ t.device \in Devices /\ t.id \in Nat
        BY DEF TypeOK, TokenRow
      <4>2. call[c] \in CallRecord
        BY DEF TypeOK
      <4>3. QED
        BY <4>1, <4>2 DEF CallRecord
    <3>2. CallsTyped'
      BY <1>1, <2>2, <3>1, GotoWithTyped DEF Statements
    <3>3. ArgsValidated'
      BY <1>7, <2>2, <3>1 DEF FindToken, GotoWith, ArgsValidated, TypeOK, CallRecord
    <3>4. QED
      BY <1>7, <3>2, <3>3 DEF FindToken, TypeOK, CallsTyped, dbVars, workerVars, faultVars
  <2>3. QED
    BY <1>7, <2>1, <2>2 DEF FindToken, GetActiveByTokenHash
<1>8. CASE Rotate(c)
  <2>1. userTokens' \subseteq TokenRow
    BY <1>8, <1>3 DEF Rotate, RotateToken, TokenRow, TypeOK
  <2>2. CallsTyped' /\ faults' \in Nat /\ ArgsValidated'
    <3>1. CASE Return(c, reply) /\ Answered
      BY <1>1, <1>2, <3>1, ReturnTyped, ArgsReturn DEF Answered, TypeOK
    <3>2. CASE LostAnswer(c)
      BY <1>1, <3>2, LostAnswerTyped, ArgsFail DEF LostAnswer, TypeOK
    <3>3. CASE Fail(c, "ErrInvalidToken") /\ Answered
      BY <1>1, <3>3, FailTyped, ArgsFail DEF Errors, TypeOK, Answered
    <3>4. QED
      BY <1>8, <3>1, <3>2, <3>3 DEF Rotate
  <2>3. QED
    BY <1>8, <2>1, <2>2 DEF Rotate, TypeOK, CallsTyped, workerVars
<1>9. QED
  BY <1>4, <1>5, <1>6, <1>7, <1>8

\* Scheduling and cancelling a deletion, and giving a slot back, keep the types.
LEMMA TypedDelete ==
  ASSUME Typed, NEW c \in Calls,
         UpsertDeletion(c) \/ CancelDelete(c) \/ CancelCheck(c) \/ Collect(c)
           \/ StatementFails(c)
  PROVE  Typed'
<1> USE DEF Typed
<1>1. CallsTyped
  BY CallFields
<1>2. /\ [Success(call[c].op) EXCEPT !.user = call[c].user] \in ResultRecord
      /\ [Success(call[c].op) EXCEPT !.user = call[c].user,
                                     !.deleteAt = call[c].deleteAt] \in ResultRecord
  BY CallFields, ReplyTyped DEF TypeOK
<1>3. CASE UpsertDeletion(c)
  <2>1. [user |-> call[c].user, deleteAt |-> call[c].deleteAt, started |-> FALSE] \in PendingRow
    BY CallFields DEF PendingRow
  <2>2. pendingDeletions' \subseteq PendingRow
    BY <1>3, <2>1 DEF UpsertDeletion, Upsert, TypeOK
  <2>3. CallsTyped' /\ faults' \in Nat /\ ArgsValidated'
    BY <1>1, <1>2, <1>3, ReturnTyped, ArgsReturn, LostAnswerTyped, FailTyped, ArgsFail
       DEF UpsertDeletion, LostAnswer, Answered, Errors, TypeOK
  <2>4. QED
    BY <1>3, <2>2, <2>3 DEF UpsertDeletion, TypeOK, CallsTyped, workerVars
<1>4. CASE CancelDelete(c)
  <2>1. pendingDeletions' \subseteq PendingRow
    BY <1>4 DEF CancelDelete, TypeOK
  <2>2. CASE Goto(c, "CancelCheck") /\ Answered
    BY <1>4, <2>1, <2>2
       DEF CancelDelete, Goto, Statements, Answered, TypeOK, ArgsValidated, workerVars
  <2>3. CASE ~(Goto(c, "CancelCheck") /\ Answered)
    <3>1. CallsTyped' /\ faults' \in Nat /\ ArgsValidated'
      BY <1>1, <1>2, <1>4, <2>3, ReturnTyped, ArgsReturn, LostAnswerTyped, ArgsFail
         DEF CancelDelete, LostAnswer, Answered, TypeOK
    <3>2. QED
      BY <1>4, <2>1, <3>1 DEF CancelDelete, TypeOK, CallsTyped, workerVars
  <2>4. QED
    BY <2>2, <2>3
<1>5. CASE CancelCheck(c)
  <2>1. CallsTyped' /\ ArgsValidated'
    BY <1>1, <1>2, <1>5, ReturnTyped, ArgsReturn, FailTyped, ArgsFail DEF CancelCheck, Errors
  <2>2. QED
    BY <1>5, <2>1 DEF CancelCheck, TypeOK, CallsTyped, dbVars, workerVars, faultVars
<1>6. CASE Collect(c)
  BY <1>6, NullRecords DEF Collect, TypeOK, ArgsValidated, dbVars, workerVars, faultVars
<1>7. CASE StatementFails(c)
  <2>1. CallsTyped' /\ ArgsValidated'
    BY <1>1, <1>7, FailTyped, ArgsFail DEF StatementFails, Errors
  <2>2. QED
    BY <1>7, <2>1 DEF StatementFails, TypeOK, CallsTyped, dbVars, workerVars
<1>8. QED
  BY <1>3, <1>4, <1>5, <1>6, <1>7

\* The worker, the clock and a crash keep the types.
LEMMA TypedWorker ==
  ASSUME Typed, Worker \/ WorkerDeleteFails \/ Tick \/ Crash
  PROVE  Typed'
<1> USE DEF Typed
<1>1. CASE WorkerClaim
  <2>1. PICK B \in ClaimBatches(ClaimLimit) :
          ClaimDue(B) /\ claimed' \subseteq {p.user : p \in B} /\ faults' \in Nat
    BY <1>1 DEF WorkerClaim, Answered, TypeOK
  <2>2. B \subseteq pendingDeletions
    BY DEF ClaimBatches, Due
  <2>3. claimed' \subseteq Nat
    BY <2>1, <2>2 DEF TypeOK, PendingRow
  <2>4. pendingDeletions' \subseteq PendingRow
    BY <2>1 DEF ClaimDue, TypeOK, PendingRow
  <2>5. QED
    BY <1>1, <2>1, <2>3, <2>4 DEF WorkerClaim, TypeOK, ArgsValidated, callVars
<1>2. CASE WorkerDelete
  <2>1. /\ users' \subseteq users /\ userTokens' \subseteq userTokens
        /\ pendingDeletions' \subseteq pendingDeletions /\ claimed' \subseteq claimed
    BY <1>2 DEF WorkerDelete, DeleteUserByID, DeleteByUserID
  <2>2. uncaching' \in Usernames \cup {Blank} /\ faults' \in Nat
    BY <1>2 DEF WorkerDelete, Answered, TypeOK, UserRow
  <2>3. QED
    BY <1>2, <2>1, <2>2 DEF WorkerDelete, TypeOK, ArgsValidated, callVars
<1>3. CASE WorkerUncache
  BY <1>3 DEF WorkerUncache, Answered, TypeOK, ArgsValidated, callVars, tables
<1>4. CASE WorkerDeleteFails
  BY <1>4 DEF WorkerDeleteFails, TypeOK, ArgsValidated, callVars, dbVars
<1>5. CASE Tick
  BY <1>5 DEF Tick, TypeOK, ArgsValidated, callVars, tables, workerVars, faultVars
<1>6. CASE Crash
  BY <1>6, NullRecords DEF Crash, TypeOK, ArgsValidated, dbVars
<1>7. QED
  BY <1>1, <1>2, <1>3, <1>4, <1>5, <1>6 DEF Worker

\* Typed holds at the start and every step keeps it.
LEMMA TypedInit == Init => Typed
BY NullRecords DEF Init, InitDatabase, Typed, TypeOK, ArgsValidated

LEMMA TypedStep == Typed /\ [Next]_vars => Typed'
<1> SUFFICES ASSUME Typed, [Next]_vars PROVE Typed'
  OBVIOUS
<1>1. ASSUME NEW c \in Calls, Request(c) \/ Step(c) \/ StatementFails(c)
      PROVE  Typed'
  BY <1>1, TypedRequest, TypedRegister, TypedLogin, TypedDelete DEF Step
<1>2. CASE UNCHANGED vars
  BY <1>2 DEF Typed, TypeOK, ArgsValidated, vars, dbVars, callVars, workerVars, faultVars
<1>3. QED
  BY <1>1, <1>2, TypedWorker DEF Next

\* Every reachable state of the account service has its type: rows only ever
\* hold validated names, passwords and devices, and numbers stay natural.
THEOREM TypeCorrect == Spec => []TypeOK
<1>1. Typed => TypeOK
  BY DEF Typed
<1>2. QED
  BY <1>1, TypedInit, TypedStep, PTL DEF Spec

-----------------------------------------------------------------------------
(* What a step does to the tables: seven cases, whatever the action.       *)

\* Nothing is added to a table, no account goes.
Quiet ==
  /\ UNCHANGED <<users, userTokens, nextUserID>>
  /\ pendingDeletions' \subseteq pendingDeletions
  /\ claimed' \subseteq claimed
  /\ nextToken' \in {nextToken, nextToken + 1}
  /\ now' \in {now, now + 1}

Creates(c) ==
  /\ pc[c] = "CreateUser"
  /\ CreateUser(call[c].username, hashPassword(call[c].password))
  /\ UNCHANGED <<userTokens, pendingDeletions, nextToken, now, claimed>>

Stores(c) ==
  /\ UpsertActiveToken(call[c].user, call[c].device, nextToken)
  /\ nextToken' = nextToken + 1
  /\ UNCHANGED <<users, pendingDeletions, nextUserID, now, claimed>>

Rotates(c) ==
  /\ RotateToken(call[c].tokenID, nextToken)
  /\ nextToken' = nextToken + 1
  /\ UNCHANGED <<users, pendingDeletions, nextUserID, now, claimed>>

Schedules(c) ==
  /\ pc[c] = "Upsert"
  /\ pc' = [pc EXCEPT ![c] = "done"]
  /\ Upsert(call[c].user, call[c].deleteAt)
  /\ UNCHANGED <<users, userTokens, nextUserID, nextToken, now, claimed>>

Claims(B) ==
  /\ ClaimDue(B)
  /\ claimed' \subseteq {p.user : p \in B}
  /\ UNCHANGED <<users, userTokens, nextUserID, nextToken, now>>

Deletes(id) ==
  /\ DeleteUserByID(id)
  /\ claimed' = claimed \ {id}
  /\ UNCHANGED <<nextUserID, nextToken, now>>

LEMMA Effects ==
  ASSUME [Next]_vars
  PROVE  \/ Quiet
         \/ \E c \in Calls : Creates(c) \/ Stores(c) \/ Rotates(c) \/ Schedules(c)
         \/ \E B \in SUBSET Due : Claims(B)
         \/ \E id \in claimed : Deletes(id)
<1> USE DEF dbVars, tables, workerVars
<1>1. ASSUME NEW c \in Calls, Request(c)
      PROVE  Quiet
  BY <1>1 DEF Request, Register, LoginByCredentials, LoginByToken, ScheduleAccountDeletion,
              CancelAccountDeletion, Begin, Quiet
<1>2. ASSUME NEW c \in Calls,
             UsernameExists(c) \/ CheckUsernameAvailable(c) \/ SetUsername(c)
               \/ VerifyCredentials(c) \/ RejectIfPendingDeletion(c) \/ FindToken(c)
               \/ CancelDelete(c) \/ CancelCheck(c) \/ Collect(c) \/ StatementFails(c)
      PROVE  Quiet
  BY <1>2 DEF UsernameExists, CheckUsernameAvailable, SetUsername, VerifyCredentials,
              RejectIfPendingDeletion, FindToken, CancelDelete, CancelCheck, Collect,
              StatementFails, Quiet
<1>3. ASSUME NEW c \in Calls, RegisterCreateUser(c)
      PROVE  Quiet \/ Creates(c)
  BY <1>3 DEF RegisterCreateUser, Quiet, Creates
<1>4. ASSUME NEW c \in Calls, IssueToken(c)
      PROVE  Quiet \/ Stores(c)
  BY <1>4 DEF IssueToken, Quiet, Stores
<1>5. ASSUME NEW c \in Calls, Rotate(c)
      PROVE  Rotates(c)
  BY <1>5 DEF Rotate, Rotates
<1>6. ASSUME NEW c \in Calls, UpsertDeletion(c)
      PROVE  Quiet \/ Schedules(c)
  BY <1>6 DEF UpsertDeletion, Return, LostAnswer, Fail, Quiet, Schedules
<1>7. ASSUME WorkerClaim
      PROVE  \E B \in SUBSET Due : Claims(B)
  <2>1. PICK B \in ClaimBatches(ClaimLimit) :
          /\ ClaimDue(B)
          /\ \/ claimed' = {p.user : p \in B} /\ Answered
             \/ claimed' = {} /\ faults < MaxFaults /\ faults' = faults + 1
    BY <1>7 DEF WorkerClaim
  <2>2. B \in SUBSET Due
    BY DEF ClaimBatches
  <2>3. Claims(B)
    BY <1>7, <2>1 DEF WorkerClaim, Claims
  <2>4. QED
    BY <2>2, <2>3
<1>8. ASSUME WorkerDelete
      PROVE  Quiet \/ \E id \in claimed : Deletes(id)
  BY <1>8 DEF WorkerDelete, DeleteByUserID, Quiet, Deletes
<1>9. ASSUME WorkerUncache \/ WorkerDeleteFails \/ Tick \/ Crash \/ UNCHANGED vars
      PROVE  Quiet
  BY <1>9 DEF WorkerUncache, WorkerDeleteFails, Tick, Crash, vars, Quiet
<1>10. QED
  BY <1>1, <1>2, <1>3, <1>4, <1>5, <1>6, <1>7, <1>8, <1>9 DEF Next, Step, Worker

-----------------------------------------------------------------------------
(* The tables stay consistent. *)

\* Ids are handed out once.
UsersInv ==
  /\ 0 < nextUserID
  /\ \A u \in users : u.id < nextUserID /\ u.createdAt <= now
  /\ \A u, v \in users : u.id = v.id => u = v
  /\ UsernameUnique

\* A stored hash and a row id come from tokens already generated.
TokensInv ==
  /\ \A t \in userTokens : t.user \in UserIDs /\ t.id < nextToken /\ t.hash.sha256 < nextToken
  /\ \A s, t \in userTokens : s.device = t.device \/ s.id = t.id \/ s.hash = t.hash => s = t

PendingInv ==
  /\ \A p \in pendingDeletions : p.user \in UserIDs
  /\ \A p, q \in pendingDeletions : p.user = q.user => p = q
  /\ ClaimedUsersExist

LEMMA UsersStep ==
  ASSUME Typed, UsersInv, [Next]_vars
  PROVE  UsersInv'
<1> USE DEF Typed, TypeOK, UserRow
<1>1. CASE Quiet
  BY <1>1 DEF Quiet, UsersInv, UsernameUnique
<1>2. ASSUME NEW c \in Calls, Creates(c)
      PROVE  UsersInv'
  BY <1>2 DEF Creates, CreateUser, UsersInv, UsernameUnique
<1>3. ASSUME NEW c \in Calls, Stores(c) \/ Rotates(c) \/ Schedules(c)
      PROVE  UsersInv'
  BY <1>3 DEF Stores, Rotates, Schedules, UsersInv, UsernameUnique
<1>4. ASSUME NEW B \in SUBSET Due, Claims(B)
      PROVE  UsersInv'
  BY <1>4 DEF Claims, UsersInv, UsernameUnique
<1>5. ASSUME NEW id \in claimed, Deletes(id)
      PROVE  UsersInv'
  BY <1>5 DEF Deletes, DeleteUserByID, UsersInv, UsernameUnique
<1>6. QED
  BY <1>1, <1>2, <1>3, <1>4, <1>5, Effects

LEMMA TokensStep ==
  ASSUME Typed, TokensInv, [Next]_vars
  PROVE  TokensInv'
<1>1. nextToken \in Nat /\ userTokens \subseteq TokenRow
  BY DEF Typed, TypeOK
<1>2. \A t \in userTokens : t.id \in Nat /\ t.hash.sha256 \in Nat /\ t = [id |-> t.id,
          user |-> t.user, device |-> t.device, hash |-> [sha256 |-> t.hash.sha256]]
  BY <1>1 DEF TokenRow
<1>3. CASE Quiet
  BY <1>1, <1>2, <1>3 DEF Quiet, TokensInv, UserIDs
<1>4. ASSUME NEW c \in Calls, Creates(c)
      PROVE  TokensInv'
  BY <1>4 DEF Creates, CreateUser, TokensInv, UserIDs
<1>5. ASSUME NEW c \in Calls, Stores(c)
      PROVE  TokensInv'
  <2> DEFINE d == call[c].device
             moved(t) == [t EXCEPT !.user = call[c].user, !.hash = hashToken(nextToken)]
             new == [id |-> nextToken, user |-> call[c].user, device |-> d,
                     hash |-> hashToken(nextToken)]
  <2>1. UNCHANGED UserIDs /\ call[c].user \in UserIDs /\ nextToken' = nextToken + 1
    BY <1>5 DEF Stores, UpsertActiveToken, UserIDs
  <2>2. hashToken(nextToken).sha256 = nextToken
    BY DEF hashToken
  <2>3. CASE \E t \in userTokens : t.device = d
    <3>1. userTokens' = {IF t.device = d THEN moved(t) ELSE t : t \in userTokens}
      BY <1>5, <2>3 DEF Stores, UpsertActiveToken
    <3>2. \A t \in userTokens : /\ moved(t).id = t.id /\ moved(t).device = t.device
                              /\ moved(t).user = call[c].user
                              /\ moved(t).hash = hashToken(nextToken)
      BY <1>1 DEF TokenRow
    <3> HIDE DEF moved
    <3>3. QED
      BY <1>1, <1>2, <2>1, <2>2, <3>1, <3>2 DEF TokensInv
  <2>4. CASE ~\E t \in userTokens : t.device = d
    <3>1. userTokens' = userTokens \cup {new}
      BY <1>5, <2>4 DEF Stores, UpsertActiveToken
    <3>2. /\ new.id = nextToken /\ new.user = call[c].user /\ new.device = d
          /\ new.hash = hashToken(nextToken)
      OBVIOUS
    <3> HIDE DEF new
    <3>3. QED
      BY <1>1, <1>2, <2>1, <2>2, <2>4, <3>1, <3>2 DEF TokensInv
  <2>5. QED
    BY <2>3, <2>4
<1>6. ASSUME NEW c \in Calls, Rotates(c)
      PROVE  TokensInv'
  BY <1>1, <1>2, <1>6 DEF Rotates, RotateToken, TokensInv, UserIDs, hashToken, TokenRow
<1>7. ASSUME NEW c \in Calls, Schedules(c)
      PROVE  TokensInv'
  BY <1>7 DEF Schedules, TokensInv, UserIDs
<1>8. ASSUME NEW B \in SUBSET Due, Claims(B)
      PROVE  TokensInv'
  BY <1>8 DEF Claims, TokensInv, UserIDs
<1>9. ASSUME NEW id \in claimed, Deletes(id)
      PROVE  TokensInv'
  BY <1>9 DEF Deletes, DeleteUserByID, TokensInv, UserIDs
<1>10. QED
  BY <1>3, <1>4, <1>5, <1>6, <1>7, <1>8, <1>9, Effects

LEMMA PendingStep ==
  ASSUME Typed, PendingInv, [Next]_vars
  PROVE  PendingInv'
<1> USE DEF PendingInv, ClaimedUsersExist, UserIDs
<1>1. CASE Quiet
  BY <1>1 DEF Quiet
<1>2. ASSUME NEW c \in Calls, Creates(c)
      PROVE  PendingInv'
  BY <1>2 DEF Creates, CreateUser
<1>3. ASSUME NEW c \in Calls, Stores(c) \/ Rotates(c)
      PROVE  PendingInv'
  BY <1>3 DEF Stores, Rotates
<1>4. ASSUME NEW c \in Calls, Schedules(c)
      PROVE  PendingInv'
  <2> DEFINE new == [user |-> call[c].user, deleteAt |-> call[c].deleteAt, started |-> FALSE]
  <2>1. /\ pendingDeletions' = {p \in pendingDeletions : p.user # call[c].user} \cup {new}
        /\ call[c].user \in UserIDs /\ UNCHANGED <<users, claimed>>
    BY <1>4 DEF Schedules, Upsert
  <2>2. new.user = call[c].user
    OBVIOUS
  <2> HIDE DEF new
  <2>3. QED
    BY <2>1, <2>2
<1>5. ASSUME NEW B \in SUBSET Due, Claims(B)
      PROVE  PendingInv'
  <2>1. \A p \in pendingDeletions : [p EXCEPT !.started = TRUE].user = p.user
    BY DEF Typed, TypeOK, PendingRow
  <2>2. B \subseteq pendingDeletions
    BY DEF Due
  <2> DEFINE mark(p) == IF p \in B THEN [p EXCEPT !.started = TRUE] ELSE p
  <2>3. \A p \in pendingDeletions : mark(p).user = p.user
    BY <2>1
  <2>4. pendingDeletions' = {mark(p) : p \in pendingDeletions} /\ UNCHANGED users
    BY <1>5 DEF Claims, ClaimDue
  <2> HIDE DEF mark
  <2>5. \A p \in pendingDeletions' : \E q \in pendingDeletions : p = mark(q) /\ p.user = q.user
    BY <2>3, <2>4
  <2>6. ClaimedUsersExist'
    BY <1>5, <2>2, <2>4 DEF Claims
  <2>7. QED
    BY <2>4, <2>5, <2>6
<1>6. ASSUME NEW id \in claimed, Deletes(id)
      PROVE  PendingInv'
  BY <1>6 DEF Deletes, DeleteUserByID
<1>7. QED
  BY <1>1, <1>2, <1>3, <1>4, <1>5, <1>6, Effects

\* What a step does to the accounts, more precisely than Effects: it creates
\* one, schedules or cancels its deletion, claims some or deletes one the
\* worker holds, or at most makes the worker forget what it holds.

NothingButForgets ==
  /\ UNCHANGED <<users, nextUserID, pendingDeletions>>
  /\ claimed' \subseteq claimed

Cancels(c) ==
  /\ pendingDeletions' = pendingDeletions \ Cancellable(call[c].user)
  /\ UNCHANGED <<users, nextUserID, claimed>>

ClaimsAll(B) ==
  /\ claimed = {}
  /\ ClaimDue(B)
  /\ claimed' \in {{p.user : p \in B}, {}}
  /\ UNCHANGED <<users, nextUserID>>

LEMMA AccountEffects ==
  ASSUME PendingInv, [Next]_vars
  PROVE  \/ NothingButForgets
         \/ \E c \in Calls : Creates(c) \/ Schedules(c) \/ Cancels(c)
         \/ \E B \in SUBSET Due : ClaimsAll(B)
         \/ \E id \in claimed : Deletes(id)
<1> USE DEF dbVars, tables, workerVars
<1>1. ASSUME NEW c \in Calls, Request(c)
      PROVE  NothingButForgets
  BY <1>1 DEF Request, Register, LoginByCredentials, LoginByToken, ScheduleAccountDeletion,
              CancelAccountDeletion, Begin, NothingButForgets
<1>2. ASSUME NEW c \in Calls,
             UsernameExists(c) \/ CheckUsernameAvailable(c) \/ SetUsername(c)
               \/ VerifyCredentials(c) \/ RejectIfPendingDeletion(c) \/ FindToken(c)
               \/ IssueToken(c) \/ Rotate(c)
               \/ CancelCheck(c) \/ Collect(c) \/ StatementFails(c)
      PROVE  NothingButForgets
  BY <1>2 DEF UsernameExists, CheckUsernameAvailable, SetUsername, VerifyCredentials,
              RejectIfPendingDeletion, FindToken, IssueToken, Rotate, CancelCheck, Collect,
              StatementFails, NothingButForgets
<1>3. ASSUME NEW c \in Calls, RegisterCreateUser(c)
      PROVE  NothingButForgets \/ Creates(c)
  BY <1>3 DEF RegisterCreateUser, NothingButForgets, Creates
<1>4. ASSUME NEW c \in Calls, UpsertDeletion(c)
      PROVE  NothingButForgets \/ Schedules(c)
  BY <1>4 DEF UpsertDeletion, Return, LostAnswer, Fail, NothingButForgets, Schedules
<1>5. ASSUME NEW c \in Calls, CancelDelete(c)
      PROVE  Cancels(c)
  BY <1>5 DEF CancelDelete, Cancels
<1>6. ASSUME WorkerClaim
      PROVE  \E B \in SUBSET Due : ClaimsAll(B)
  <2>1. PICK B \in ClaimBatches(ClaimLimit) :
          /\ ClaimDue(B)
          /\ \/ claimed' = {p.user : p \in B} /\ Answered
             \/ claimed' = {} /\ faults < MaxFaults /\ faults' = faults + 1
    BY <1>6 DEF WorkerClaim
  <2>2. B \in SUBSET Due
    BY DEF ClaimBatches
  <2>3. ClaimsAll(B)
    BY <1>6, <2>1 DEF WorkerClaim, WorkerIdle, ClaimsAll
  <2>4. QED
    BY <2>2, <2>3
<1>7. ASSUME WorkerDelete
      PROVE  \E id \in claimed : Deletes(id)
  BY <1>7 DEF WorkerDelete, PendingInv, ClaimedUsersExist, Deletes
<1>8. ASSUME WorkerUncache \/ WorkerDeleteFails \/ Tick \/ Crash \/ UNCHANGED vars
      PROVE  NothingButForgets
  BY <1>8 DEF WorkerUncache, WorkerDeleteFails, Tick, Crash, vars, NothingButForgets
<1>9. QED
  BY <1>1, <1>2, <1>3, <1>4, <1>5, <1>6, <1>7, <1>8 DEF Next, Step, Worker

-----------------------------------------------------------------------------
(* The local variables of calls. *)

\* What a step makes of the locals of a call: they stay, are reset, come from a
\* row just read, or name the account just created.
LocalsKept(d) == pc'[d] = pc[d] /\ call'[d] = call[d]

LocalsMoved(d) ==
  /\ pc'[d] # "Upsert"
  /\ \/ call'[d].user \in {0, call[d].user} \cup UserIDs \cup {t.user : t \in userTokens}
     \/ call'[d].user = nextUserID /\ nextUserID' = nextUserID + 1

LocalsRead(d) ==
  /\ pc'[d] = "Upsert"
  /\ call'[d].user \in UserIDs
  /\ call'[d].deleteAt = now + Delay
  /\ UNCHANGED users

LEMMA LocalsStep ==
  ASSUME Typed, [Next]_vars, NEW d \in Calls
  PROVE  LocalsKept(d) \/ LocalsMoved(d) \/ LocalsRead(d)
<1> USE DEF Typed, TypeOK
<1>0. \A c \in Calls : call[c] \in CallRecord
  OBVIOUS
<1>1. ASSUME NEW c \in Calls, NEW r, Return(c, r)
      PROVE  LocalsKept(d) \/ LocalsMoved(d)
  BY <1>1 DEF Return, NoCall, LocalsKept, LocalsMoved
<1>2. ASSUME NEW c \in Calls, NEW e, Fail(c, e)
      PROVE  LocalsKept(d) \/ LocalsMoved(d)
  BY <1>1, <1>2 DEF Fail
<1>3. ASSUME NEW c \in Calls, NEW s, Goto(c, s), s # "Upsert"
      PROVE  LocalsKept(d) \/ LocalsMoved(d)
  BY <1>3 DEF Goto, LocalsKept, LocalsMoved
<1>4. ASSUME NEW c \in Calls, NEW s, NEW r, GotoWith(c, s, r), s # "Upsert",
             \/ r.user \in {0} \cup UserIDs \cup {t.user : t \in userTokens}
             \/ r.user = nextUserID /\ nextUserID' = nextUserID + 1
      PROVE  LocalsKept(d) \/ LocalsMoved(d)
  BY <1>4 DEF GotoWith, LocalsKept, LocalsMoved
<1>5. ASSUME NEW c \in Calls, Request(c)
      PROVE  LocalsKept(d) \/ LocalsMoved(d)
  <2>1. ASSUME NEW a, NEW e, NEW s, Begin(c, a, e, s), s # "Upsert", a.user = 0
        PROVE  LocalsKept(d) \/ LocalsMoved(d)
    BY <1>1, <1>4, <2>1 DEF Begin
  <2>2. CASE Register(c)
    BY <2>1, <2>2 DEF Register, Args
  <2>3. CASE LoginByCredentials(c)
    BY <2>1, <2>3 DEF LoginByCredentials, Args
  <2>4. CASE LoginByToken(c)
    BY <2>1, <2>4 DEF LoginByToken, Args
  <2>5. CASE ScheduleAccountDeletion(c)
    BY <2>1, <2>5 DEF ScheduleAccountDeletion, Args
  <2>6. CASE CancelAccountDeletion(c)
    BY <2>1, <2>6 DEF CancelAccountDeletion, Args
  <2>7. QED
    BY <1>5, <2>2, <2>3, <2>4, <2>5, <2>6 DEF Request
<1>6. ASSUME NEW c \in Calls, UsernameExists(c) \/ CheckUsernameAvailable(c) \/ SetUsername(c)
      PROVE  LocalsKept(d) \/ LocalsMoved(d)
  BY <1>2, <1>3, <1>6 DEF UsernameExists, CheckUsernameAvailable, SetUsername
<1>7. ASSUME NEW c \in Calls, RegisterCreateUser(c)
      PROVE  LocalsKept(d) \/ LocalsMoved(d)
  <2>1. [call[c] EXCEPT !.user = nextUserID].user = nextUserID
    BY <1>0 DEF CallRecord
  <2>2. QED
    BY <1>2, <1>4, <1>7, <2>1 DEF RegisterCreateUser, CreateUser, LostAnswer
<1>8. ASSUME NEW c \in Calls, IssueToken(c) \/ Rotate(c) \/ UpsertDeletion(c) \/ CancelCheck(c)
      PROVE  LocalsKept(d) \/ LocalsMoved(d)
  BY <1>1, <1>2, <1>8 DEF IssueToken, Rotate, UpsertDeletion, CancelCheck, LostAnswer
<1>9. ASSUME NEW c \in Calls, VerifyCredentials(c)
      PROVE  LocalsKept(d) \/ LocalsMoved(d) \/ LocalsRead(d)
  <2> DEFINE locals(u) == [call[c] EXCEPT !.user = u.id,
                             !.deleteAt = IF call[c].op = "ScheduleAccountDeletion"
                                          THEN now + Delay ELSE 0]
  <2>1. ASSUME NEW u \in users, GotoWith(c, AfterVerify(call[c].op), locals(u))
        PROVE  LocalsKept(d) \/ LocalsMoved(d) \/ LocalsRead(d)
    <3>1. u.id \in UserIDs /\ locals(u).user = u.id
      BY <1>0 DEF UserIDs, CallRecord
    <3>2. CASE AfterVerify(call[c].op) = "Upsert"
      <4>1. call[c].op = "ScheduleAccountDeletion"
        BY <3>2 DEF AfterVerify
      <4>2. locals(u).deleteAt = now + Delay
        BY <1>0, <4>1 DEF CallRecord
      <4>3. UNCHANGED users
        BY <1>9 DEF VerifyCredentials, dbVars
      <4> HIDE DEF locals
      <4>4. QED
        BY <2>1, <3>1, <3>2, <4>2, <4>3 DEF GotoWith, LocalsKept, LocalsRead
    <3> HIDE DEF locals
    <3>3. CASE AfterVerify(call[c].op) # "Upsert"
      BY <1>4, <2>1, <3>1, <3>3
    <3>4. QED
      BY <3>2, <3>3
  <2>2. QED
    BY <1>2, <1>9, <2>1 DEF VerifyCredentials, GetUserByUsername
<1>10. ASSUME NEW c \in Calls, RejectIfPendingDeletion(c) \/ CancelDelete(c)
      PROVE  LocalsKept(d) \/ LocalsMoved(d)
  BY <1>1, <1>2, <1>3, <1>10 DEF RejectIfPendingDeletion, CancelDelete, LostAnswer
<1>11. ASSUME NEW c \in Calls, FindToken(c)
      PROVE  LocalsKept(d) \/ LocalsMoved(d)
  <2> DEFINE locals(t) == [call[c] EXCEPT !.user = t.user, !.device = t.device, !.tokenID = t.id]
  <2>1. ASSUME NEW t \in userTokens, GotoWith(c, "ExistsActiveByUserID", locals(t))
        PROVE  LocalsKept(d) \/ LocalsMoved(d)
    <3>1. locals(t).user = t.user
      BY <1>0 DEF CallRecord
    <3> HIDE DEF locals
    <3>2. QED
      BY <1>4, <2>1, <3>1
  <2>2. QED
    BY <1>2, <1>11, <2>1 DEF FindToken, GetActiveByTokenHash
<1>12. ASSUME NEW c \in Calls, Collect(c) \/ StatementFails(c)
      PROVE  LocalsKept(d) \/ LocalsMoved(d)
  BY <1>2, <1>12 DEF Collect, StatementFails, LocalsKept, LocalsMoved
<1>13. CASE Crash
  BY <1>13 DEF Crash, NoCall, LocalsMoved
<1>14. CASE Worker \/ WorkerDeleteFails \/ Tick \/ UNCHANGED vars
  BY <1>14 DEF Worker, WorkerClaim, WorkerDelete, WorkerUncache, WorkerDeleteFails, Tick, vars,
               callVars, LocalsKept
<1>15. QED
  BY <1>5, <1>6, <1>7, <1>8, <1>9, <1>10, <1>11, <1>12, <1>13, <1>14 DEF Next, Step

-----------------------------------------------------------------------------
(* Notice.  A deletion date is Delay after a moment at which the account   *)
(* already existed; the worker only holds accounts whose date has come.    *)
(* The date is carried from the clock through a local variable to the row, *)
(* and from the row to the worker's slice, so each of the three is         *)
(* related to the account's creation.                                      *)

NoticeInv ==
  /\ \A c \in Calls : call[c].user < nextUserID
  /\ \A c \in Calls, u \in users :
       pc[c] = "Upsert" /\ call[c].user = u.id => u.createdAt + Delay <= call[c].deleteAt
  /\ \A p \in pendingDeletions, u \in users :
       p.user = u.id => u.createdAt + Delay <= p.deleteAt
  /\ \A u \in users : u.id \in claimed => u.createdAt + Delay <= now

IndInv == Typed /\ UsersInv /\ TokensInv /\ PendingInv /\ NoticeInv

LEMMA NoticeStep ==
  ASSUME IndInv, [Next]_vars
  PROVE  NoticeInv'
<1>1. /\ now \in Nat /\ Delay \in Nat /\ nextUserID \in Nat
      /\ \A u \in users : u.id \in Nat /\ u.createdAt \in Nat
      /\ \A p \in pendingDeletions : p.user \in Nat /\ p.deleteAt \in Nat
      /\ \A c \in Calls : call[c].user \in Nat /\ call[c].deleteAt \in Nat
  BY DelayAssumption, CallFields DEF IndInv, Typed, TypeOK, UserRow, PendingRow
<1>2. /\ \A u \in users : u.id < nextUserID /\ u.createdAt <= now
      /\ \A t \in userTokens : t.user \in UserIDs
      /\ claimed \subseteq UserIDs
      /\ \A p \in pendingDeletions : p.user < nextUserID
  BY DEF IndInv, UsersInv, TokensInv, PendingInv, ClaimedUsersExist, UserIDs
<1>3. \A u \in users' :
        \/ u \in users
        \/ u.id = nextUserID /\ nextUserID' = nextUserID + 1
  BY Effects DEF Quiet, Creates, CreateUser, Stores, Rotates, Schedules, Claims, Deletes,
                 DeleteUserByID
<1>4. nextUserID' \in {nextUserID, nextUserID + 1} /\ now' \in {now, now + 1}
  BY Effects DEF Quiet, Creates, CreateUser, Stores, Rotates, Schedules, Claims, Deletes
<1>5. 0 < nextUserID
  BY DEF IndInv, UsersInv
<1>6. \A c \in Calls : call'[c].user < nextUserID'
  <2> TAKE c \in Calls
  <2>1. call[c].user < nextUserID
    BY DEF IndInv, NoticeInv
  <2>2. CASE LocalsKept(c)
    BY <1>1, <1>4, <2>1, <2>2 DEF LocalsKept
  <2>3. CASE LocalsMoved(c)
    BY <1>1, <1>2, <1>4, <1>5, <2>1, <2>3 DEF LocalsMoved, UserIDs
  <2>4. CASE LocalsRead(c)
    BY <1>1, <1>2, <1>4, <2>4 DEF LocalsRead, UserIDs
  <2>5. QED
    BY <2>2, <2>3, <2>4, LocalsStep DEF IndInv
<1>7. \A c \in Calls, u \in users' :
        pc'[c] = "Upsert" /\ call'[c].user = u.id => u.createdAt + Delay <= call'[c].deleteAt
  <2> SUFFICES ASSUME NEW c \in Calls, NEW u \in users', pc'[c] = "Upsert",
                      call'[c].user = u.id
               PROVE  u.createdAt + Delay <= call'[c].deleteAt
    OBVIOUS
  <2>1. CASE LocalsKept(c)
    <3>1. call[c].user < nextUserID
      BY DEF IndInv, NoticeInv
    <3>2. u \in users
      BY <1>1, <1>3, <2>1, <3>1 DEF LocalsKept
    <3>3. QED
      BY <2>1, <3>2 DEF LocalsKept, IndInv, NoticeInv
  <2>2. CASE LocalsRead(c)
    BY <1>1, <1>2, <2>2 DEF LocalsRead
  <2>3. QED
    BY <2>1, <2>2, LocalsStep DEF LocalsMoved, IndInv
<1>8. \A p \in pendingDeletions', u \in users' :
        p.user = u.id => u.createdAt + Delay <= p.deleteAt
  <2> SUFFICES ASSUME NEW p \in pendingDeletions', NEW u \in users', p.user = u.id
               PROVE  u.createdAt + Delay <= p.deleteAt
    OBVIOUS
  <2>1. CASE \E q \in pendingDeletions : q.user = p.user /\ q.deleteAt = p.deleteAt
    <3>1. PICK q \in pendingDeletions : q.user = p.user /\ q.deleteAt = p.deleteAt
      BY <2>1
    <3>2. u \in users
      BY <1>1, <1>2, <1>3, <3>1
    <3>3. QED
      BY <3>1, <3>2 DEF IndInv, NoticeInv
  <2>2. ASSUME NEW c \in Calls, Schedules(c)
        PROVE  u.createdAt + Delay <= p.deleteAt
    <3>1. /\ u \in users /\ pc[c] = "Upsert"
          /\ \/ p \in pendingDeletions
             \/ p = [user |-> call[c].user, deleteAt |-> call[c].deleteAt, started |-> FALSE]
      BY <2>2 DEF Schedules, Upsert
    <3>2. CASE p \in pendingDeletions
      BY <2>1, <3>2
    <3>3. CASE p = [user |-> call[c].user, deleteAt |-> call[c].deleteAt, started |-> FALSE]
      BY <3>1, <3>3 DEF IndInv, NoticeInv
    <3>4. QED
      BY <3>1, <3>2, <3>3
  <2>3. ASSUME NEW B \in SUBSET Due, Claims(B)
        PROVE  \E q \in pendingDeletions : q.user = p.user /\ q.deleteAt = p.deleteAt
    <3>1. PICK q \in pendingDeletions : p = IF q \in B THEN [q EXCEPT !.started = TRUE] ELSE q
      BY <2>3 DEF Claims, ClaimDue
    <3>2. [q EXCEPT !.started = TRUE].user = q.user
          /\ [q EXCEPT !.started = TRUE].deleteAt = q.deleteAt
      BY DEF IndInv, Typed, TypeOK, PendingRow
    <3>3. QED
      BY <3>1, <3>2
  <2>4. CASE p \in pendingDeletions
    BY <2>1, <2>4
  <2>5. QED
    BY <2>1, <2>2, <2>3, <2>4, Effects
       DEF Quiet, Creates, Stores, Rotates, Deletes, DeleteUserByID
<1>9. \A u \in users' : u.id \in claimed' => u.createdAt + Delay <= now'
  <2> SUFFICES ASSUME NEW u \in users', u.id \in claimed'
               PROVE  u.createdAt + Delay <= now'
    OBVIOUS
  <2>1. CASE u.id \in claimed
    <3>1. u \in users
      BY <1>1, <1>2, <1>3, <2>1 DEF UserIDs
    <3>2. QED
      BY <1>1, <1>4, <2>1, <3>1 DEF IndInv, NoticeInv
  <2>2. ASSUME NEW B \in SUBSET Due, Claims(B)
        PROVE  u.createdAt + Delay <= now'
    <3>1. PICK p \in B : u.id = p.user
      BY <2>2 DEF Claims
    <3>2. p \in pendingDeletions /\ p.deleteAt <= now /\ u \in users /\ now' = now
      BY <2>2 DEF Claims, Due
    <3>3. QED
      BY <1>1, <3>1, <3>2 DEF IndInv, NoticeInv
  <2>3. QED
    BY <2>1, <2>2, Effects DEF Quiet, Creates, Stores, Rotates, Schedules, Deletes
<1>10. QED
  BY <1>6, <1>7, <1>8, <1>9 DEF NoticeInv

-----------------------------------------------------------------------------
(* The invariant, and what follows from it. *)

LEMMA IndInvInit == Init => IndInv
BY TypedInit DEF Init, InitDatabase, IndInv, UsersInv, UsernameUnique, TokensInv, PendingInv,
                 ClaimedUsersExist, NoticeInv, NoCall, UserIDs

LEMMA IndInvStep == IndInv /\ [Next]_vars => IndInv'
BY TypedStep, UsersStep, TokensStep, PendingStep, NoticeStep DEF IndInv

LEMMA Invariance == Spec => []IndInv
BY IndInvInit, IndInvStep, PTL DEF Spec

\* Two racing registrations never both create an account: at every moment a
\* username belongs to at most one account, for any number of calls.
THEOREM UsernamesAreUnique == Spec => []UsernameUnique
<1>1. IndInv => UsernameUnique
  BY DEF IndInv, UsersInv
<1>2. QED
  BY <1>1, Invariance, PTL

\* Token and deletion rows refer to accounts that exist, with one row per device
\* and one per account, whatever the worker deletes in the meantime.
THEOREM TablesAreConsistent == Spec => []RowsConsistent
<1>1. IndInv => RowsConsistent
  BY DEF IndInv, TokensInv, PendingInv, RowsConsistent
<1>2. QED
  BY <1>1, Invariance, PTL

\* The worker never meets ErrUserNotFound: what it has claimed still exists.
THEOREM WorkerFindsClaimedUsers == Spec => []ClaimedUsersExist
<1>1. IndInv => ClaimedUsersExist
  BY DEF IndInv, PendingInv
<1>2. QED
  BY <1>1, Invariance, PTL

\* No account is deleted less than AccountDeletionDelay after it was created,
\* for any delay, batch size and number of calls, failures and crashes.
THEOREM DeletionRespectsDelay == Spec => AccountLivesAtLeastDelay
<1> DEFINE Lives == \A u \in users : u \notin users' => u.createdAt + Delay <= now
<1>1. IndInv /\ [Next]_vars => [Lives]_vars
  <2> SUFFICES ASSUME IndInv, [Next]_vars, NEW u \in users, u \notin users'
               PROVE  u.createdAt + Delay <= now
    OBVIOUS
  <2>1. PICK id \in claimed : Deletes(id)
    BY Effects DEF Quiet, Creates, CreateUser, Stores, Rotates, Schedules, Claims
  <2>2. u.id = id
    BY <2>1 DEF Deletes, DeleteUserByID
  <2>3. QED
    BY <2>2 DEF IndInv, NoticeInv
<1>2. QED
  BY <1>1, Invariance, PTL DEF Spec, AccountLivesAtLeastDelay

-----------------------------------------------------------------------------
(* The username cache.  SetUsername writes a name some time after the      *)
(* account was created, so CacheAccurate needs the account to be there     *)
(* still: a registration is over within RequestSpan, the account lives at  *)
(* least Delay, and RequestSpan < Delay.                                   *)

\* A call under way began at most RequestSpan ago.
TimelyInv ==
  \A c \in Calls : Busy(c) => call[c].at <= now /\ now <= call[c].at + RequestSpan

\* Between CreateUser and SetUsername a registration's account exists.
CreatedInv ==
  \A c \in Calls : pc[c] = "SetUsername" =>
    \E u \in users : /\ u.id = call[c].user
                     /\ u.username = call[c].username
                     /\ call[c].at <= u.createdAt

\* How a step changes what the two invariants say of a call.
AtKept(d) == LocalsKept(d) /\ (now' = now \/ now < call[d].at + RequestSpan)

AtMoved(d) ==
  /\ now' = now
  /\ pc'[d] # "SetUsername"
  /\ call'[d].at = now \/ (Busy(d) /\ call'[d].at = call[d].at)

AtCreated(d) ==
  /\ now' = now
  /\ Creates(d)
  /\ call'[d] = [call[d] EXCEPT !.user = nextUserID]

LEMMA TimeStep ==
  ASSUME Typed, [Next]_vars, NEW d \in Calls, pc'[d] \notin {"idle", "done"}
  PROVE  AtKept(d) \/ AtMoved(d) \/ AtCreated(d)
<1> USE DEF Typed, TypeOK
<1>0. \A c \in Calls : call[c] \in CallRecord
  OBVIOUS
<1>1. ASSUME NEW c \in Calls, NEW r, Return(c, r), now' = now
      PROVE  AtKept(d)
  BY <1>1 DEF Return, AtKept, LocalsKept
<1>2. ASSUME NEW c \in Calls, NEW e, Fail(c, e), now' = now
      PROVE  AtKept(d)
  BY <1>1, <1>2 DEF Fail
<1>3. ASSUME NEW c \in Calls, NEW s, Goto(c, s), s # "SetUsername", Busy(c), now' = now
      PROVE  AtKept(d) \/ AtMoved(d)
  BY <1>3 DEF Goto, AtKept, AtMoved, LocalsKept
<1>4. ASSUME NEW c \in Calls, NEW s, NEW r, GotoWith(c, s, r), s # "SetUsername", now' = now,
             r.at = now \/ (Busy(c) /\ r.at = call[c].at)
      PROVE  AtKept(d) \/ AtMoved(d)
  BY <1>4 DEF GotoWith, AtKept, AtMoved, LocalsKept
<1>5. ASSUME NEW c \in Calls, Request(c)
      PROVE  AtKept(d) \/ AtMoved(d)
  <2>1. ASSUME NEW a, NEW e, NEW s, Begin(c, a, e, s), s # "SetUsername", a.at = now
        PROVE  AtKept(d) \/ AtMoved(d)
    <3>1. now' = now /\ s # "SetUsername" /\ a.at = now
      BY <2>1 DEF Begin, dbVars
    <3>2. Return(c, Failure(a.op, e)) \/ GotoWith(c, s, a)
      BY <2>1 DEF Begin
    <3>3. CASE Return(c, Failure(a.op, e))
      BY <1>1, <3>1, <3>3
    <3>4. CASE GotoWith(c, s, a)
      BY <1>4, <3>1, <3>4
    <3>5. QED
      BY <3>2, <3>3, <3>4
  <2>2. CASE Register(c)
    BY <2>1, <2>2 DEF Register, Args
  <2>3. CASE LoginByCredentials(c)
    BY <2>1, <2>3 DEF LoginByCredentials, Args
  <2>4. CASE LoginByToken(c)
    BY <2>1, <2>4 DEF LoginByToken, Args
  <2>5. CASE ScheduleAccountDeletion(c)
    BY <2>1, <2>5 DEF ScheduleAccountDeletion, Args
  <2>6. CASE CancelAccountDeletion(c)
    BY <2>1, <2>6 DEF CancelAccountDeletion, Args
  <2>7. QED
    BY <1>5, <2>2, <2>3, <2>4, <2>5, <2>6 DEF Request
<1>6. ASSUME NEW c \in Calls, UsernameExists(c) \/ CheckUsernameAvailable(c) \/ SetUsername(c)
      PROVE  AtKept(d) \/ AtMoved(d)
  BY <1>2, <1>3, <1>6 DEF UsernameExists, CheckUsernameAvailable, SetUsername, Busy, dbVars
<1>7. ASSUME NEW c \in Calls, RegisterCreateUser(c)
      PROVE  AtKept(d) \/ AtCreated(d)
  <2>1. CASE Creates(c) /\ GotoWith(c, "SetUsername", [call[c] EXCEPT !.user = nextUserID])
    BY <1>7, <2>1 DEF RegisterCreateUser, GotoWith, AtKept, LocalsKept, AtCreated
  <2>2. QED
    BY <1>2, <1>7, <2>1 DEF RegisterCreateUser, LostAnswer, Creates, workerVars
<1>8. ASSUME NEW c \in Calls, IssueToken(c) \/ Rotate(c) \/ UpsertDeletion(c) \/ CancelCheck(c)
      PROVE  AtKept(d)
  BY <1>1, <1>2, <1>8 DEF IssueToken, Rotate, UpsertDeletion, CancelCheck, LostAnswer, dbVars
<1>9. ASSUME NEW c \in Calls, VerifyCredentials(c)
      PROVE  AtKept(d) \/ AtMoved(d)
  <2> DEFINE locals(u) == [call[c] EXCEPT !.user = u.id,
                             !.deleteAt = IF call[c].op = "ScheduleAccountDeletion"
                                          THEN now + Delay ELSE 0]
  <2>1. \A u \in users : locals(u).at = call[c].at
    BY <1>0 DEF CallRecord
  <2>2. AfterVerify(call[c].op) # "SetUsername" /\ Busy(c) /\ now' = now
    BY <1>9 DEF AfterVerify, VerifyCredentials, Busy, dbVars
  <2>3. \/ \E u \in users : GotoWith(c, AfterVerify(call[c].op), locals(u))
        \/ Fail(c, "ErrInvalidCredentials")
    BY <1>9 DEF VerifyCredentials, GetUserByUsername
  <2> HIDE DEF locals
  <2>4. QED
    BY <1>2, <1>4, <2>1, <2>2, <2>3
<1>10. ASSUME NEW c \in Calls, RejectIfPendingDeletion(c) \/ CancelDelete(c)
      PROVE  AtKept(d) \/ AtMoved(d)
  BY <1>1, <1>2, <1>3, <1>10
     DEF RejectIfPendingDeletion, CancelDelete, LostAnswer, Busy, dbVars
<1>11. ASSUME NEW c \in Calls, FindToken(c)
      PROVE  AtKept(d) \/ AtMoved(d)
  <2> DEFINE locals(t) == [call[c] EXCEPT !.user = t.user, !.device = t.device, !.tokenID = t.id]
  <2>1. \A t \in userTokens : locals(t).at = call[c].at
    BY <1>0 DEF CallRecord
  <2>2. Busy(c) /\ now' = now
    BY <1>11 DEF FindToken, Busy, dbVars
  <2>3. \/ \E t \in userTokens : GotoWith(c, "ExistsActiveByUserID", locals(t))
        \/ Fail(c, "ErrInvalidToken")
    BY <1>11 DEF FindToken, GetActiveByTokenHash
  <2> HIDE DEF locals
  <2>4. QED
    BY <1>2, <1>4, <2>1, <2>2, <2>3
<1>12. ASSUME NEW c \in Calls, Collect(c) \/ StatementFails(c)
      PROVE  AtKept(d)
  BY <1>2, <1>12 DEF Collect, StatementFails, AtKept, LocalsKept, dbVars
<1>13. CASE Tick
  BY <1>13 DEF Tick, Busy, callVars, AtKept, LocalsKept
<1>14. CASE Worker \/ WorkerDeleteFails \/ UNCHANGED vars
  BY <1>14 DEF Worker, WorkerClaim, WorkerDelete, WorkerUncache, WorkerDeleteFails, vars,
               callVars, dbVars, AtKept, LocalsKept
<1>15. QED
  BY <1>5, <1>6, <1>7, <1>8, <1>9, <1>10, <1>11, <1>12, <1>13, <1>14 DEF Next, Step, Crash

LEMMA TimelyStep ==
  ASSUME Typed, TimelyInv, [Next]_vars
  PROVE  TimelyInv'
<1> SUFFICES ASSUME NEW c \in Calls, pc'[c] \notin {"idle", "done"}
             PROVE  call'[c].at <= now' /\ now' <= call'[c].at + RequestSpan
  BY DEF TimelyInv, Busy
<1>1. now \in Nat /\ RequestSpan \in Nat /\ call[c].at \in Nat
  BY DelayAssumption DEF Typed, TypeOK, CallRecord
<1>2. CASE AtKept(c)
  <2>1. now' \in {now, now + 1}
    BY Effects DEF Quiet, Creates, Stores, Rotates, Schedules, Claims, Deletes
  <2>2. QED
    BY <1>1, <1>2, <2>1 DEF AtKept, LocalsKept, TimelyInv, Busy
<1>3. CASE AtMoved(c)
  BY <1>1, <1>3 DEF AtMoved, TimelyInv
<1>4. CASE AtCreated(c)
  <2>1. call'[c].at = call[c].at /\ Busy(c) /\ now' = now
    BY <1>4 DEF AtCreated, Creates, Busy, Typed, TypeOK, CallRecord
  <2>2. QED
    BY <2>1 DEF TimelyInv
<1>5. QED
  BY <1>2, <1>3, <1>4, TimeStep

LEMMA CreatedStep ==
  ASSUME IndInv, TimelyInv, CreatedInv, [Next]_vars
  PROVE  CreatedInv'
<1> SUFFICES ASSUME NEW c \in Calls, pc'[c] = "SetUsername"
             PROVE  \E u \in users' : /\ u.id = call'[c].user
                                      /\ u.username = call'[c].username
                                      /\ call'[c].at <= u.createdAt
  BY DEF CreatedInv
<1>1. now \in Nat /\ call[c].at \in Nat /\ RequestSpan \in Nat /\ Delay \in Nat
        /\ RequestSpan < Delay /\ \A u \in users : u.createdAt \in Nat
  BY DelayAssumption DEF IndInv, Typed, TypeOK, CallRecord, UserRow
<1>2. CASE AtKept(c)
  <2>1. PICK u \in users : /\ u.id = call[c].user
                           /\ u.username = call[c].username
                           /\ call[c].at <= u.createdAt
    BY <1>2 DEF AtKept, LocalsKept, CreatedInv
  <2>2. now <= call[c].at + RequestSpan
    BY <1>2 DEF AtKept, LocalsKept, TimelyInv, Busy
  <2>3. u.id \notin claimed
    BY <1>1, <2>1, <2>2 DEF IndInv, NoticeInv
  <2>4. u \in users'
    BY <2>3, Effects DEF Quiet, Creates, CreateUser, Stores, Rotates, Schedules, Claims,
                         Deletes, DeleteUserByID
  <2>5. QED
    BY <1>2, <2>1, <2>4 DEF AtKept, LocalsKept
<1>3. CASE AtCreated(c)
  <2> DEFINE row == [id |-> nextUserID, username |-> call[c].username,
                     passwordHash |-> hashPassword(call[c].password), createdAt |-> now]
  <2>1. row \in users'
    BY <1>3 DEF AtCreated, Creates, CreateUser
  <2>2. call'[c].user = nextUserID /\ call'[c].username = call[c].username
          /\ call'[c].at = call[c].at
    BY <1>3 DEF AtCreated, IndInv, Typed, TypeOK, CallRecord
  <2>3. call[c].at <= now
    BY <1>3 DEF AtCreated, Creates, TimelyInv, Busy
  <2>4. QED
    BY <2>1, <2>2, <2>3
<1>4. QED
  BY <1>2, <1>3, TimeStep DEF AtMoved, IndInv

\* Failures and crashes are only ever counted up, and only three actions and a
\* crash touch the cache, the accounts it mirrors or the worker's name.
LEMMA CacheEffects ==
  ASSUME Typed, [Next]_vars
  PROVE  \/ UNCHANGED <<usernames, uncaching>> /\ users \subseteq users'
         \/ \E c \in Calls : SetUsername(c)
         \/ WorkerDelete
         \/ WorkerUncache
         \/ Crash
<1> USE DEF dbVars, tables, workerVars
<1>1. ASSUME NEW c \in Calls, Request(c)
      PROVE  UNCHANGED <<usernames, uncaching, users>>
  BY <1>1 DEF Request, Register, LoginByCredentials, LoginByToken, ScheduleAccountDeletion,
              CancelAccountDeletion, Begin
<1>2. ASSUME NEW c \in Calls, Step(c) \/ StatementFails(c), ~SetUsername(c)
      PROVE  UNCHANGED <<usernames, uncaching>> /\ users \subseteq users'
  BY <1>2 DEF Step, UsernameExists, CheckUsernameAvailable, RegisterCreateUser, CreateUser,
              IssueToken, VerifyCredentials, RejectIfPendingDeletion, FindToken, Rotate,
              UpsertDeletion, CancelDelete, CancelCheck, Collect, StatementFails
<1>3. ASSUME WorkerClaim \/ WorkerDeleteFails \/ Tick \/ UNCHANGED vars
      PROVE  UNCHANGED <<usernames, uncaching, users>>
  BY <1>3 DEF WorkerClaim, WorkerDeleteFails, Tick, vars
<1>4. QED
  BY <1>1, <1>2, <1>3 DEF Next, Worker

LEMMA FaultsCount ==
  ASSUME Typed, [Next]_vars, faults' = 0, crashes' = 0
  PROVE  faults = 0 /\ crashes = 0 /\ ~Crash
<1> USE DEF faultVars, Answered
<1>0. faults \in Nat /\ crashes \in Nat
  BY DEF Typed, TypeOK
<1>1. ASSUME NEW c \in Calls, Request(c)
      PROVE  UNCHANGED <<faults, crashes>>
  BY <1>1 DEF Request, Register, LoginByCredentials, LoginByToken, ScheduleAccountDeletion,
              CancelAccountDeletion, Begin
<1>2. ASSUME NEW c \in Calls, Step(c) \/ StatementFails(c)
      PROVE  faults' \in {faults, faults + 1} /\ crashes' = crashes
  BY <1>2 DEF Step, UsernameExists, CheckUsernameAvailable, RegisterCreateUser, SetUsername,
              IssueToken, VerifyCredentials, RejectIfPendingDeletion, FindToken, Rotate,
              UpsertDeletion, CancelDelete, CancelCheck, Collect, StatementFails, LostAnswer
<1>3. ASSUME Worker \/ WorkerDeleteFails \/ Tick \/ Crash \/ UNCHANGED vars
      PROVE  /\ faults' \in {faults, faults + 1} /\ crashes' \in {crashes, crashes + 1}
             /\ Crash => crashes' = crashes + 1
  BY <1>3 DEF Worker, WorkerClaim, WorkerDelete, WorkerUncache, WorkerDeleteFails, Tick, Crash,
              vars
<1>4. Crash => crashes' = crashes + 1
  BY DEF Crash
<1>5. QED
  BY <1>0, <1>1, <1>2, <1>3, <1>4 DEF Next

LEMMA CacheStep ==
  ASSUME IndInv, CreatedInv, CacheAccurate, [Next]_vars
  PROVE  CacheAccurate'
<1> SUFFICES ASSUME faults' = 0, crashes' = 0, NEW n \in usernames'
             PROVE  n = uncaching' \/ \E u \in users' : u.username = n
  BY DEF CacheAccurate
<1>1. faults = 0 /\ crashes = 0 /\ ~Crash
  BY FaultsCount DEF IndInv
<1>2. \A m \in usernames : m = uncaching \/ \E u \in users : u.username = m
  BY <1>1 DEF CacheAccurate
<1>3. CASE UNCHANGED <<usernames, uncaching>> /\ users \subseteq users'
  BY <1>2, <1>3
<1>4. ASSUME NEW c \in Calls, SetUsername(c)
      PROVE  n = uncaching' \/ \E u \in users' : u.username = n
  <2>1. \E u \in users : u.username = call[c].username
    BY <1>4 DEF SetUsername, CreatedInv
  <2>2. QED
    BY <1>2, <1>4, <2>1 DEF SetUsername, tables, workerVars
<1>5. CASE WorkerDelete
  <2>1. n \in usernames /\ uncaching = Blank
    BY <1>5 DEF WorkerDelete
  <2>2. PICK u \in users : u.username = n
    <3>1. n # Blank
      BY <2>1, NamesAssumption DEF IndInv, Typed, TypeOK
    <3>2. QED
      BY <1>2, <2>1, <3>1
  <2>3. CASE u \in users'
    BY <2>2, <2>3
  <2>4. CASE u \notin users'
    <3>1. PICK id \in claimed :
            /\ id \in UserIDs
            /\ DeleteUserByID(id)
            /\ \E v \in users : v.id = id /\ uncaching' = v.username
      BY <1>1, <1>5, <2>4 DEF WorkerDelete, Answered
    <3>2. u.id = id
      BY <2>4, <3>1 DEF DeleteUserByID
    <3>3. uncaching' = u.username
      BY <3>1, <3>2 DEF IndInv, UsersInv
    <3>4. QED
      BY <2>2, <3>3
  <2>5. QED
    BY <2>3, <2>4
<1>6. CASE WorkerUncache
  BY <1>1, <1>2, <1>6 DEF WorkerUncache, tables
<1>7. QED
  BY <1>1, <1>3, <1>4, <1>5, <1>6, CacheEffects DEF IndInv

\* While nothing fails, Redis never refuses a free name: every name it holds
\* belongs to an account or is the one the worker is removing.
THEOREM CacheIsAccurate == Spec => []CacheAccurate
<1> DEFINE Inv == IndInv /\ TimelyInv /\ CreatedInv /\ CacheAccurate
<1>1. Init => Inv
  BY IndInvInit DEF Init, InitDatabase, TimelyInv, CreatedInv, CacheAccurate, Busy
<1>2. Inv /\ [Next]_vars => Inv'
  BY IndInvStep, TimelyStep, CreatedStep, CacheStep DEF IndInv
<1>3. QED
  BY <1>1, <1>2, PTL DEF Spec

=============================================================================
