----------------------- MODULE AccountsHistoryProofs ------------------------
(***************************************************************************)
(* Proofs of the properties AccountsHistory states with its history        *)
(* variables: what a client may conclude from the replies it has had.      *)
(***************************************************************************)
EXTENDS AccountsHistory, AccountsProofs

hvars == <<vars, historyVars>>

-----------------------------------------------------------------------------
(* What a step does to one call.                                            *)

CallKept(d) == LocalsKept(d) /\ result'[d] = result[d]

\* Its slot becomes free: the caller took the result, or the process died.
Freed(d) == pc'[d] = "idle"

\* It ends with an error, at once or after a statement.
Refused(d) ==
  /\ pc[d] # "done"
  /\ pc'[d] = "done"
  /\ result'[d].err # "OK"
  /\ result'[d].token = 0

\* It begins; only LoginByToken presents a token.
Starts(d) ==
  /\ pc[d] = "idle"
  /\ pc'[d] \in {"UsernameExists", "GetUserByUsername", "GetActiveByTokenHash"}
  /\ pc'[d] = "GetUserByUsername" =>
       call'[d].op \in {"LoginByCredentials", "ScheduleAccountDeletion", "CancelAccountDeletion"}
  /\ (pc'[d] = "GetActiveByTokenHash") <=> (call'[d].token # Blank)

\* It goes on to its next statement with the same locals, where nothing has been
\* read that later steps rely on.
Advances(d) ==
  /\ Busy(d)
  /\ call'[d] = call[d]
  /\ \/ pc[d] = "UsernameExists" /\ pc'[d] = "IsUsernameAvailable"
     \/ pc[d] = "IsUsernameAvailable" /\ pc'[d] = "CreateUser"
     \/ pc[d] = "SetUsername" /\ pc'[d] = "UpsertActiveToken"
     \/ pc[d] = "CancelDelete" /\ pc'[d] = "CancelCheck"

Registers(d) ==
  /\ Creates(d)
  /\ pc'[d] = "SetUsername"
  /\ call'[d].user = nextUserID

Verified(d) ==
  /\ pc[d] = "GetUserByUsername"
  /\ pc'[d] = AfterVerify(call[d].op)
  /\ call'[d].op = call[d].op

FindsToken(d) ==
  /\ pc[d] = "GetActiveByTokenHash"
  /\ pc'[d] = "ExistsActiveByUserID"
  /\ UNCHANGED <<userTokens, nextToken>>
  /\ call'[d].token = call[d].token
  /\ \E t \in GetActiveByTokenHash(hashToken(call[d].token)) : call'[d].tokenID = t.id

LetIn(d) ==
  /\ pc[d] = "ExistsActiveByUserID"
  /\ pc'[d] = IF call[d].op = "LoginByToken" THEN "RotateToken" ELSE "UpsertActiveToken"
  /\ call'[d] = call[d]
  /\ call[d].user \notin PendingUsers
  /\ UNCHANGED pendingDeletions

RepliesToken(d) ==
  /\ \/ pc[d] = "UpsertActiveToken" /\ Stores(d)
     \/ pc[d] = "RotateToken" /\ Rotates(d)
  /\ pc'[d] = "done"
  /\ result'[d].user = call[d].user
  /\ result'[d].token = nextToken

RepliesDone(d) ==
  /\ pc[d] \in {"Upsert", "CancelDelete", "CancelCheck"}
  /\ pc'[d] = "done"
  /\ result'[d].op = call[d].op
  /\ result'[d].token = 0
  /\ pc[d] = "Upsert" => Schedules(d) /\ result'[d].deleteAt = call[d].deleteAt

OwnStep(d) ==
  \/ Freed(d) \/ Refused(d) \/ Starts(d) \/ Advances(d) \/ Registers(d) \/ Verified(d)
  \/ FindsToken(d) \/ LetIn(d) \/ RepliesToken(d) \/ RepliesDone(d)

\* How a call moves, ends or stays, for the call that takes the step.
LEMMA Ends ==
  ASSUME Typed, NEW d \in Calls, NEW r, Return(d, r)
  PROVE  pc'[d] = "done" /\ result'[d] = r /\ call'[d] = NoCall
BY DEF Typed, TypeOK, Return

LEMMA EndsInError ==
  ASSUME Typed, NEW d \in Calls, pc[d] # "done", NEW op, NEW e, e # "OK",
         Return(d, Failure(op, e))
  PROVE  Refused(d)
<1>1. Failure(op, e).err = e /\ Failure(op, e).token = 0
  BY DEF Failure
<1>2. QED
  BY <1>1, Ends DEF Refused

LEMMA FailsInError ==
  ASSUME Typed, NEW d \in Calls, pc[d] # "done", NEW e, e # "OK", Fail(d, e)
  PROVE  Refused(d)
BY EndsInError DEF Fail

LEMMA RequestStep ==
  ASSUME Typed, NEW d \in Calls, Request(d)
  PROVE  Refused(d) \/ Starts(d)
<1>1. ASSUME NEW a, NEW e, NEW s, Begin(d, a, e, s),
             s \in {"UsernameExists", "GetUserByUsername", "GetActiveByTokenHash"},
             s = "GetUserByUsername" => a.op \in {"LoginByCredentials",
               "ScheduleAccountDeletion", "CancelAccountDeletion"},
             e = "OK" => (s = "GetActiveByTokenHash" <=> a.token # Blank)
      PROVE  Refused(d) \/ Starts(d)
  <2>1. pc[d] = "idle"
    BY <1>1 DEF Begin
  <2>2. CASE e # "OK" /\ Return(d, Failure(a.op, e))
    BY <2>1, <2>2, EndsInError
  <2>3. CASE e = "OK" /\ GotoWith(d, s, a)
    <3>1. pc'[d] = s /\ call'[d] = a
      BY <2>3 DEF GotoWith, Typed, TypeOK
    <3>2. QED
      BY <1>1, <2>1, <2>3, <3>1 DEF Starts
  <2>4. QED
    BY <1>1, <2>2, <2>3 DEF Begin
<1>2. CASE Register(d)
  BY <1>1, <1>2 DEF Register, Args
<1>3. CASE LoginByCredentials(d)
  BY <1>1, <1>3 DEF LoginByCredentials, Args
<1>4. CASE LoginByToken(d)
  <2>1. PICK token \in Spelled(delivered \cup {Forged, Blank}) :
          LET a == Args("LoginByToken", Blank, Blank, Blank, TrimSpace(token))
          IN Begin(d, a, TokenRefusal(a), "GetActiveByTokenHash")
    BY <1>4 DEF LoginByToken
  <2> DEFINE a == Args("LoginByToken", Blank, Blank, Blank, TrimSpace(token))
  <2>2. TokenRefusal(a) = "OK" => a.token # Blank
    BY DEF TokenRefusal
  <2> HIDE DEF a
  <2>3. Begin(d, a, TokenRefusal(a), "GetActiveByTokenHash")
    BY <2>1 DEF a
  <2>4. QED
    BY <1>1, <2>2, <2>3
<1>5. CASE ScheduleAccountDeletion(d)
  BY <1>1, <1>5 DEF ScheduleAccountDeletion, Args
<1>6. CASE CancelAccountDeletion(d)
  BY <1>1, <1>6 DEF CancelAccountDeletion, Args
<1>7. QED
  BY <1>2, <1>3, <1>4, <1>5, <1>6 DEF Request


LEMMA StatementStep ==
  ASSUME Typed, NEW d \in Calls, Step(d) \/ StatementFails(d)
  PROVE  OwnStep(d)
<1>0. /\ pc \in [Calls -> Statements \cup {"idle", "done"}] /\ call[d] \in CallRecord
      /\ call \in [Calls -> CallRecord]
  BY DEF Typed, TypeOK
<1>1. ASSUME NEW e, e # "OK", pc[d] # "done", Fail(d, e)
      PROVE  Refused(d)
  BY <1>1, FailsInError
<1>2. ASSUME NEW s, Goto(d, s)
      PROVE  pc'[d] = s /\ call'[d] = call[d]
  BY <1>0, <1>2 DEF Goto
<1>3. ASSUME NEW s, NEW r, GotoWith(d, s, r)
      PROVE  pc'[d] = s /\ call'[d] = r
  BY <1>0, <1>3 DEF GotoWith
<1>4. CASE UsernameExists(d) \/ CheckUsernameAvailable(d) \/ SetUsername(d)
  BY <1>1, <1>2, <1>4
     DEF UsernameExists, CheckUsernameAvailable, SetUsername, Busy, Advances, OwnStep
<1>5. CASE RegisterCreateUser(d)
  <2>1. CASE /\ GotoWith(d, "SetUsername", [call[d] EXCEPT !.user = nextUserID])
             /\ CreateUser(call[d].username, hashPassword(call[d].password))
    <3>1. pc'[d] = "SetUsername" /\ call'[d].user = nextUserID
      BY <1>0, <1>3, <2>1 DEF CallRecord
    <3>2. QED
      BY <1>5, <2>1, <3>1 DEF RegisterCreateUser, workerVars, Creates, Registers, OwnStep
  <2>2. CASE Fail(d, "ErrUsernameTaken") \/ LostAnswer(d)
    BY <1>1, <1>5, <2>2 DEF RegisterCreateUser, LostAnswer, OwnStep
  <2>3. QED
    BY <1>5, <2>1, <2>2 DEF RegisterCreateUser
<1>6. CASE IssueToken(d) \/ Rotate(d)
  <2> DEFINE reply == [Success(call[d].op) EXCEPT !.user = call[d].user,
                         !.device = call[d].device, !.token = nextToken]
  <2>1. CASE LostAnswer(d) \/ Fail(d, "ErrInternal") \/ Fail(d, "ErrInvalidToken")
    BY <1>1, <1>6, <2>1 DEF IssueToken, Rotate, LostAnswer, OwnStep
  <2>2. reply.user = call[d].user /\ reply.token = nextToken
    BY DEF Success, Failure
  <2>3. CASE /\ IssueToken(d) /\ Return(d, reply)
             /\ UpsertActiveToken(call[d].user, call[d].device, nextToken)
    <3> HIDE DEF reply
    <3>1. pc'[d] = "done" /\ result'[d] = reply
      BY <2>3, Ends
    <3>2. Stores(d) /\ pc[d] = "UpsertActiveToken"
      BY <2>3 DEF IssueToken, Stores, workerVars
    <3>3. QED
      BY <2>2, <3>1, <3>2 DEF RepliesToken, OwnStep
  <2>4. CASE Rotate(d) /\ Return(d, reply)
    <3> HIDE DEF reply
    <3>1. pc'[d] = "done" /\ result'[d] = reply
      BY <2>4, Ends
    <3>2. Rotates(d) /\ pc[d] = "RotateToken"
      BY <2>4 DEF Rotate, Rotates, workerVars
    <3>3. QED
      BY <2>2, <3>1, <3>2 DEF RepliesToken, OwnStep
  <2>5. QED
    BY <1>6, <2>1, <2>3, <2>4 DEF IssueToken, Rotate
<1>7. CASE VerifyCredentials(d)
  <2> DEFINE locals(u) == [call[d] EXCEPT !.user = u.id,
                             !.deleteAt = IF call[d].op = "ScheduleAccountDeletion"
                                          THEN now + Delay ELSE 0]
  <2>1. \A u \in users : locals(u).op = call[d].op
    BY <1>0 DEF CallRecord
  <2>2. \/ \E u \in users : GotoWith(d, AfterVerify(call[d].op), locals(u))
        \/ Fail(d, "ErrInvalidCredentials")
    BY <1>7 DEF VerifyCredentials, GetUserByUsername
  <2> HIDE DEF locals
  <2>3. pc[d] = "GetUserByUsername"
    BY <1>7 DEF VerifyCredentials
  <2>4. QED
    BY <1>1, <1>3, <2>1, <2>2, <2>3 DEF Verified, OwnStep
<1>8. CASE RejectIfPendingDeletion(d)
  BY <1>1, <1>2, <1>8
     DEF RejectIfPendingDeletion, ExistsActiveByUserID, dbVars, tables, LetIn, OwnStep
<1>9. CASE FindToken(d)
  <2> DEFINE locals(t) == [call[d] EXCEPT !.user = t.user, !.device = t.device, !.tokenID = t.id]
  <2>1. \A t \in userTokens : locals(t).token = call[d].token /\ locals(t).tokenID = t.id
    BY <1>0 DEF CallRecord
  <2>2. \/ \E t \in GetActiveByTokenHash(hashToken(call[d].token)) :
             t \in userTokens /\ GotoWith(d, "ExistsActiveByUserID", locals(t))
        \/ Fail(d, "ErrInvalidToken")
    BY <1>9 DEF FindToken, GetActiveByTokenHash
  <2> HIDE DEF locals
  <2>3. pc[d] = "GetActiveByTokenHash" /\ UNCHANGED <<userTokens, nextToken>>
    BY <1>9 DEF FindToken, dbVars, tables
  <2>4. QED
    BY <1>1, <1>3, <2>1, <2>2, <2>3 DEF FindsToken, OwnStep
<1>10. CASE UpsertDeletion(d) \/ CancelDelete(d) \/ CancelCheck(d)
  <2> DEFINE dated == [Success(call[d].op) EXCEPT !.user = call[d].user,
                         !.deleteAt = call[d].deleteAt]
             plain == [Success(call[d].op) EXCEPT !.user = call[d].user]
  <2>1. /\ dated.op = call[d].op /\ dated.token = 0 /\ dated.deleteAt = call[d].deleteAt
        /\ plain.op = call[d].op /\ plain.token = 0
    BY DEF Success, Failure
  <2>2. pc[d] \in {"Upsert", "CancelDelete", "CancelCheck"}
    BY <1>10 DEF UpsertDeletion, CancelDelete, CancelCheck
  <2>3. \/ LostAnswer(d) \/ Fail(d, "ErrInternal") \/ Fail(d, "ErrAccountDeletionInProgress")
        \/ Return(d, dated) /\ Schedules(d)
        \/ Return(d, plain) /\ pc[d] # "Upsert"
        \/ pc[d] = "CancelDelete" /\ Goto(d, "CancelCheck")
    <3>1. CASE UpsertDeletion(d)
      BY <3>1 DEF UpsertDeletion, Return, Schedules, workerVars
    <3>2. CASE CancelDelete(d) \/ CancelCheck(d)
      BY <3>2 DEF CancelDelete, CancelCheck
    <3>3. QED
      BY <1>10, <3>1, <3>2
  <2> HIDE DEF dated, plain
  <2>4. CASE LostAnswer(d) \/ Fail(d, "ErrInternal") \/ Fail(d, "ErrAccountDeletionInProgress")
    BY <1>1, <2>2, <2>4 DEF LostAnswer, OwnStep
  <2>5. CASE (Return(d, dated) /\ Schedules(d)) \/ (Return(d, plain) /\ pc[d] # "Upsert")
    BY <2>1, <2>2, <2>5, Ends DEF RepliesDone, OwnStep
  <2>6. CASE pc[d] = "CancelDelete" /\ Goto(d, "CancelCheck")
    BY <1>2, <2>6 DEF Busy, Advances, OwnStep
  <2>7. QED
    BY <2>3, <2>4, <2>5, <2>6
<1>11. CASE Collect(d)
  BY <1>0, <1>11 DEF Collect, Freed, OwnStep
<1>12. CASE StatementFails(d)
  BY <1>1, <1>12 DEF StatementFails, Busy, OwnStep
<1>13. QED
  BY <1>4, <1>5, <1>6, <1>7, <1>8, <1>9, <1>10, <1>11, <1>12 DEF Step

\* A step is one call's, or the worker's, a tick or a crash: the other calls stay
\* as they are, or are all freed.
LEMMA CallSteps ==
  ASSUME Typed, [Next]_vars, NEW d \in Calls
  PROVE  CallKept(d) \/ OwnStep(d)
<1>0. /\ pc \in [Calls -> Statements \cup {"idle", "done"}]
      /\ call \in [Calls -> CallRecord] /\ result \in [Calls -> ResultRecord]
  BY DEF Typed, TypeOK
<1>1. ASSUME NEW c \in Calls, c # d, Request(c) \/ Step(c) \/ StatementFails(c)
      PROVE  CallKept(d)
  <2>1. ASSUME NEW s, Goto(c, s)
        PROVE  CallKept(d)
    BY <1>0, <1>1, <2>1 DEF Goto, CallKept, LocalsKept
  <2>2. ASSUME NEW s, NEW r, GotoWith(c, s, r)
        PROVE  CallKept(d)
    BY <1>0, <1>1, <2>2 DEF GotoWith, CallKept, LocalsKept
  <2>3. ASSUME NEW r, Return(c, r)
        PROVE  CallKept(d)
    BY <1>0, <1>1, <2>3 DEF Return, CallKept, LocalsKept
  <2>4. ASSUME NEW e, Fail(c, e)
        PROVE  CallKept(d)
    BY <2>3, <2>4 DEF Fail
  <2>5. CASE Request(c)
    BY <2>2, <2>3, <2>5 DEF Request, Register, LoginByCredentials, LoginByToken,
                            ScheduleAccountDeletion, CancelAccountDeletion, Begin
  <2>6. CASE UsernameExists(c) \/ CheckUsernameAvailable(c) \/ RegisterCreateUser(c)
               \/ SetUsername(c) \/ VerifyCredentials(c) \/ RejectIfPendingDeletion(c)
               \/ FindToken(c)
    BY <2>1, <2>2, <2>4, <2>6
       DEF UsernameExists, CheckUsernameAvailable, RegisterCreateUser, SetUsername,
           VerifyCredentials, RejectIfPendingDeletion, FindToken, LostAnswer
  <2>7. CASE IssueToken(c) \/ Rotate(c) \/ UpsertDeletion(c) \/ CancelDelete(c)
               \/ CancelCheck(c) \/ StatementFails(c)
    BY <2>1, <2>3, <2>4, <2>7
       DEF IssueToken, Rotate, UpsertDeletion, CancelDelete, CancelCheck, StatementFails,
           LostAnswer
  <2>8. CASE Collect(c)
    BY <1>0, <1>1, <2>8 DEF Collect, CallKept, LocalsKept
  <2>9. QED
    BY <1>1, <2>5, <2>6, <2>7, <2>8 DEF Step
<1>2. ASSUME Request(d) \/ Step(d) \/ StatementFails(d)
      PROVE  OwnStep(d)
  BY <1>2, RequestStep, StatementStep DEF OwnStep
<1>3. CASE Crash
  BY <1>3 DEF Crash, Freed, OwnStep
<1>4. CASE Worker \/ WorkerDeleteFails \/ Tick \/ UNCHANGED vars
  BY <1>4 DEF Worker, WorkerClaim, WorkerDelete, WorkerUncache, WorkerDeleteFails, Tick, vars,
              callVars, CallKept, LocalsKept
<1>5. QED
  BY <1>1, <1>2, <1>3, <1>4 DEF Next


-----------------------------------------------------------------------------
(* Tokens lead to their owners, and a spent one leads nowhere.              *)

\* A row is an old one or holds the token generated by this step.
LEMMA TokenEffects ==
  ASSUME Typed, [Next]_vars
  PROVE  /\ \A t \in userTokens' : t \in userTokens \/ t.hash = hashToken(nextToken)
         /\ nextToken' \in {nextToken, nextToken + 1}
<1>0. \A t \in userTokens : t \in TokenRow
  BY DEF Typed, TypeOK
<1>1. CASE Quiet
  BY <1>1 DEF Quiet
<1>2. ASSUME NEW c \in Calls, Creates(c) \/ Schedules(c)
      PROVE  UNCHANGED <<userTokens, nextToken>>
  BY <1>2 DEF Creates, Schedules
<1>3. ASSUME NEW c \in Calls, Stores(c)
      PROVE  /\ \A t \in userTokens' : t \in userTokens \/ t.hash = hashToken(nextToken)
             /\ nextToken' = nextToken + 1
  <2> DEFINE moved(t) == [t EXCEPT !.user = call[c].user, !.hash = hashToken(nextToken)]
             new == [id |-> nextToken, user |-> call[c].user, device |-> call[c].device,
                     hash |-> hashToken(nextToken)]
  <2>1. \A t \in userTokens : moved(t).hash = hashToken(nextToken)
    BY <1>0 DEF TokenRow
  <2>2. new.hash = hashToken(nextToken)
    OBVIOUS
  <2>3. \A t \in userTokens' : t \in userTokens \/ t = new \/ \E s \in userTokens : t = moved(s)
    BY <1>3 DEF Stores, UpsertActiveToken
  <2> HIDE DEF moved, new
  <2>4. QED
    BY <1>3, <2>1, <2>2, <2>3 DEF Stores
<1>4. ASSUME NEW c \in Calls, Rotates(c)
      PROVE  /\ \A t \in userTokens' : t \in userTokens \/ t.hash = hashToken(nextToken)
             /\ nextToken' = nextToken + 1
  <2>1. \A t \in userTokens : [t EXCEPT !.hash = hashToken(nextToken)].hash = hashToken(nextToken)
    BY <1>0 DEF TokenRow
  <2>2. QED
    BY <1>4, <2>1 DEF Rotates, RotateToken
<1>5. ASSUME NEW B \in SUBSET Due, Claims(B)
      PROVE  UNCHANGED <<userTokens, nextToken>>
  BY <1>5 DEF Claims
<1>6. ASSUME NEW id \in claimed, Deletes(id)
      PROVE  userTokens' \subseteq userTokens /\ nextToken' = nextToken
  BY <1>6 DEF Deletes, DeleteUserByID
<1>7. QED
  BY <1>1, <1>2, <1>3, <1>4, <1>5, <1>6, Effects

LEMMA HashesDiffer == \A x, y : hashToken(x) = hashToken(y) => x = y
<1> SUFFICES ASSUME NEW x, NEW y, hashToken(x) = hashToken(y) PROVE x = y
  OBVIOUS
<1>1. hashToken(x).sha256 = x /\ hashToken(y).sha256 = y
  BY DEF hashToken
<1>2. QED
  BY <1>1

\* Tokens handed out were generated before.
OwnersInv ==
  /\ \A o \in owners : o.token \in Nat /\ o.token < nextToken
  /\ TokenNamesItsOwner

\* The row a token reply has just written is the replying call's, or it is the row
\* its rotation found.
LEMMA ReplyNamesOwner ==
  ASSUME IndInv, [Next]_vars, NEW d \in Calls, RepliesToken(d),
         NEW t \in userTokens', t.hash = hashToken(nextToken)
  PROVE  t.user = call[d].user \/ (pc[d] = "RotateToken" /\ t.user \in RotatedUsers(d))
<1>0. /\ \A s \in userTokens : s \in TokenRow
      /\ nextToken \in Nat /\ \A s \in userTokens : s.hash.sha256 < nextToken
  BY DEF IndInv, Typed, TypeOK, TokensInv
<1>1. \A s \in userTokens : s.hash # hashToken(nextToken)
  BY <1>0 DEF TokenRow, hashToken
<1>2. CASE pc[d] = "UpsertActiveToken" /\ Stores(d)
  <2> DEFINE moved(s) == [s EXCEPT !.user = call[d].user, !.hash = hashToken(nextToken)]
             new == [id |-> nextToken, user |-> call[d].user, device |-> call[d].device,
                     hash |-> hashToken(nextToken)]
  <2>1. \A s \in userTokens : moved(s).user = call[d].user
    BY <1>0 DEF TokenRow
  <2>2. new.user = call[d].user
    OBVIOUS
  <2>3. t \in userTokens \/ t = new \/ \E s \in userTokens : t = moved(s)
    BY <1>2 DEF Stores, UpsertActiveToken
  <2> HIDE DEF moved, new
  <2>4. QED
    BY <1>1, <2>1, <2>2, <2>3
<1>3. CASE pc[d] = "RotateToken" /\ Rotates(d)
  <2>1. PICK s \in userTokens :
          t = IF s.id = call[d].tokenID THEN [s EXCEPT !.hash = hashToken(nextToken)] ELSE s
    BY <1>3 DEF Rotates, RotateToken
  <2>2. s.id = call[d].tokenID /\ t.user = s.user
    BY <1>0, <1>1, <2>1 DEF TokenRow
  <2>3. s.user \in RotatedUsers(d)
    BY <2>2 DEF RotatedUsers
  <2>4. QED
    BY <1>3, <2>2, <2>3
<1>4. QED
  BY <1>2, <1>3 DEF RepliesToken

\* The only replies with a token.
LEMMA TokenReplies ==
  ASSUME Typed, [Next]_vars, NEW d \in Calls, Returns(d), result'[d].token # 0
  PROVE  RepliesToken(d)
<1>1. ~CallKept(d) /\ ~Freed(d) /\ ~Refused(d) /\ ~RepliesDone(d)
  BY DEF Returns, Busy, CallKept, LocalsKept, Freed, Refused, RepliesDone
<1>2. ~Starts(d) /\ ~Advances(d) /\ ~Registers(d) /\ ~Verified(d) /\ ~FindsToken(d) /\ ~LetIn(d)
  BY DEF Returns, Starts, Advances, Registers, Verified, AfterVerify, FindsToken, LetIn
<1>3. QED
  BY <1>1, <1>2, CallSteps DEF OwnStep

LEMMA OwnersStep ==
  ASSUME IndInv, OwnersInv, [HNext]_hvars
  PROVE  OwnersInv'
<1>1. CASE UNCHANGED hvars
  BY <1>1 DEF hvars, vars, dbVars, tables, historyVars, OwnersInv, TokenNamesItsOwner
<1>2. CASE HNext
  <2>0. Typed /\ [Next]_vars /\ HistoryStep
    BY <1>2 DEF HNext, IndInv
  <2>1. nextToken \in Nat /\ nextToken' \in {nextToken, nextToken + 1}
    BY <2>0, TokenEffects DEF Typed, TypeOK
  <2> DEFINE replying == {c \in Calls : Returns(c) /\ result'[c].token # 0}
  <2>2. ASSUME NEW o \in owners', o \notin owners
        PROVE  \E d \in Calls : /\ RepliesToken(d) /\ o.token = nextToken /\ o.user = call[d].user
                                /\ pc[d] = "RotateToken" => Crossings(d) \subseteq crossed'
                                /\ o.token = result'[d].token /\ o.user = result'[d].user
    <3>1. PICK d \in replying : o = Reply(d)
      BY <2>0, <2>2 DEF HistoryStep
    <3>2. RepliesToken(d)
      BY <2>0, TokenReplies
    <3>3. result'[d].token = nextToken /\ result'[d].user = call[d].user
      BY <3>2 DEF RepliesToken
    <3>4. o.token = result'[d].token /\ o.user = result'[d].user
      BY <3>1 DEF Reply
    <3>5. pc[d] = "RotateToken" => Crossings(d) \subseteq crossed'
      BY <2>0 DEF HistoryStep
    <3>6. QED
      BY <3>2, <3>3, <3>4, <3>5
  <2>3. ASSUME NEW d \in Calls, RepliesToken(d)
        PROVE  nextToken' = nextToken + 1
    BY <2>3 DEF RepliesToken, Stores, Rotates
  <2>4. \A o \in owners' : o.token \in Nat /\ o.token < nextToken'
    BY <2>1, <2>2, <2>3 DEF OwnersInv
  <2>5. ASSUME NEW o \in owners', NEW t \in userTokens', t.hash = hashToken(o.token)
        PROVE  t.user = o.user \/ [token |-> o.token, user |-> t.user] \in crossed'
    <3>1. CASE o \in owners
      <4>1. o.token # nextToken
        BY <2>1, <3>1 DEF OwnersInv
      <4>2. t \in userTokens
        BY <2>0, <2>5, <4>1, TokenEffects, HashesDiffer
      <4>3. crossed \subseteq crossed'
        BY <2>0 DEF HistoryStep
      <4>4. QED
        BY <2>5, <3>1, <4>2, <4>3 DEF OwnersInv, TokenNamesItsOwner
    <3>2. CASE o \notin owners
      <4>1. PICK d \in Calls :
              /\ RepliesToken(d) /\ o.token = nextToken /\ o.user = call[d].user
              /\ pc[d] = "RotateToken" => Crossings(d) \subseteq crossed'
              /\ o.token = result'[d].token /\ o.user = result'[d].user
        BY <2>2, <3>2
      <4>2. t.user = call[d].user \/ (pc[d] = "RotateToken" /\ t.user \in RotatedUsers(d))
        BY <2>0, <2>5, <4>1, ReplyNamesOwner
      <4>3. CASE t.user # o.user
        <5>1. t.user \in RotatedUsers(d) \ {result'[d].user}
          BY <4>1, <4>2, <4>3
        <5>2. [token |-> result'[d].token, user |-> t.user] \in Crossings(d)
          BY <5>1 DEF Crossings
        <5>3. QED
          BY <4>1, <4>2, <4>3, <5>2
      <4>4. QED
        BY <4>3
    <3>3. QED
      BY <3>1, <3>2
  <2>6. QED
    BY <2>4, <2>5 DEF OwnersInv, TokenNamesItsOwner
<1>3. QED
  BY <1>1, <1>2

\* The behaviours with history are behaviours of Accounts.
LEMMA HistoryInvariance == HSpec => []IndInv
<1>1. HInit => IndInv
  BY IndInvInit DEF HInit
<1>2. IndInv /\ [HNext]_hvars => IndInv'
  BY IndInvStep DEF HNext, hvars
<1>3. QED
  BY <1>1, <1>2, PTL DEF HSpec, hvars

\* A token leads to the account its reply named, or, if the row was taken over before
\* the rotation reached it, to the account that had taken it over; for any number of
\* concurrent logins, takeovers of the device and rotations of the row.
THEOREM TokensNameTheirOwners == HSpec => []TokenNamesItsOwner
<1>1. HInit => OwnersInv
  BY DEF HInit, OwnersInv, TokenNamesItsOwner
<1>2. IndInv /\ OwnersInv /\ [HNext]_hvars => OwnersInv'
  BY OwnersStep
<1>3. OwnersInv => TokenNamesItsOwner
  BY DEF OwnersInv
<1>4. QED
  BY <1>1, <1>2, <1>3, HistoryInvariance, PTL DEF HSpec, hvars


\* A call that has found the row of its token knows the only row that can hold it.
FoundInv ==
  \A c \in Calls :
    /\ pc[c] = "GetActiveByTokenHash" => call[c].token # Blank
    /\ pc[c] = "RotateToken" \/ (pc[c] = "ExistsActiveByUserID" /\ call[c].op = "LoginByToken") =>
         /\ call[c].token # Blank /\ call[c].token \in Nat /\ call[c].token < nextToken
         /\ \A t \in userTokens : t.hash = hashToken(call[c].token) => t.id = call[c].tokenID

\* A spent token is in no row.
SpentInv ==
  \A x \in spent :
    /\ x # Blank /\ x \in Nat /\ x < nextToken
    /\ \A t \in userTokens : t.hash # hashToken(x)

\* A call that presented a spent token has not got past its first query.
ReusingInv ==
  \A c \in reusing :
    \/ pc[c] = "GetActiveByTokenHash" /\ call[c].token \in spent
    \/ pc[c] = "done" /\ result[c].err # "OK"

LEMMA FoundStep ==
  ASSUME IndInv, FoundInv, [Next]_vars
  PROVE  FoundInv'
<1> SUFFICES ASSUME NEW c \in Calls
             PROVE  (/\ pc[c] = "GetActiveByTokenHash" => call[c].token # Blank
                     /\ pc[c] = "RotateToken"
                          \/ (pc[c] = "ExistsActiveByUserID" /\ call[c].op = "LoginByToken") =>
                          /\ call[c].token # Blank /\ call[c].token \in Nat
                          /\ call[c].token < nextToken
                          /\ \A t \in userTokens :
                               t.hash = hashToken(call[c].token) => t.id = call[c].tokenID)'
  BY DEF FoundInv
<1>1. /\ Typed /\ nextToken \in Nat /\ nextToken' \in {nextToken, nextToken + 1}
      /\ \A t \in userTokens' : t \in userTokens \/ t.hash = hashToken(nextToken)
  BY TokenEffects DEF IndInv, Typed, TypeOK
<1>2. ASSUME pc[c] = "RotateToken"
               \/ (pc[c] = "ExistsActiveByUserID" /\ call[c].op = "LoginByToken"),
             call'[c] = call[c]
      PROVE  /\ call'[c].token # Blank /\ call'[c].token \in Nat /\ call'[c].token < nextToken'
             /\ \A t \in userTokens' :
                  t.hash = hashToken(call'[c].token) => t.id = call'[c].tokenID
  <2>1. /\ call[c].token # Blank /\ call[c].token \in Nat /\ call[c].token < nextToken
        /\ \A t \in userTokens : t.hash = hashToken(call[c].token) => t.id = call[c].tokenID
    BY <1>2 DEF FoundInv
  <2>2. call[c].token # nextToken /\ call[c].token < nextToken'
    BY <1>1, <2>1
  <2>3. \A t \in userTokens' : t.hash = hashToken(call[c].token) => t \in userTokens
    BY <1>1, <2>2, HashesDiffer
  <2>4. QED
    BY <1>2, <2>1, <2>2, <2>3
<1>3. CASE CallKept(c)
  BY <1>2, <1>3 DEF CallKept, LocalsKept, FoundInv
<1>4. CASE LetIn(c)
  BY <1>2, <1>4 DEF LetIn
<1>5. CASE FindsToken(c)
  <2>1. PICK t \in userTokens : t.hash = hashToken(call[c].token) /\ call'[c].tokenID = t.id
    BY <1>5 DEF FindsToken, GetActiveByTokenHash
  <2>2. t.hash.sha256 \in Nat /\ t.hash.sha256 < nextToken
    BY <2>1 DEF IndInv, Typed, TypeOK, TokenRow, TokensInv
  <2>3. t.hash.sha256 = call[c].token
    BY <2>1 DEF hashToken
  <2>4. \A s \in userTokens : s.hash = t.hash => s = t
    BY <2>1 DEF IndInv, TokensInv
  <2>5. call[c].token # Blank
    BY <1>5 DEF FindsToken, FoundInv
  <2>6. pc'[c] = "ExistsActiveByUserID" /\ call'[c].token = call[c].token
          /\ UNCHANGED <<userTokens, nextToken>>
    BY <1>5 DEF FindsToken
  <2>7. QED
    BY <2>1, <2>2, <2>3, <2>4, <2>5, <2>6
<1>6. CASE Verified(c)
  BY <1>6 DEF Verified, AfterVerify
<1>7. CASE Freed(c) \/ Refused(c) \/ Starts(c) \/ RepliesToken(c) \/ RepliesDone(c)
  BY <1>7 DEF Freed, Refused, Starts, RepliesToken, RepliesDone
<1>8. CASE Advances(c) \/ Registers(c)
  BY <1>8 DEF Advances, Registers
<1>9. QED
  BY <1>1, <1>3, <1>4, <1>5, <1>6, <1>7, <1>8, CallSteps DEF OwnStep

LEMMA SpentStep ==
  ASSUME IndInv, FoundInv, SpentInv, [HNext]_hvars
  PROVE  SpentInv' /\ spent \subseteq spent'
<1>1. CASE UNCHANGED hvars
  BY <1>1 DEF hvars, vars, dbVars, tables, historyVars, SpentInv
<1>2. CASE HNext
  <2>0. Typed /\ [Next]_vars /\ HistoryStep
    BY <1>2 DEF HNext, IndInv
  <2>1. /\ nextToken \in Nat /\ nextToken' \in {nextToken, nextToken + 1}
        /\ \A t \in userTokens' : t \in userTokens \/ t.hash = hashToken(nextToken)
    BY <2>0, TokenEffects DEF Typed, TypeOK
  <2>2. ASSUME NEW x \in spent
        PROVE  /\ x # Blank /\ x \in Nat /\ x < nextToken'
               /\ \A t \in userTokens' : t.hash # hashToken(x)
    <3>1. x # nextToken /\ x # Blank /\ x \in Nat /\ x < nextToken'
      BY <2>1 DEF SpentInv
    <3>2. QED
      BY <2>1, <3>1, HashesDiffer DEF SpentInv
  <2>3. ASSUME NEW d \in Calls, Exchanges(d)
        PROVE  /\ call[d].token # Blank /\ call[d].token \in Nat /\ call[d].token < nextToken'
               /\ \A t \in userTokens' : t.hash # hashToken(call[d].token)
    <3>1. Rotates(d)
      <4>1. ~CallKept(d) /\ ~Freed(d) /\ ~Refused(d) /\ ~RepliesDone(d)
        BY <2>3 DEF Exchanges, Returns, Busy, CallKept, LocalsKept, Freed, Refused, RepliesDone
      <4>2. /\ ~Starts(d) /\ ~Advances(d) /\ ~Registers(d) /\ ~Verified(d)
            /\ ~FindsToken(d) /\ ~LetIn(d)
        BY <2>3 DEF Exchanges, Returns, Starts, Advances, Registers, Verified, AfterVerify,
                    FindsToken, LetIn
      <4>3. RepliesToken(d)
        BY <2>0, <4>1, <4>2, CallSteps DEF OwnStep
      <4>4. QED
        BY <2>3, <4>3 DEF Exchanges, RepliesToken
    <3>2. /\ call[d].token # Blank /\ call[d].token \in Nat /\ call[d].token < nextToken
          /\ \A t \in userTokens : t.hash = hashToken(call[d].token) => t.id = call[d].tokenID
      BY <2>3 DEF Exchanges, FoundInv
    <3>3. call[d].token < nextToken' /\ call[d].token # nextToken
      BY <2>1, <3>2
    <3>4. ASSUME NEW t \in userTokens', t.hash = hashToken(call[d].token)
          PROVE  FALSE
      <4>1. PICK s \in userTokens :
              t = IF s.id = call[d].tokenID THEN [s EXCEPT !.hash = hashToken(nextToken)] ELSE s
        BY <3>1 DEF Rotates, RotateToken
      <4>2. s \in TokenRow
        BY DEF IndInv, Typed, TypeOK
      <4>3. CASE s.id = call[d].tokenID
        <5>1. t.hash = hashToken(nextToken)
          BY <4>1, <4>2, <4>3 DEF TokenRow
        <5>2. QED
          BY <3>3, <3>4, <5>1, HashesDiffer
      <4>4. CASE s.id # call[d].tokenID
        BY <3>2, <3>4, <4>1, <4>4
      <4>5. QED
        BY <4>3, <4>4
    <3>5. QED
      BY <3>2, <3>3, <3>4
  <2>4. spent' = spent \cup {call[c].token : c \in {d \in Calls : Exchanges(d)}}
    BY <2>0 DEF HistoryStep
  <2>5. QED
    BY <2>2, <2>3, <2>4 DEF SpentInv
<1>3. QED
  BY <1>1, <1>2

LEMMA ReusingStep ==
  ASSUME IndInv, FoundInv, SpentInv, ReusingInv, [HNext]_hvars
  PROVE  ReusingInv'
<1>1. CASE UNCHANGED hvars
  BY <1>1 DEF hvars, vars, callVars, historyVars, ReusingInv
<1>2. CASE HNext
  <2>0. Typed /\ [Next]_vars /\ HistoryStep /\ spent \subseteq spent'
    BY <1>2, SpentStep DEF HNext, IndInv
  <2> SUFFICES ASSUME NEW c \in reusing'
               PROVE  \/ pc'[c] = "GetActiveByTokenHash" /\ call'[c].token \in spent'
                      \/ pc'[c] = "done" /\ result'[c].err # "OK"
    BY DEF ReusingInv
  <2>1. /\ c \in Calls /\ pc'[c] # "idle"
        /\ c \in reusing \/ (Begins(c) /\ call'[c].token \in spent)
    BY <2>0 DEF HistoryStep
  <2>2. CASE Begins(c) /\ call'[c].token \in spent
    <3>1. call'[c].token # Blank
      BY <2>2 DEF SpentInv
    <3>2. ~CallKept(c) /\ ~Freed(c) /\ ~Advances(c) /\ ~RepliesToken(c) /\ ~RepliesDone(c)
      BY <2>2 DEF Begins, CallKept, LocalsKept, Freed, Advances, Busy, RepliesToken, RepliesDone
    <3>3. ~Registers(c) /\ ~Verified(c) /\ ~FindsToken(c) /\ ~LetIn(c)
      BY <2>2 DEF Begins, Registers, Creates, Verified, FindsToken, LetIn
    <3>4. Refused(c) \/ Starts(c)
      BY <2>0, <2>1, <3>2, <3>3, CallSteps DEF OwnStep
    <3>5. QED
      BY <2>0, <2>2, <3>1, <3>4 DEF Refused, Starts
  <2>3. CASE c \in reusing /\ CallKept(c)
    BY <2>0, <2>3 DEF ReusingInv, CallKept, LocalsKept
  <2>4. CASE c \in reusing /\ OwnStep(c)
    <3>1. \/ pc[c] = "GetActiveByTokenHash" /\ call[c].token \in spent
          \/ pc[c] = "done"
      BY <2>4 DEF ReusingInv
    <3>2. ~FindsToken(c)
      BY <3>1 DEF SpentInv, FindsToken, GetActiveByTokenHash
    <3>3. ~Starts(c) /\ ~Registers(c) /\ ~Verified(c) /\ ~LetIn(c)
      BY <3>1 DEF Starts, Registers, Creates, Verified, LetIn
    <3>4. ~RepliesToken(c) /\ ~RepliesDone(c)
      BY <3>1 DEF RepliesToken, RepliesDone
    <3>5. CASE Advances(c)
      BY <3>1, <3>5 DEF Advances, Busy
    <3>6. QED
      BY <2>1, <2>4, <3>2, <3>3, <3>4, <3>5 DEF OwnStep, Freed, Refused
  <2>5. QED
    BY <2>0, <2>1, <2>2, <2>3, <2>4, CallSteps
<1>3. QED
  BY <1>1, <1>2

\* A login that begins after its token was exchanged fails, whatever else happens
\* to the row, the device and the account in between.
THEOREM SpentTokensAreRejected == HSpec => []SpentTokenRejected
<1> DEFINE Inv == FoundInv /\ SpentInv /\ ReusingInv
<1>1. HInit => Inv
  BY DEF HInit, Init, FoundInv, SpentInv, ReusingInv
<1>2. IndInv /\ Inv /\ [HNext]_hvars => Inv'
  <2> SUFFICES ASSUME IndInv, Inv, [HNext]_hvars PROVE Inv'
    OBVIOUS
  <2>1. [Next]_vars
    BY DEF HNext, hvars
  <2>2. QED
    BY <2>1, FoundStep, SpentStep, ReusingStep
<1>3. Inv => SpentTokenRejected
  BY DEF ReusingInv, SpentTokenRejected
<1>4. QED
  BY <1>1, <1>2, <1>3, HistoryInvariance, PTL DEF HSpec, hvars


-----------------------------------------------------------------------------
(* Logins and deletions.                                                    *)

\* The statements of the deletion requests are theirs alone.
OpsInv ==
  \A c \in Calls :
    /\ pc[c] = "GetUserByUsername" =>
         call[c].op \in {"LoginByCredentials", "ScheduleAccountDeletion", "CancelAccountDeletion"}
    /\ pc[c] \in {"Upsert", "CancelDelete", "CancelCheck"} => ~Mints(call[c].op)

\* Past rejectIfPendingDeletion a login is for an account that was not pending at
\* some moment since it began.
BarredInv ==
  /\ \A c \in Calls :
       pc[c] \in {"SetUsername", "UpsertActiveToken", "RotateToken"} =>
         call[c].user \notin barred[c]
  /\ LoginRefusedWhilePending

LEMMA OpsStep ==
  ASSUME Typed, OpsInv, [Next]_vars
  PROVE  OpsInv'
<1> SUFFICES ASSUME NEW c \in Calls
             PROVE  /\ pc'[c] = "GetUserByUsername" =>
                         call'[c].op \in {"LoginByCredentials", "ScheduleAccountDeletion",
                                          "CancelAccountDeletion"}
                    /\ pc'[c] \in {"Upsert", "CancelDelete", "CancelCheck"} => ~Mints(call'[c].op)
  BY DEF OpsInv, Mints
<1>1. CASE CallKept(c)
  BY <1>1 DEF CallKept, LocalsKept, OpsInv
<1>2. CASE Freed(c) \/ Refused(c) \/ Starts(c) \/ RepliesToken(c) \/ RepliesDone(c)
  BY <1>2 DEF Freed, Refused, Starts, RepliesToken, RepliesDone
<1>3. CASE Advances(c) \/ Registers(c) \/ FindsToken(c) \/ LetIn(c)
  BY <1>3 DEF Advances, Registers, FindsToken, LetIn, OpsInv
<1>4. CASE Verified(c)
  BY <1>4 DEF Verified, AfterVerify, OpsInv, Mints
<1>5. QED
  BY <1>1, <1>2, <1>3, <1>4, CallSteps DEF OwnStep

LEMMA BarredStep ==
  ASSUME IndInv, OpsInv, BarredInv, [HNext]_hvars
  PROVE  BarredInv'
<1>1. CASE UNCHANGED hvars
  BY <1>1 DEF hvars, vars, callVars, historyVars, BarredInv, LoginRefusedWhilePending, Mints
<1>2. CASE HNext
  <2>0. Typed /\ [Next]_vars /\ HistoryStep
    BY <1>2 DEF HNext, IndInv
  <2> SUFFICES ASSUME NEW c \in Calls
               PROVE  /\ pc'[c] \in {"SetUsername", "UpsertActiveToken", "RotateToken"} =>
                           call'[c].user \notin barred'[c]
                      /\ pc'[c] = "done" /\ result'[c].err = "OK" /\ Mints(result'[c].op) =>
                           result'[c].user \notin barred'[c]
    BY DEF BarredInv, LoginRefusedWhilePending, Mints
  <2>1. barred'[c] = IF pc'[c] = "idle" THEN {}
                     ELSE IF Begins(c) THEN PendingUsers
                     ELSE barred[c] \cap PendingUsers'
    BY <2>0 DEF HistoryStep
  <2>2. pc[c] # "idle" => barred'[c] \subseteq barred[c] \cap PendingUsers'
    BY <2>1 DEF Begins
  <2>3. CASE CallKept(c)
    <3>1. /\ pc'[c] = pc[c] /\ call'[c] = call[c] /\ result'[c] = result[c]
      BY <2>3 DEF CallKept, LocalsKept
    <3>2. /\ pc[c] \in {"SetUsername", "UpsertActiveToken", "RotateToken"} =>
               call[c].user \notin barred[c]
          /\ pc[c] = "done" /\ result[c].err = "OK" /\ Mints(result[c].op) =>
               result[c].user \notin barred[c]
      BY DEF BarredInv, LoginRefusedWhilePending
    <3>3. QED
      BY <2>2, <3>1, <3>2
  <2>4. CASE Freed(c) \/ Refused(c) \/ Starts(c)
    BY <2>4 DEF Freed, Refused, Starts
  <2>5. CASE Advances(c)
    <3>1. call'[c] = call[c] /\ pc[c] # "idle" /\ pc'[c] # "done"
      BY <2>5 DEF Advances, Busy
    <3>2. pc'[c] \in {"SetUsername", "UpsertActiveToken", "RotateToken"} => pc[c] = "SetUsername"
      BY <2>5 DEF Advances
    <3>3. QED
      BY <2>2, <3>1, <3>2 DEF BarredInv
  <2>6. CASE Registers(c)
    <3>1. /\ pc[c] = "CreateUser" /\ pc'[c] = "SetUsername" /\ call'[c].user = nextUserID
          /\ pendingDeletions' = pendingDeletions
      BY <2>6 DEF Registers, Creates
    <3>2. nextUserID \notin PendingUsers
      <4>1. nextUserID \in Nat /\ \A u \in users : u.id \in Nat /\ u.id < nextUserID
        BY DEF IndInv, Typed, TypeOK, UserRow, UsersInv
      <4>2. nextUserID \notin UserIDs
        BY <4>1 DEF UserIDs
      <4>3. QED
        BY <4>2 DEF IndInv, PendingInv, PendingUsers
    <3>3. PendingUsers' = PendingUsers
      BY <3>1 DEF PendingUsers
    <3>4. QED
      BY <2>2, <3>1, <3>2, <3>3
  <2>7. CASE Verified(c) \/ FindsToken(c)
    BY <2>7 DEF Verified, AfterVerify, FindsToken
  <2>8. CASE LetIn(c)
    <3>1. /\ pc[c] # "idle" /\ pc'[c] # "done" /\ call'[c] = call[c]
          /\ call[c].user \notin PendingUsers /\ pendingDeletions' = pendingDeletions
      BY <2>8 DEF LetIn
    <3>2. PendingUsers' = PendingUsers
      BY <3>1 DEF PendingUsers
    <3>3. QED
      BY <2>2, <3>1, <3>2
  <2>9. CASE RepliesToken(c)
    <3>1. /\ pc[c] \in {"UpsertActiveToken", "RotateToken"} /\ pc'[c] = "done"
          /\ result'[c].user = call[c].user
      BY <2>9 DEF RepliesToken
    <3>2. QED
      BY <2>2, <3>1 DEF BarredInv
  <2>10. CASE RepliesDone(c)
    <3>1. pc'[c] = "done" /\ ~Mints(result'[c].op)
      BY <2>10 DEF RepliesDone, OpsInv
    <3>2. QED
      BY <3>1
  <2>11. QED
    BY <2>0, <2>3, <2>4, <2>5, <2>6, <2>7, <2>8, <2>9, <2>10, CallSteps DEF OwnStep
<1>3. QED
  BY <1>1, <1>2

\* No login is let into an account whose deletion was pending from the login's first
\* step to its last, although the check and the token statement are apart.
THEOREM PendingLoginsAreRefused == HSpec => []LoginRefusedWhilePending
<1> DEFINE Inv == OpsInv /\ BarredInv
<1>1. HInit => Inv
  BY DEF HInit, Init, OpsInv, BarredInv, LoginRefusedWhilePending
<1>2. IndInv /\ Inv /\ [HNext]_hvars => Inv'
  <2> SUFFICES ASSUME IndInv, Inv, [HNext]_hvars PROVE Inv'
    OBVIOUS
  <2>1. [Next]_vars /\ Typed
    BY DEF HNext, hvars, IndInv
  <2>2. QED
    BY <2>1, OpsStep, BarredStep
<1>3. Inv => LoginRefusedWhilePending
  BY DEF BarredInv
<1>4. QED
  BY <1>1, <1>2, <1>3, HistoryInvariance, PTL DEF HSpec, hvars

-----------------------------------------------------------------------------
(* Cancelled deletions.                                                     *)

\* What the worker holds of cancelled accounts, and of rows that can be cancelled,
\* was re-opened while it held them.
KeptInv ==
  /\ CancelHonoured
  /\ kept \cap claimed \subseteq reopened
  /\ \A p \in pendingDeletions : p.user \in claimed /\ ~p.started => p.user \in reopened

LEMMA KeptStep ==
  ASSUME IndInv, KeptInv, [HNext]_hvars
  PROVE  KeptInv'
<1>1. CASE UNCHANGED hvars
  BY <1>1 DEF hvars, vars, dbVars, tables, workerVars, historyVars, KeptInv, CancelHonoured,
              UserIDs
<1>2. CASE HNext
  <2>0. /\ PendingInv /\ [Next]_vars
        /\ kept' = (kept \cup Cancelled) \ PendingUsers'
        /\ reopened' = {id \in reopened \cup Reopens : id \in claimed' \/ id \notin UserIDs'}
        /\ \A p \in pendingDeletions : p \in PendingRow
    BY <1>2 DEF HNext, IndInv, HistoryStep, Typed, TypeOK
  <2>1. ASSUME claimed' \subseteq claimed, NEW p \in pendingDeletions', p.user \in claimed',
               ~p.started
        PROVE  p.user \in reopened'
    BY <2>0, <2>1 DEF Reopens
  <2>2. ASSUME claimed' \subseteq claimed, Cancelled \cap claimed \subseteq reopened,
               \A x \in UserIDs : x \notin UserIDs' => x \in claimed
        PROVE  KeptInv'
    <3>1. kept' \cap claimed' \subseteq reopened'
      BY <2>0, <2>2 DEF KeptInv
    <3>2. ASSUME NEW x \in kept', x \notin UserIDs'
          PROVE  x \in reopened'
      <4>1. x \in kept
        BY <2>0, <3>2 DEF Cancelled
      <4>2. x \in reopened
        BY <2>2, <3>2, <4>1 DEF KeptInv, CancelHonoured
      <4>3. QED
        BY <2>0, <3>2, <4>2
    <3>3. QED
      BY <2>1, <2>2, <3>1, <3>2 DEF KeptInv, CancelHonoured
  <2>3. ASSUME PendingUsers \subseteq PendingUsers'
        PROVE  Cancelled = {}
    BY <2>3 DEF Cancelled
  <2>4. CASE NothingButForgets
    <3>1. UserIDs' = UserIDs /\ PendingUsers' = PendingUsers /\ claimed' \subseteq claimed
      BY <2>4 DEF NothingButForgets, UserIDs, PendingUsers
    <3>2. QED
      BY <2>2, <2>3, <3>1
  <2>5. ASSUME NEW c \in Calls, Creates(c)
        PROVE  KeptInv'
    <3>1. UserIDs \subseteq UserIDs' /\ PendingUsers' = PendingUsers /\ claimed' = claimed
      BY <2>5 DEF Creates, CreateUser, UserIDs, PendingUsers
    <3>2. QED
      BY <2>2, <2>3, <3>1
  <2>6. ASSUME NEW c \in Calls, Schedules(c)
        PROVE  KeptInv'
    <3> DEFINE new == [user |-> call[c].user, deleteAt |-> call[c].deleteAt, started |-> FALSE]
    <3>1. /\ users' = users /\ claimed' = claimed
          /\ pendingDeletions' = {p \in pendingDeletions : p.user # call[c].user} \cup {new}
          /\ new.user = call[c].user
      BY <2>6 DEF Schedules, Upsert
    <3> HIDE DEF new
    <3>2. PendingUsers \subseteq PendingUsers'
      BY <3>1 DEF PendingUsers
    <3>3. QED
      BY <2>2, <2>3, <3>1, <3>2 DEF UserIDs
  <2>7. ASSUME NEW c \in Calls, Cancels(c)
        PROVE  KeptInv'
    <3>1. /\ users' = users /\ claimed' = claimed
          /\ pendingDeletions' = {p \in pendingDeletions : ~(p.user = call[c].user /\ ~p.started)}
      BY <2>7 DEF Cancels, Cancellable
    <3>2. \A p \in pendingDeletions : p.user \notin PendingUsers' => ~p.started
      BY <3>1 DEF PendingUsers
    <3>3. Cancelled \cap claimed \subseteq reopened
      BY <3>2 DEF Cancelled, PendingUsers, KeptInv
    <3>4. QED
      BY <2>2, <3>1, <3>3 DEF UserIDs
  <2>8. ASSUME NEW B \in SUBSET Due, ClaimsAll(B)
        PROVE  KeptInv'
    <3> DEFINE started(p) == IF p \in B THEN [p EXCEPT !.started = TRUE] ELSE p
    <3>1. /\ claimed = {} /\ claimed' \in {{p.user : p \in B}, {}} /\ UserIDs' = UserIDs
          /\ pendingDeletions' = {started(p) : p \in pendingDeletions}
      BY <2>8 DEF ClaimsAll, ClaimDue, UserIDs
    <3>2. \A p \in pendingDeletions :
            started(p).user = p.user /\ (p \in B => started(p).started)
      BY <2>0 DEF PendingRow
    <3> HIDE DEF started
    <3>3. PendingUsers' = PendingUsers /\ Cancelled = {}
      BY <3>1, <3>2 DEF PendingUsers, Cancelled
    <3>4. claimed' \subseteq PendingUsers'
      BY <3>1, <3>3 DEF Due, PendingUsers
    <3>5. CancelHonoured'
      <4>1. ASSUME NEW x \in kept', x \notin UserIDs'
            PROVE  x \in reopened'
        BY <2>0, <3>1, <3>3, <4>1 DEF KeptInv, CancelHonoured
      <4>2. QED
        BY <4>1 DEF CancelHonoured
    <3>6. ASSUME NEW p \in pendingDeletions', p.user \in claimed'
          PROVE  p.started
      <4>1. PICK q \in pendingDeletions : p = started(q)
        BY <3>1
      <4>2. PICK r \in B : r.user = p.user
        BY <3>1, <3>6
      <4>3. r \in pendingDeletions /\ r.user = q.user
        BY <3>2, <4>1, <4>2 DEF Due
      <4>4. q = r
        BY <2>0, <4>3 DEF PendingInv
      <4>5. QED
        BY <3>2, <4>1, <4>4
    <3>7. QED
      BY <2>0, <3>4, <3>5, <3>6 DEF KeptInv
  <2>9. ASSUME NEW id \in claimed, Deletes(id)
        PROVE  KeptInv'
    <3>1. /\ users' = {u \in users : u.id # id} /\ claimed' = claimed \ {id}
          /\ pendingDeletions' = {p \in pendingDeletions : p.user # id}
      BY <2>9 DEF Deletes, DeleteUserByID
    <3>2. id \notin UserIDs' /\ \A x \in UserIDs : x # id => x \in UserIDs'
      BY <3>1 DEF UserIDs
    <3>3. Cancelled = {}
      BY <3>1, <3>2 DEF Cancelled, PendingUsers
    <3>4. QED
      BY <2>2, <3>1, <3>2, <3>3
  <2>10. QED
    BY <2>0, <2>4, <2>5, <2>6, <2>7, <2>8, <2>9, AccountEffects
<1>3. QED
  BY <1>1, <1>2

\* A deletion that was cancelled is carried out all the same only where it had been
\* scheduled over a claim the worker still held; without that, for any batch size, any
\* number of racing cancellations and any failures, the account stays until a deletion
\* is scheduled again.
THEOREM CancellationsAreHonoured == HSpec => []CancelHonoured
<1>1. HInit => KeptInv
  BY DEF HInit, Init, InitDatabase, KeptInv, CancelHonoured
<1>2. IndInv /\ KeptInv /\ [HNext]_hvars => KeptInv'
  BY KeptStep
<1>3. KeptInv => CancelHonoured
  BY DEF KeptInv
<1>4. QED
  BY <1>1, <1>2, <1>3, HistoryInvariance, PTL DEF HSpec, hvars

-----------------------------------------------------------------------------
(* Started deletions. *)

LEMMA HeldStep ==
  ASSUME IndInv, StartedAreHeld, [HNext]_hvars
  PROVE  StartedAreHeld'
<1> DEFINE failing == faults' + crashes' > faults + crashes
<1> SUFFICES ASSUME NEW p \in pendingDeletions', p.started
             PROVE  p.user \in claimed' \cup stranded'
  BY DEF StartedAreHeld
<1>1. /\ faults \in Nat /\ crashes \in Nat
      /\ \A q \in pendingDeletions : q \in PendingRow
      /\ \A q \in pendingDeletions : q.started => q.user \in claimed \cup stranded
  BY DEF IndInv, Typed, TypeOK, StartedAreHeld
<1>2. CASE UNCHANGED hvars
  BY <1>1, <1>2 DEF hvars, vars, dbVars, tables, workerVars, historyVars
<1>3. CASE HNext
  <2>1. stranded' = {id \in stranded \cup CutOff :
                       \E q \in pendingDeletions' : q.user = id /\ q.started}
    BY <1>3 DEF HNext, HistoryStep
  <2>2. ASSUME failing, p.user \in claimed \cup {q.user : q \in Due}
        PROVE  p.user \in claimed' \cup stranded'
    BY <2>1, <2>2 DEF CutOff
  <2> HIDE DEF failing
  <2>3. ASSUME p \in pendingDeletions, p.user \in claimed => p.user \in claimed' \/ failing
        PROVE  p.user \in claimed' \cup stranded'
    BY <1>1, <2>1, <2>2, <2>3
  <2>4. CASE WorkerClaim
    <3>1. PICK B \in ClaimBatches(ClaimLimit) :
            /\ ClaimDue(B)
            /\ \/ claimed' = {q.user : q \in B}
               \/ faults' = faults + 1 /\ crashes' = crashes
      BY <2>4 DEF WorkerClaim
    <3>2. B \subseteq Due /\ claimed = {}
      BY <2>4 DEF ClaimBatches, WorkerClaim, WorkerIdle
    <3>3. PICK q \in pendingDeletions : p = IF q \in B THEN [q EXCEPT !.started = TRUE] ELSE q
      BY <3>1 DEF ClaimDue
    <3>4. CASE q \in B
      <4>1. p.user = q.user
        BY <1>1, <3>3, <3>4 DEF PendingRow
      <4>2. claimed' = {r.user : r \in B} \/ failing
        BY <1>1, <3>1 DEF failing
      <4>3. QED
        BY <2>2, <3>2, <3>4, <4>1, <4>2
    <3>5. CASE q \notin B
      BY <2>3, <3>2, <3>3, <3>5
    <3>6. QED
      BY <3>4, <3>5
  <2>5. CASE WorkerDelete
    <3>1. PICK id \in claimed : /\ claimed' = claimed \ {id}
                                /\ pendingDeletions' = {q \in pendingDeletions : q.user # id}
      BY <2>5 DEF WorkerDelete, DeleteUserByID, DeleteByUserID
    <3>2. QED
      BY <2>3, <3>1
  <2>6. CASE WorkerDeleteFails \/ Crash
    <3>1. pendingDeletions' = pendingDeletions
      BY <2>6 DEF WorkerDeleteFails, Crash, dbVars, tables
    <3>2. \/ faults' = faults + 1 /\ crashes' = crashes
          \/ crashes' = crashes + 1 /\ faults' = faults
      BY <2>6 DEF WorkerDeleteFails, Crash
    <3>3. failing
      BY <1>1, <3>2 DEF failing
    <3>4. QED
      BY <2>3, <3>1, <3>3
  <2>7. ASSUME NEW c \in Calls, Request(c)
        PROVE  p.user \in claimed' \cup stranded'
    BY <2>3, <2>7 DEF Request, Register, LoginByCredentials, LoginByToken,
                      ScheduleAccountDeletion, CancelAccountDeletion, Begin, dbVars, tables,
                      workerVars
  <2>8. ASSUME NEW c \in Calls, Step(c) \/ StatementFails(c)
        PROVE  p.user \in claimed' \cup stranded'
    <3>1. claimed' = claimed /\ (p \in pendingDeletions \/ p = [user |-> call[c].user,
                                   deleteAt |-> call[c].deleteAt, started |-> FALSE])
      BY <2>8 DEF Step, UsernameExists, CheckUsernameAvailable, RegisterCreateUser, SetUsername,
                  IssueToken, VerifyCredentials, RejectIfPendingDeletion, FindToken, Rotate,
                  UpsertDeletion, Upsert, CancelDelete, CancelCheck, Collect, StatementFails,
                  dbVars, tables, workerVars
    <3>2. QED
      BY <2>3, <3>1
  <2>9. CASE WorkerUncache \/ Tick
    BY <2>3, <2>9 DEF WorkerUncache, Tick, tables, workerVars
  <2>10. QED
    BY <1>3, <2>4, <2>5, <2>6, <2>7, <2>8, <2>9 DEF HNext, Next, Worker
<1>4. QED
  BY <1>2, <1>3

\* A deletion that can no longer be cancelled is one the worker is carrying out or one
\* whose claim a failure cut off, for any number of failures and crashes.
THEOREM StartedDeletionsAreHeld == HSpec => []StartedAreHeld
<1>1. HInit => StartedAreHeld
  BY DEF HInit, Init, InitDatabase, StartedAreHeld
<1>2. IndInv /\ StartedAreHeld /\ [HNext]_hvars => StartedAreHeld'
  BY HeldStep
<1>3. QED
  BY <1>1, <1>2, HistoryInvariance, PTL DEF HSpec, hvars

-----------------------------------------------------------------------------
(* Announced dates.                                                         *)

\* The pending row of an account bears the date announced last, and the worker holds
\* the account only if that date has come or was given over its claim.
AnnouncedInv ==
  \A a \in announced :
    /\ a.deleteAt \in Nat
    /\ \A p \in pendingDeletions : p.user = a.user => p.deleteAt = a.deleteAt
    /\ a.user \in claimed => a.deleteAt <= now \/ a.user \in reopened

\* The date a new announcement names is the one its statement wrote.
LEMMA NewAnnouncement ==
  ASSUME IndInv, HNext, NEW d \in Scheduling, result'[d].err = "OK"
  PROVE  /\ Announces(d).deleteAt \in Nat
         /\ \A p \in pendingDeletions' :
              p.user = Announces(d).user => p.deleteAt = Announces(d).deleteAt
         /\ Announces(d).user \in claimed' => Announces(d).user \in reopened'
<1>0. /\ Typed /\ [Next]_vars /\ d \in Calls /\ Returns(d) /\ pc[d] = "Upsert"
      /\ call[d].deleteAt \in Nat
      /\ reopened' = {id \in reopened \cup Reopens : id \in claimed' \/ id \notin UserIDs'}
  BY DEF HNext, HistoryStep, IndInv, Typed, TypeOK, CallRecord, Scheduling
<1>1. RepliesDone(d)
  <2>1. ~CallKept(d) /\ ~Freed(d) /\ ~Refused(d)
    BY <1>0 DEF Returns, CallKept, LocalsKept, Freed, Refused
  <2>2. /\ ~Starts(d) /\ ~Advances(d) /\ ~Registers(d) /\ ~Verified(d)
        /\ ~FindsToken(d) /\ ~LetIn(d) /\ ~RepliesToken(d)
    BY <1>0 DEF Starts, Advances, Registers, Creates, Verified, FindsToken, LetIn, RepliesToken
  <2>3. QED
    BY <1>0, <2>1, <2>2, CallSteps DEF OwnStep
<1> DEFINE new == [user |-> call[d].user, deleteAt |-> call[d].deleteAt, started |-> FALSE]
<1>2. /\ result'[d].deleteAt = call[d].deleteAt /\ claimed' = claimed
      /\ pendingDeletions' = {p \in pendingDeletions : p.user # call[d].user} \cup {new}
  BY <1>0, <1>1 DEF RepliesDone, Schedules, Upsert
<1>3. new.user = call[d].user /\ new.deleteAt = call[d].deleteAt /\ ~new.started
  OBVIOUS
<1> HIDE DEF new
<1>4. Announces(d).user = call[d].user /\ Announces(d).deleteAt = call[d].deleteAt
  BY <1>2 DEF Announces
<1>5. call[d].user \in claimed => call[d].user \in Reopens
  BY <1>2, <1>3 DEF Reopens
<1>6. QED
  BY <1>0, <1>2, <1>3, <1>4, <1>5

LEMMA AnnouncedStep ==
  ASSUME IndInv, AnnouncedInv, [HNext]_hvars
  PROVE  AnnouncedInv'
<1>1. CASE UNCHANGED hvars
  BY <1>1 DEF hvars, vars, dbVars, tables, workerVars, historyVars, AnnouncedInv
<1>2. CASE HNext
  <2>0. /\ PendingInv /\ [Next]_vars /\ now \in Nat
        /\ \A p \in pendingDeletions : p \in PendingRow
        /\ reopened' = {id \in reopened \cup Reopens : id \in claimed' \/ id \notin UserIDs'}
        /\ announced' = {a \in announced : \A c \in Scheduling : call[c].user # a.user}
                          \cup {Announces(c) : c \in {d \in Scheduling : result'[d].err = "OK"}}
    BY <1>2 DEF HNext, IndInv, HistoryStep, Typed, TypeOK
  <2>1. now' \in {now, now + 1}
    BY <2>0, Effects DEF Quiet, Creates, Stores, Rotates, Schedules, Claims, Deletes
  <2> SUFFICES ASSUME NEW a \in announced'
               PROVE  /\ a.deleteAt \in Nat
                      /\ \A p \in pendingDeletions' : p.user = a.user => p.deleteAt = a.deleteAt
                      /\ a.user \in claimed' => a.deleteAt <= now' \/ a.user \in reopened'
    BY DEF AnnouncedInv
  <2>2. CASE a \in announced /\ \A c \in Scheduling : call[c].user # a.user
    <3>1. /\ a.deleteAt \in Nat
          /\ \A p \in pendingDeletions : p.user = a.user => p.deleteAt = a.deleteAt
          /\ a.user \in claimed => a.deleteAt <= now \/ a.user \in reopened
      BY <2>2 DEF AnnouncedInv
    <3>2. ASSUME a.user \in claimed, a.user \in claimed'
          PROVE  a.deleteAt <= now' \/ a.user \in reopened'
      BY <2>0, <2>1, <3>1, <3>2
    <3>3. CASE NothingButForgets \/ \E c \in Calls : Creates(c) \/ Cancels(c)
      BY <3>1, <3>2, <3>3 DEF NothingButForgets, Creates, Cancels
    <3>4. ASSUME NEW c \in Calls, Schedules(c)
          PROVE  \A p \in pendingDeletions' : p.user = a.user => p.deleteAt = a.deleteAt
      <4>1. c \in Scheduling
        BY <3>4 DEF Schedules, Scheduling, Returns, Busy, IndInv, Typed, TypeOK
      <4>2. call[c].user # a.user
        BY <2>2, <4>1
      <4> DEFINE new == [user |-> call[c].user, deleteAt |-> call[c].deleteAt, started |-> FALSE]
      <4>3. /\ new.user = call[c].user
            /\ pendingDeletions' = {p \in pendingDeletions : p.user # call[c].user} \cup {new}
        BY <3>4 DEF Schedules, Upsert
      <4> HIDE DEF new
      <4>4. QED
        BY <3>1, <4>2, <4>3
    <3>5. CASE \E c \in Calls : Schedules(c)
      BY <3>1, <3>2, <3>4, <3>5 DEF Schedules
    <3>6. ASSUME NEW B \in SUBSET Due, ClaimsAll(B)
          PROVE  /\ \A p \in pendingDeletions' : p.user = a.user => p.deleteAt = a.deleteAt
                 /\ a.user \in claimed' => a.deleteAt <= now'
      <4> DEFINE started(p) == IF p \in B THEN [p EXCEPT !.started = TRUE] ELSE p
      <4>1. /\ claimed' \in {{p.user : p \in B}, {}}
            /\ pendingDeletions' = {started(p) : p \in pendingDeletions}
        BY <3>6 DEF ClaimsAll, ClaimDue
      <4>2. \A p \in pendingDeletions : started(p).user = p.user /\ started(p).deleteAt = p.deleteAt
        BY <2>0 DEF PendingRow
      <4> HIDE DEF started
      <4>3. ASSUME a.user \in claimed'
            PROVE  a.deleteAt <= now'
        <5>1. PICK r \in B : r.user = a.user
          BY <4>1, <4>3
        <5>2. r \in pendingDeletions /\ r.deleteAt <= now
          BY DEF Due
        <5>3. a.deleteAt <= now
          BY <3>1, <5>1, <5>2
        <5>4. QED
          BY <2>0, <2>1, <3>1, <5>3
      <4>4. QED
        BY <3>1, <4>1, <4>2, <4>3
    <3>7. ASSUME NEW id \in claimed, Deletes(id)
          PROVE  pendingDeletions' \subseteq pendingDeletions /\ claimed' \subseteq claimed
      BY <3>7 DEF Deletes, DeleteUserByID
    <3>8. QED
      BY <2>0, <3>1, <3>2, <3>3, <3>5, <3>6, <3>7, AccountEffects
  <2>3. CASE \E d \in Scheduling : result'[d].err = "OK" /\ a = Announces(d)
    BY <1>2, <2>3, NewAnnouncement
  <2>4. QED
    BY <2>0, <2>2, <2>3
<1>3. QED
  BY <1>1, <1>2

\* No account goes before the date its owner was told last, for any delay, any order of
\* requests and any failures, unless the date was given over a claim of the worker.
THEOREM AnnouncedDatesAreKept == HSpec => AnnouncedDateKept
<1> DEFINE Kept == \A a \in announced :
                     a.user \in UserIDs \ UserIDs' => a.deleteAt <= now \/ a.user \in reopened
<1>1. HInit => AnnouncedInv
  BY DEF HInit, AnnouncedInv
<1>2. IndInv /\ AnnouncedInv /\ [HNext]_hvars => AnnouncedInv'
  BY AnnouncedStep
<1>3. IndInv /\ AnnouncedInv /\ [HNext]_hvars => [Kept]_hvars
  <2> SUFFICES ASSUME IndInv, AnnouncedInv, [HNext]_hvars, NEW a \in announced,
                      a.user \in UserIDs, a.user \notin UserIDs'
               PROVE  a.deleteAt <= now \/ a.user \in reopened
    OBVIOUS
  <2>1. PendingInv /\ [Next]_vars
    BY DEF IndInv, HNext, hvars
  <2>2. PICK id \in claimed : Deletes(id)
    BY <2>1, AccountEffects
       DEF NothingButForgets, Creates, CreateUser, Schedules, Cancels, ClaimsAll, UserIDs
  <2>3. a.user = id
    BY <2>2 DEF Deletes, DeleteUserByID, UserIDs
  <2>4. QED
    BY <2>3 DEF AnnouncedInv
<1>4. QED
  BY <1>1, <1>2, <1>3, HistoryInvariance, PTL DEF HSpec, hvars, AnnouncedDateKept

=============================================================================
