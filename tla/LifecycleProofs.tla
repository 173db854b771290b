--------------------------- MODULE LifecycleProofs --------------------------
(***************************************************************************)
(* Accounts implements AccountLifecycle, for every value of the constants. *)
(***************************************************************************)
EXTENDS AccountsProofs, AccountsRefinement, FiniteSetTheorems

-----------------------------------------------------------------------------
(* Every account has one of the numbers the mapping is about. *)

\* The calls that have yet to create their account.
Registering == {c \in Calls : call[c].op = "Register" /\ call[c].user = 0}

\* The first statements of Register do not know their account yet.
CreatingLocals ==
  \A c \in Calls :
    pc[c] \in {"UsernameExists", "IsUsernameAvailable", "CreateUser"} => call[c].user = 0

\* Room leaves an id for every one of them.
RoomInv ==
  /\ \A u \in users : u.id # 0
  /\ CreatingLocals
  /\ nextUserID + Cardinality(Registering) <= MaxUsers + 1

\* What a step does to the calls that are registering.
LEMMA RegisteringStep ==
  ASSUME IndInv, RoomInv, [Next]_vars
  PROVE  /\ CreatingLocals'
         /\ \/ Registering' \subseteq Registering /\ nextUserID' = nextUserID
            \/ \E c \in Calls : /\ Room("Register")
                                /\ Registering' \subseteq Registering \cup {c}
                                /\ nextUserID' = nextUserID
            \/ \E c \in Registering : /\ Registering' \subseteq Registering \ {c}
                                      /\ nextUserID' = nextUserID + 1
<1>1. /\ call \in [Calls -> CallRecord] /\ ArgsValidated /\ nextUserID \in Nat \ {0}
      /\ pc \in [Calls -> Statements \cup {"idle", "done"}]
  BY DEF IndInv, Typed, TypeOK, UsersInv
<1>2. \A t \in userTokens : t.user # 0
  BY DEF IndInv, TokensInv, UserIDs, RoomInv
<1> DEFINE Same == CreatingLocals' /\ Registering' \subseteq Registering
           Fresh == {"UsernameExists", "IsUsernameAvailable", "CreateUser"}
<1>3. ASSUME NEW c \in Calls, NEW s, NEW locals,
             pc' = [pc EXCEPT ![c] = s], call' = [call EXCEPT ![c] = locals],
             s \in Fresh => locals.user = 0,
             locals.op = "Register" /\ locals.user = 0 => c \in Registering
      PROVE  Same
  BY <1>1, <1>3 DEF RoomInv, CreatingLocals, Registering
<1>4. ASSUME NEW c \in Calls, NEW s, Goto(c, s), s \in Fresh => pc[c] \in Fresh
      PROVE  Same
  BY <1>1, <1>4 DEF Goto, RoomInv, CreatingLocals, Registering
<1>5. ASSUME NEW c \in Calls, NEW r, Return(c, r)
      PROVE  Same
  BY <1>3, <1>5 DEF Return, NoCall
<1>6. ASSUME NEW c \in Calls, NEW e, Fail(c, e)
      PROVE  Same
  BY <1>5, <1>6 DEF Fail
<1> HIDE DEF Same
<1>7. ASSUME NEW c \in Calls, Register(c)
      PROVE  /\ CreatingLocals' /\ nextUserID' = nextUserID
             /\ \/ Registering' \subseteq Registering
                \/ Room("Register") /\ Registering' \subseteq Registering \cup {c}
  <2>1. PICK name \in RawUsernames, password \in RawPasswords, device \in RawDevices :
          LET a == Args("Register", NormalizeUsername(name), password, TrimSpace(device), Blank)
          IN Begin(c, a, RegisterRefusal(a), "UsernameExists")
    BY <1>7 DEF Register
  <2> DEFINE a == Args("Register", NormalizeUsername(name), password, TrimSpace(device), Blank)
  <2>2. a.op = "Register" /\ a.user = 0 /\ nextUserID' = nextUserID
    BY <2>1 DEF Args, Begin, dbVars
  <2>3. CASE Return(c, Failure(a.op, RegisterRefusal(a)))
    BY <1>5, <2>2, <2>3 DEF Same
  <2>4. CASE Room(a.op) /\ GotoWith(c, "UsernameExists", a)
    <3> HIDE DEF a
    <3>1. CreatingLocals' /\ Registering' \subseteq Registering \cup {c}
      BY <1>1, <2>2, <2>4 DEF GotoWith, RoomInv, CreatingLocals, Registering
    <3>2. QED
      BY <2>2, <2>4, <3>1
  <2>5. QED
    BY <2>1, <2>3, <2>4 DEF Begin
<1>8. ASSUME NEW c \in Calls, Request(c), ~Register(c)
      PROVE  Same /\ nextUserID' = nextUserID
  <2>1. ASSUME NEW a, NEW e, NEW s, Begin(c, a, e, s), s \notin Fresh, a.op # "Register"
        PROVE  Same /\ nextUserID' = nextUserID
    <3>1. CASE Return(c, Failure(a.op, e))
      BY <1>5, <2>1, <3>1 DEF Begin, dbVars
    <3>2. CASE GotoWith(c, s, a)
      BY <1>3, <2>1, <3>2 DEF Begin, GotoWith, dbVars
    <3>3. QED
      BY <2>1, <3>1, <3>2 DEF Begin
  <2>2. CASE LoginByCredentials(c)
    BY <2>1, <2>2 DEF LoginByCredentials, Args
  <2>3. CASE LoginByToken(c)
    BY <2>1, <2>3 DEF LoginByToken, Args
  <2>4. CASE ScheduleAccountDeletion(c)
    BY <2>1, <2>4 DEF ScheduleAccountDeletion, Args
  <2>5. CASE CancelAccountDeletion(c)
    BY <2>1, <2>5 DEF CancelAccountDeletion, Args
  <2>6. QED
    BY <1>8, <2>2, <2>3, <2>4, <2>5 DEF Request
<1>9. ASSUME NEW c \in Calls,
             \/ UsernameExists(c) \/ CheckUsernameAvailable(c) \/ SetUsername(c)
             \/ RejectIfPendingDeletion(c) \/ CancelDelete(c)
      PROVE  Same /\ nextUserID' = nextUserID
  BY <1>4, <1>5, <1>6, <1>9
     DEF UsernameExists, CheckUsernameAvailable, SetUsername, RejectIfPendingDeletion,
         CancelDelete, LostAnswer, dbVars
<1>10. ASSUME NEW c \in Calls,
              \/ IssueToken(c) \/ Rotate(c) \/ UpsertDeletion(c) \/ CancelCheck(c)
              \/ StatementFails(c)
       PROVE  Same /\ nextUserID' = nextUserID
  BY <1>5, <1>6, <1>10
     DEF IssueToken, Rotate, UpsertDeletion, CancelCheck, StatementFails, LostAnswer, dbVars
<1>11. ASSUME NEW c \in Calls, RegisterCreateUser(c)
       PROVE  /\ CreatingLocals'
              /\ \/ Registering' \subseteq Registering /\ nextUserID' = nextUserID
                 \/ /\ c \in Registering /\ Registering' \subseteq Registering \ {c}
                    /\ nextUserID' = nextUserID + 1
  <2>1. c \in Registering
    BY <1>1, <1>11 DEF RegisterCreateUser, ArgsValidated, RoomInv, CreatingLocals, Registering
  <2>2. CASE Fail(c, "ErrInternal") /\ nextUserID' = nextUserID + 1
    <3>1. Same
      BY <1>6, <2>2
    <3>2. c \notin Registering'
      BY <1>1, <2>2 DEF Fail, Return, NoCall, Registering
    <3>3. QED
      BY <2>1, <2>2, <3>1, <3>2 DEF Same
  <2>3. CASE /\ GotoWith(c, "SetUsername", [call[c] EXCEPT !.user = nextUserID])
             /\ nextUserID' = nextUserID + 1
    <3> DEFINE locals == [call[c] EXCEPT !.user = nextUserID]
    <3>1. locals.user = nextUserID
      BY <1>1 DEF CallRecord
    <3>2. pc' = [pc EXCEPT ![c] = "SetUsername"] /\ call' = [call EXCEPT ![c] = locals]
      BY <2>3 DEF GotoWith
    <3> HIDE DEF locals
    <3>3. Same
      BY <1>1, <1>3, <3>1, <3>2
    <3>4. c \notin Registering'
      BY <1>1, <3>1, <3>2 DEF Registering
    <3>5. QED
      BY <2>1, <2>3, <3>3, <3>4 DEF Same
  <2>4. CASE Fail(c, "ErrUsernameTaken") /\ nextUserID' = nextUserID
    BY <1>6, <2>4 DEF Same
  <2>5. QED
    BY <1>11, <2>2, <2>3, <2>4 DEF RegisterCreateUser, CreateUser, LostAnswer
<1>12. ASSUME NEW c \in Calls, VerifyCredentials(c)
       PROVE  Same /\ nextUserID' = nextUserID
  <2> DEFINE locals(u) == [call[c] EXCEPT !.user = u.id,
                             !.deleteAt = IF call[c].op = "ScheduleAccountDeletion"
                                          THEN now + Delay ELSE 0]
  <2>1. \A u \in users : locals(u).user = u.id /\ u.id # 0
    BY <1>1 DEF CallRecord, RoomInv
  <2>2. AfterVerify(call[c].op) \notin Fresh /\ nextUserID' = nextUserID
    BY <1>12 DEF AfterVerify, VerifyCredentials, dbVars
  <2>3. \/ \E u \in users : GotoWith(c, AfterVerify(call[c].op), locals(u))
        \/ Fail(c, "ErrInvalidCredentials")
    BY <1>12 DEF VerifyCredentials, GetUserByUsername
  <2> HIDE DEF locals
  <2>4. QED
    BY <1>3, <1>6, <2>1, <2>2, <2>3 DEF GotoWith
<1>13. ASSUME NEW c \in Calls, FindToken(c)
       PROVE  Same /\ nextUserID' = nextUserID
  <2> DEFINE locals(t) == [call[c] EXCEPT !.user = t.user, !.device = t.device, !.tokenID = t.id]
  <2>1. \A t \in userTokens : locals(t).user = t.user /\ t.user # 0
    BY <1>1, <1>2 DEF CallRecord
  <2>2. \/ \E t \in userTokens : GotoWith(c, "ExistsActiveByUserID", locals(t))
        \/ Fail(c, "ErrInvalidToken")
    BY <1>13 DEF FindToken, GetActiveByTokenHash
  <2>3. nextUserID' = nextUserID
    BY <1>13 DEF FindToken, dbVars
  <2> HIDE DEF locals
  <2>4. QED
    BY <1>3, <1>6, <2>1, <2>2, <2>3 DEF GotoWith
<1>14. ASSUME \/ \E c \in Calls : Collect(c)
              \/ Crash \/ Worker \/ WorkerDeleteFails \/ Tick \/ UNCHANGED vars
       PROVE  Same /\ nextUserID' = nextUserID
  <2>1. CASE Crash
    BY <2>1 DEF Crash, NoCall, dbVars, Same, CreatingLocals, Registering
  <2>2. CASE \/ \E c \in Calls : Collect(c)
             \/ Worker \/ WorkerDeleteFails \/ Tick \/ UNCHANGED vars
    <3>1. /\ call' = call /\ nextUserID' = nextUserID
          /\ \A d \in Calls : pc'[d] \in Fresh => pc'[d] = pc[d]
      BY <1>1, <2>2 DEF Collect, Worker, WorkerClaim, WorkerDelete, WorkerUncache,
                        WorkerDeleteFails, Tick, vars, callVars, dbVars
    <3>2. QED
      BY <3>1 DEF Same, RoomInv, CreatingLocals, Registering
  <2>3. QED
    BY <1>14, <2>1, <2>2
<1>15. QED
  BY <1>7, <1>8, <1>9, <1>10, <1>11, <1>12, <1>13, <1>14 DEF Next, Step, Same

LEMMA RoomStep ==
  ASSUME IndInv, RoomInv, [Next]_vars
  PROVE  RoomInv'
<1>1. nextUserID \in Nat \ {0} /\ MaxUsers \in Nat /\ IsFiniteSet(Calls)
  BY BoundsAssumption DEF IndInv, Typed, TypeOK, UsersInv
<1>2. IsFiniteSet(Registering) /\ Cardinality(Registering) \in Nat
  <2>1. Registering \in SUBSET Calls
    BY DEF Registering
  <2>2. QED
    BY <1>1, <2>1, FS_Subset, FS_CardinalityType
<1>3. \A u \in users' : u.id # 0
  BY <1>1, Effects DEF Quiet, Creates, CreateUser, Stores, Rotates, Schedules, Claims, Deletes,
                       DeleteUserByID, RoomInv
<1>4. CASE Registering' \subseteq Registering /\ nextUserID' = nextUserID
  <2>1. Cardinality(Registering') <= Cardinality(Registering) /\ Cardinality(Registering') \in Nat
    BY <1>2, <1>4, FS_Subset, FS_CardinalityType
  <2>2. QED
    BY <1>1, <1>2, <1>3, <1>4, <2>1, RegisteringStep DEF RoomInv
<1>5. ASSUME NEW c \in Calls, Room("Register"), Registering' \subseteq Registering \cup {c},
             nextUserID' = nextUserID
      PROVE  RoomInv'
  <2>1. nextUserID + Cardinality(Registering) <= MaxUsers
    BY <1>5 DEF Room, Registering
  <2>2. /\ IsFiniteSet(Registering \cup {c})
        /\ Cardinality(Registering \cup {c}) <= Cardinality(Registering) + 1
        /\ Cardinality(Registering \cup {c}) \in Nat
    BY <1>2, FS_AddElement, FS_CardinalityType
  <2>3. /\ Cardinality(Registering') <= Cardinality(Registering \cup {c})
        /\ Cardinality(Registering') \in Nat
    BY <1>5, <2>2, FS_Subset, FS_CardinalityType
  <2>4. QED
    BY <1>1, <1>2, <1>3, <1>5, <2>1, <2>2, <2>3, RegisteringStep DEF RoomInv
<1>6. ASSUME NEW c \in Registering, Registering' \subseteq Registering \ {c},
             nextUserID' = nextUserID + 1
      PROVE  RoomInv'
  <2>1. /\ IsFiniteSet(Registering \ {c})
        /\ Cardinality(Registering \ {c}) = Cardinality(Registering) - 1
        /\ Cardinality(Registering \ {c}) \in Nat
    BY <1>2, <1>6, FS_RemoveElement, FS_CardinalityType
  <2>2. /\ Cardinality(Registering') <= Cardinality(Registering \ {c})
        /\ Cardinality(Registering') \in Nat
    BY <1>6, <2>1, FS_Subset, FS_CardinalityType
  <2>3. QED
    BY <1>1, <1>2, <1>3, <1>6, <2>1, <2>2, RegisteringStep DEF RoomInv
<1>7. QED
  BY <1>4, <1>5, <1>6, RegisteringStep


LEMMA RoomInit == Init => RoomInv
<1> SUFFICES ASSUME Init PROVE RoomInv
  OBVIOUS
<1>1. Registering = {}
  BY DEF Init, NoCall, Registering
<1>2. Cardinality(Registering) = 0
  BY <1>1, FS_EmptySet
<1>3. QED
  BY <1>2, BoundsAssumption DEF Init, InitDatabase, RoomInv, CreatingLocals

-----------------------------------------------------------------------------
(* The refinement, action by action of the abstract specification.          *)

\* Stage's cases exclude each other.
StageIs(id) ==
  /\ id >= nextUserID => Stage(id) = "unused"
  /\ id < nextUserID =>
       /\ id \notin UserIDs => Stage(id) = "deleted"
       /\ id \in UserIDs =>
            /\ StartedExists(id) => Stage(id) = "claimed"
            /\ ~StartedExists(id) /\ id \in PendingUsers => Stage(id) = "pending"
            /\ id \notin PendingUsers => Stage(id) = "active"

LEMMA StageCases ==
  ASSUME nextUserID \in Nat, \A u \in users : u.id \in Nat /\ u.id < nextUserID
  PROVE  \A id \in Nat : StageIs(id)
<1>1. \A id \in UserIDs : id \in Nat /\ id < nextUserID
  BY DEF UserIDs
<1>2. \A id : StartedExists(id) => id \in PendingUsers
  BY DEF StartedExists, PendingUsers
<1> SUFFICES ASSUME NEW id \in Nat PROVE StageIs(id)
  OBVIOUS
<1>3. CASE id >= nextUserID
  BY <1>1, <1>3 DEF StageIs, Stage
<1>4. CASE id < nextUserID /\ id \notin UserIDs
  BY <1>4 DEF StageIs, Stage
<1>5. CASE id < nextUserID /\ id \in UserIDs
  BY <1>2, <1>5 DEF StageIs, Stage
<1>6. QED
  BY <1>3, <1>4, <1>5


\* An invariant too: the stages can be read off before and after a step.
StagesRead == \A id \in 1..MaxUsers : StageIs(id)

LEMMA StagesAreRead == IndInv => StagesRead
<1> SUFFICES ASSUME IndInv PROVE StagesRead
  OBVIOUS
<1>1. nextUserID \in Nat /\ \A u \in users : u.id \in Nat /\ u.id < nextUserID
  BY DEF IndInv, Typed, TypeOK, UserRow, UsersInv
<1>2. QED
  BY <1>1, StageCases, BoundsAssumption DEF StagesRead

\* Ids of accounts are among those the mapping is about.
LEMMA AccountIDs ==
  ASSUME IndInv, RoomInv
  PROVE  UserIDs \subseteq 1..MaxUsers /\ \A id \in UserIDs : id < nextUserID
<1>1. nextUserID \in Nat /\ \A u \in users : u.id \in Nat /\ u.id < nextUserID /\ u.id # 0
  BY DEF IndInv, Typed, TypeOK, UserRow, UsersInv, RoomInv
<1>2. Registering \in SUBSET Calls
  BY DEF Registering
<1>3. Cardinality(Registering) \in Nat
  BY <1>2, BoundsAssumption, FS_Subset, FS_CardinalityType
<1>4. nextUserID <= MaxUsers + 1
  BY <1>1, <1>3, BoundsAssumption DEF RoomInv
<1>5. QED
  BY <1>1, <1>4, BoundsAssumption DEF UserIDs

LEMMA RegisterImplemented ==
  ASSUME IndInv, RoomInv, StagesRead, StagesRead', NEW c \in Calls, Creates(c)
  PROVE  \E u \in 1..MaxUsers : Lifecycle!Register(u)
<1>1. nextUserID \in Nat \ {0} /\ users' = users \cup {[id |-> nextUserID,
        username |-> call[c].username, passwordHash |-> hashPassword(call[c].password),
        createdAt |-> now]}
  BY DEF IndInv, Typed, TypeOK, UsersInv, Creates, CreateUser
<1>2. nextUserID' = nextUserID + 1 /\ pendingDeletions' = pendingDeletions /\ claimed' = claimed
  BY DEF Creates, CreateUser
<1>3. nextUserID \in 1..MaxUsers
  <2>1. c \in Registering
    BY DEF IndInv, Typed, ArgsValidated, RoomInv, CreatingLocals, Registering, Creates
  <2>2. IsFiniteSet(Registering)
    <3>1. Registering \in SUBSET Calls
      BY DEF Registering
    <3>2. QED
      BY <3>1, BoundsAssumption, FS_Subset
  <2>3. Cardinality(Registering) \in Nat /\ Cardinality(Registering) # 0
    BY <2>1, <2>2, FS_CardinalityType, FS_EmptySet
  <2>4. QED
    BY <1>1, <2>3, BoundsAssumption DEF RoomInv
<1>4. UserIDs' = UserIDs \cup {nextUserID}
  <2> DEFINE new == [id |-> nextUserID, username |-> call[c].username,
                     passwordHash |-> hashPassword(call[c].password), createdAt |-> now]
  <2>1. users' = users \cup {new} /\ new.id = nextUserID
    BY <1>1
  <2> HIDE DEF new
  <2>2. QED
    BY <2>1 DEF UserIDs
<1>5. nextUserID \notin UserIDs
  BY <1>1, AccountIDs
<1>6. \A id : /\ StartedExists(id)' <=> StartedExists(id)
              /\ id \in PendingUsers' <=> id \in PendingUsers
  BY <1>2 DEF StartedExists, PendingUsers
<1>7. nextUserID \notin PendingUsers
  BY <1>5 DEF IndInv, PendingInv, PendingUsers
<1>8. \A id \in 1..MaxUsers : Stage(id)' = IF id = nextUserID THEN "active" ELSE Stage(id)
  <2> SUFFICES ASSUME NEW id \in 1..MaxUsers
               PROVE  Stage(id)' = IF id = nextUserID THEN "active" ELSE Stage(id)
    OBVIOUS
  <2>1. id \in Nat /\ MaxUsers \in Nat /\ StageIs(id) /\ StageIs(id)'
    BY BoundsAssumption DEF StagesRead
  <2>2. CASE id = nextUserID
    BY <1>1, <1>2, <1>4, <1>6, <1>7, <2>1, <2>2 DEF StageIs
  <2>3. CASE id > nextUserID
    BY <1>1, <1>2, <2>1, <2>3 DEF StageIs
  <2>4. CASE id < nextUserID
    BY <1>1, <1>2, <1>4, <1>6, <2>1, <2>4 DEF StageIs
  <2>5. QED
    BY <1>1, <2>1, <2>2, <2>3, <2>4
<1>9. Stage(nextUserID) = "unused"
  BY <1>1, <1>3 DEF StagesRead, StageIs
<1>10. QED
  BY <1>2, <1>3, <1>8, <1>9 DEF Lifecycle!Register, Lifecycle!Becomes

LEMMA ScheduleImplemented ==
  ASSUME IndInv, RoomInv, StagesRead, StagesRead', NEW c \in Calls, Schedules(c)
  PROVE  \E u \in 1..MaxUsers : Lifecycle!ScheduleDeletion(u)
<1>0. PICK user : user = call[c].user
  OBVIOUS
<1>1. /\ user \in UserIDs /\ UNCHANGED <<users, nextUserID, claimed>>
      /\ pendingDeletions' = {p \in pendingDeletions : p.user # user}
           \cup {[user |-> user, deleteAt |-> call[c].deleteAt, started |-> FALSE]}
  BY <1>0 DEF Schedules, Upsert
<1>2. user \in 1..MaxUsers /\ user < nextUserID
  BY <1>1, AccountIDs
<1>3. UserIDs' = UserIDs
  BY <1>1 DEF UserIDs
<1> DEFINE new == [user |-> user, deleteAt |-> call[c].deleteAt, started |-> FALSE]
<1>4. /\ pendingDeletions' = {p \in pendingDeletions : p.user # user} \cup {new}
      /\ new.user = user /\ ~new.started
  BY <1>1
<1> HIDE DEF new
<1>5. \A id : id # user => /\ StartedExists(id)' <=> StartedExists(id)
                           /\ id \in PendingUsers' <=> id \in PendingUsers
  BY <1>4 DEF StartedExists, PendingUsers
<1>6. ~StartedExists(user)' /\ user \in PendingUsers'
  BY <1>4 DEF StartedExists, PendingUsers
<1>7. \A id \in 1..MaxUsers : Stage(id)' = IF id = user THEN "pending" ELSE Stage(id)
  <2> SUFFICES ASSUME NEW id \in 1..MaxUsers
               PROVE  Stage(id)' = IF id = user THEN "pending" ELSE Stage(id)
    OBVIOUS
  <2>1. id \in Nat /\ nextUserID \in Nat /\ StageIs(id) /\ StageIs(id)'
    BY BoundsAssumption DEF StagesRead, IndInv, Typed, TypeOK
  <2>2. QED
    <3>1. CASE id = user
      BY <1>1, <1>2, <1>3, <1>6, <2>1, <3>1 DEF StageIs
    <3>2. CASE id # user /\ id < nextUserID
      BY <1>1, <1>3, <1>5, <2>1, <3>2 DEF StageIs
    <3>3. CASE id # user /\ id >= nextUserID
      BY <1>1, <2>1, <3>3 DEF StageIs
    <3>4. QED
      BY <2>1, <3>1, <3>2, <3>3
<1>8. Stage(user) \in {"active", "pending", "claimed"}
  BY <1>1, <1>2 DEF StagesRead, StageIs
<1>9. QED
  BY <1>1, <1>2, <1>7, <1>8 DEF Lifecycle!ScheduleDeletion, Lifecycle!Becomes

\* A cancellation that finds no row to delete changes nothing.
LEMMA CancelImplemented ==
  ASSUME IndInv, RoomInv, StagesRead, StagesRead', NEW c \in Calls, Cancels(c)
  PROVE  Lifecycle!GiveUp \/ \E u \in 1..MaxUsers : Lifecycle!CancelDeletion(u)
<1> DEFINE user == call[c].user
<1>1. /\ UNCHANGED <<users, nextUserID, claimed>>
      /\ pendingDeletions' = {p \in pendingDeletions : ~(p.user = user /\ ~p.started)}
  BY DEF Cancels, Cancellable
<1>2. UserIDs' = UserIDs /\ nextUserID \in Nat
  BY <1>1 DEF UserIDs, IndInv, Typed, TypeOK
<1>3. \A p \in pendingDeletions : p.started \in BOOLEAN
  BY DEF IndInv, Typed, TypeOK, PendingRow
<1> HIDE DEF user
<1>4. CASE \E p \in pendingDeletions : p.user = user /\ ~p.started
  <2>1. user \in UserIDs
    BY <1>4 DEF IndInv, PendingInv
  <2>2. user \in 1..MaxUsers /\ user < nextUserID
    BY <2>1, AccountIDs
  <2>3. \A p \in pendingDeletions : p.user = user => ~p.started
    BY <1>4 DEF IndInv, PendingInv
  <2>4. ~StartedExists(user) /\ user \in PendingUsers /\ user \notin PendingUsers'
    BY <1>1, <1>4, <2>3 DEF StartedExists, PendingUsers
  <2>5. \A id : id # user => /\ StartedExists(id)' <=> StartedExists(id)
                             /\ id \in PendingUsers' <=> id \in PendingUsers
    BY <1>1 DEF StartedExists, PendingUsers
  <2>6. \A id \in 1..MaxUsers : Stage(id)' = IF id = user THEN "active" ELSE Stage(id)
    <3> SUFFICES ASSUME NEW id \in 1..MaxUsers
                 PROVE  Stage(id)' = IF id = user THEN "active" ELSE Stage(id)
      OBVIOUS
    <3>1. id \in Nat /\ StageIs(id) /\ StageIs(id)'
      BY BoundsAssumption DEF StagesRead
    <3>2. QED
      BY <1>1, <1>2, <2>1, <2>2, <2>4, <2>5, <3>1 DEF StageIs
  <2>7. Stage(user) = "pending"
    BY <2>1, <2>2, <2>4 DEF StagesRead, StageIs
  <2>8. QED
    BY <1>1, <2>2, <2>6, <2>7 DEF Lifecycle!CancelDeletion, Lifecycle!Becomes
<1>5. CASE ~\E p \in pendingDeletions : p.user = user /\ ~p.started
  <2>1. pendingDeletions' = pendingDeletions
    BY <1>1, <1>5
  <2>2. \A id : Stage(id)' = Stage(id)
    BY <1>1, <2>1 DEF Stage, UserIDs, StartedExists, PendingUsers
  <2>3. QED
    BY <1>1, <2>2 DEF Lifecycle!GiveUp
<1>6. QED
  BY <1>4, <1>5


\* A batch claimed leaves the accounts outside it alone; an empty one changes nothing.
LEMMA ClaimImplemented ==
  ASSUME IndInv, RoomInv, StagesRead, StagesRead', NEW B \in SUBSET Due, ClaimsAll(B)
  PROVE  Lifecycle!GiveUp \/ \E S \in SUBSET (1..MaxUsers) : Lifecycle!Claim(S)
<1> DEFINE S == {p.user : p \in B}
<1>1. /\ claimed = {} /\ claimed' \in {S, {}} /\ UNCHANGED <<users, nextUserID>>
      /\ pendingDeletions' = {IF p \in B THEN [p EXCEPT !.started = TRUE] ELSE p :
                              p \in pendingDeletions}
  BY DEF ClaimsAll, ClaimDue
<1>2. /\ B \subseteq pendingDeletions /\ \A p \in B : ~p.started
      /\ \A p \in pendingDeletions : p \in PendingRow
      /\ \A p, q \in pendingDeletions : p.user = q.user => p = q
      /\ \A p \in pendingDeletions : p.user \in UserIDs
  BY DEF Due, IndInv, Typed, TypeOK, PendingInv
<1>3. \A p \in pendingDeletions : /\ [p EXCEPT !.started = TRUE].user = p.user
                                  /\ [p EXCEPT !.started = TRUE].started
  BY <1>2 DEF PendingRow
<1>4. UserIDs' = UserIDs
  BY <1>1 DEF UserIDs
<1>5. S \subseteq UserIDs /\ UserIDs \subseteq 1..MaxUsers /\ \A id \in UserIDs : id < nextUserID
  BY <1>2, AccountIDs
<1>6. \A id : id \in PendingUsers' <=> id \in PendingUsers
  <2> DEFINE started(p) == IF p \in B THEN [p EXCEPT !.started = TRUE] ELSE p
  <2>1. \A p \in pendingDeletions : started(p).user = p.user
    BY <1>3
  <2>2. pendingDeletions' = {started(p) : p \in pendingDeletions}
    BY <1>1
  <2> HIDE DEF started
  <2>3. QED
    BY <2>1, <2>2 DEF PendingUsers
<1>7. \A id : StartedExists(id)' <=> StartedExists(id) \/ id \in S
  <2> DEFINE started(p) == IF p \in B THEN [p EXCEPT !.started = TRUE] ELSE p
  <2>1. \A p \in pendingDeletions : /\ started(p).user = p.user
                                    /\ started(p).started <=> (p.started \/ p \in B)
    BY <1>2, <1>3
  <2>2. pendingDeletions' = {started(p) : p \in pendingDeletions}
    BY <1>1
  <2> HIDE DEF started
  <2>3. QED
    BY <1>2, <2>1, <2>2 DEF StartedExists
<1>8. \A id \in S : ~StartedExists(id) /\ id \in PendingUsers
  BY <1>2 DEF StartedExists, PendingUsers
<1>9. \A id \in 1..MaxUsers : Stage(id)' = IF id \in S THEN "claimed" ELSE Stage(id)
  <2> SUFFICES ASSUME NEW id \in 1..MaxUsers
               PROVE  Stage(id)' = IF id \in S THEN "claimed" ELSE Stage(id)
    OBVIOUS
  <2> HIDE DEF S
  <2>1. id \in Nat /\ nextUserID \in Nat /\ StageIs(id) /\ StageIs(id)'
    BY BoundsAssumption DEF StagesRead, IndInv, Typed, TypeOK
  <2>2. CASE id \in S
    BY <1>1, <1>4, <1>5, <1>7, <2>1, <2>2 DEF StageIs
  <2>3. CASE id \notin S /\ id < nextUserID
    BY <1>1, <1>4, <1>6, <1>7, <2>1, <2>3 DEF StageIs
  <2>4. CASE id \notin S /\ id >= nextUserID
    BY <1>1, <2>1, <2>4 DEF StageIs
  <2>5. QED
    BY <2>1, <2>2, <2>3, <2>4
<1>10. \A id \in S : Stage(id) = "pending"
  BY <1>5, <1>8 DEF StagesRead, StageIs
<1>11. S \in SUBSET (1..MaxUsers)
  BY <1>5
<1> HIDE DEF S
<1>12. CASE S = {}
  BY <1>1, <1>9, <1>12 DEF Lifecycle!GiveUp
<1>13. CASE S # {}
  BY <1>1, <1>9, <1>10, <1>11, <1>13 DEF Lifecycle!Claim
<1>14. QED
  BY <1>12, <1>13

LEMMA DeleteImplemented ==
  ASSUME IndInv, RoomInv, StagesRead, StagesRead', NEW user \in claimed, Deletes(user)
  PROVE  \E u \in 1..MaxUsers : Lifecycle!Delete(u)
<1>1. /\ users' = {u \in users : u.id # user}
      /\ pendingDeletions' = {p \in pendingDeletions : p.user # user}
      /\ claimed' = claimed \ {user} /\ nextUserID' = nextUserID
  BY DEF Deletes, DeleteUserByID
<1>2. user \in UserIDs
  BY DEF IndInv, PendingInv, ClaimedUsersExist
<1>3. user \in 1..MaxUsers /\ user < nextUserID
  BY <1>2, AccountIDs
<1>4. user \notin UserIDs' /\ \A id : id # user => (id \in UserIDs' <=> id \in UserIDs)
  BY <1>1 DEF UserIDs
<1>5. \A id : id # user => /\ StartedExists(id)' <=> StartedExists(id)
                           /\ id \in PendingUsers' <=> id \in PendingUsers
  BY <1>1 DEF StartedExists, PendingUsers
<1>6. \A id \in 1..MaxUsers : Stage(id)' = IF id = user THEN "deleted" ELSE Stage(id)
  <2> SUFFICES ASSUME NEW id \in 1..MaxUsers
               PROVE  Stage(id)' = IF id = user THEN "deleted" ELSE Stage(id)
    OBVIOUS
  <2>1. id \in Nat /\ nextUserID \in Nat /\ StageIs(id) /\ StageIs(id)'
    BY BoundsAssumption DEF StagesRead, IndInv, Typed, TypeOK
  <2>2. CASE id = user
    BY <1>1, <1>3, <1>4, <2>1, <2>2 DEF StageIs
  <2>3. CASE id # user /\ id < nextUserID
    BY <1>1, <1>4, <1>5, <2>1, <2>3 DEF StageIs
  <2>4. CASE id # user /\ id >= nextUserID
    BY <1>1, <2>1, <2>4 DEF StageIs
  <2>5. QED
    BY <2>1, <2>2, <2>3, <2>4
<1>7. Stage(user) \in {"active", "pending", "claimed"}
  BY <1>2, <1>3 DEF StagesRead, StageIs
<1>8. QED
  BY <1>1, <1>3, <1>6, <1>7 DEF Lifecycle!Delete, Lifecycle!Becomes

\* A step that changes no account at most forgets claimed ones.
LEMMA ForgetImplemented == NothingButForgets => Lifecycle!GiveUp
<1> SUFFICES ASSUME NothingButForgets PROVE Lifecycle!GiveUp
  OBVIOUS
<1>1. \A id : Stage(id)' = Stage(id)
  BY DEF NothingButForgets, Stage, UserIDs, StartedExists, PendingUsers
<1>2. QED
  BY <1>1 DEF NothingButForgets, Lifecycle!GiveUp

\* Whatever the interleaving of requests, worker, failures and crashes, and for any
\* number of calls and accounts, accounts only ever move as AccountLifecycle says:
\* ids are not reused, a claimed deletion is not cancelled, and only an account the
\* worker has claimed is deleted.  Sessions relies on nothing else of the service.
THEOREM LifecycleImplemented == Spec => ImplementsLifecycle
<1> DEFINE Inv == IndInv /\ RoomInv
<1>1. Init => Lifecycle!Init
  <2> SUFFICES ASSUME Init PROVE Lifecycle!Init
    OBVIOUS
  <2>1. StagesRead /\ nextUserID = 1 /\ claimed = {}
    BY IndInvInit, StagesAreRead DEF Init, InitDatabase
  <2>2. \A id \in 1..MaxUsers : Stage(id) = "unused"
    BY <2>1, BoundsAssumption DEF StagesRead, StageIs
  <2>3. QED
    BY <2>1, <2>2 DEF Lifecycle!Init
<1>2. Spec => []Inv
  <2>1. Init => Inv
    BY IndInvInit, RoomInit
  <2>2. Inv /\ [Next]_vars => Inv'
    BY IndInvStep, RoomStep
  <2>3. QED
    BY <2>1, <2>2, PTL DEF Spec
<1>3. Inv => StagesRead
  BY StagesAreRead
<1>4. Inv /\ StagesRead /\ StagesRead' /\ [Next]_vars
        => [Lifecycle!Next]_(Lifecycle!lifecycleVars)
  <2> SUFFICES ASSUME IndInv, RoomInv, StagesRead, StagesRead', [Next]_vars
               PROVE  Lifecycle!Next
    OBVIOUS
  <2>1. PendingInv
    BY DEF IndInv
  <2>2. CASE NothingButForgets
    BY <2>2, ForgetImplemented DEF Lifecycle!Next
  <2>3. ASSUME NEW c \in Calls, Creates(c)
        PROVE  Lifecycle!Next
    BY <2>3, RegisterImplemented DEF Lifecycle!Next
  <2>4. ASSUME NEW c \in Calls, Schedules(c)
        PROVE  Lifecycle!Next
    BY <2>4, ScheduleImplemented DEF Lifecycle!Next
  <2>5. ASSUME NEW c \in Calls, Cancels(c)
        PROVE  Lifecycle!Next
    BY <2>5, CancelImplemented DEF Lifecycle!Next
  <2>6. ASSUME NEW B \in SUBSET Due, ClaimsAll(B)
        PROVE  Lifecycle!Next
    BY <2>6, ClaimImplemented DEF Lifecycle!Next
  <2>7. ASSUME NEW id \in claimed, Deletes(id)
        PROVE  Lifecycle!Next
    BY <2>7, DeleteImplemented DEF Lifecycle!Next
  <2>8. QED
    BY <2>1, <2>2, <2>3, <2>4, <2>5, <2>6, <2>7, AccountEffects
<1>5. QED
  BY <1>1, <1>2, <1>3, <1>4, PTL DEF Spec, ImplementsLifecycle, Lifecycle!Spec

=============================================================================
