------------------------------ MODULE Sessions ------------------------------
(***************************************************************************)
(* The in-memory side of the server: one DeviceSession per QUIC            *)
(* connection, the userStates registry of server/core/session, and the     *)
(* requests that use them.  router.ServeConnection starts a goroutine per  *)
(* stream, so requests of one connection and of several interleave between *)
(* any two critical sections.  One action is one critical section (s.mu,   *)
(* state.mu, userStatesInitMu), one operation on the concurrent map, or    *)
(* one call of the account service, of which only AccountLifecycle is known *)
(* (Accounts has its statements and implements it).                        *)
(***************************************************************************)
EXTENDS Naturals, Sequences, FiniteSets

CONSTANTS
  Requests,     \* slots for concurrent streams
  Sessions,     \* connections, each with its DeviceSession
  Users,        \* account ids
  Devices,      \* device ids
  None,         \* the empty string, a nil pointer, an unlocked mutex
  MaxRequests,  \* bound on requests that ever reach a handler chain
  MaxFaults,    \* bound on failed queries
  MaxClosed     \* bound on connections that end

ASSUME NoneAssumption == None \notin Users \cup Sessions \cup Devices \cup Requests

VARIABLES
  account,      \* user -> its stage in AccountLifecycle
  condemned,    \* accounts the deletion worker is about to delete
  sess,         \* session -> its fields; closed: revokedCh has been closed
  userStates,   \* user -> number of its UserState in the map, or 0
  devices,      \* number of a UserState -> device -> session
  initMu,       \* the request that holds userStatesInitMu
  pc,           \* request -> what its goroutine does next
  req,          \* request -> its session and local variables
  replies,      \* request -> the answers written to its stream, every refusal an "Error"
  broken,       \* request -> its stream can no longer be used
  dispatched,   \* requests that have reached a handler chain so far
  faults,       \* failed queries so far
  gone,         \* sessions whose connection has ended
  escaped       \* history: sessions an invalidation may miss, see SessionsTracked

serviceVars == <<account, condemned>>
registryVars == <<sess, userStates, devices, initMu, gone, escaped>>
streamVars == <<replies, broken>>
vars == <<serviceVars, registryVars, pc, req, streamVars, dispatched, faults>>

Service == INSTANCE AccountLifecycle

Steps == {"ReadFrame", "Service", "SetFields", "GetState", "LockInit", "QueryUser", "SetState",
          "AddDevice", "SendOK", "MwAuth", "MwUser", "MwPending", "Schedule",
          "SendDelete", "ReadUser", "DetachGet", "DetachTake", "DetachRemove", "Revoke",
          "Cancel"}

NewDeviceSession == [user |-> None, device |-> None, revoked |-> FALSE, closed |-> FALSE]

NoRequest == [session |-> None, user |-> None, device |-> None, named |-> None,
              state |-> 0, taken |-> {}]

Init ==
  /\ Service!Init
  /\ sess = [s \in Sessions |-> NewDeviceSession]
  /\ userStates = [u \in Users |-> 0]
  /\ devices = <<>>
  /\ initMu = None
  /\ pc = [r \in Requests |-> "idle"]
  /\ req = [r \in Requests |-> NoRequest]
  /\ replies = [r \in Requests |-> <<>>]
  /\ broken = [r \in Requests |-> FALSE]
  /\ dispatched = 0
  /\ faults = 0
  /\ gone = {}
  /\ escaped = {}

-----------------------------------------------------------------------------
(* How a request goes on, answers and ends. *)

Goto(r, step) == pc' = [pc EXCEPT ![r] = step] /\ UNCHANGED <<req, streamVars>>

GotoWith(r, step, locals) ==
  /\ pc' = [pc EXCEPT ![r] = step]
  /\ req' = [req EXCEPT ![r] = locals]
  /\ UNCHANGED streamVars

Finish(r) == Goto(r, "done")

\* A response envelope is written; or the write fails, as it does once the
\* connection has ended, Handle's own attempt to send an error response fails with
\* it, and the stream is closed.
SendThen(r, code, step) ==
  \/ /\ req[r].session \notin gone
     /\ replies' = [replies EXCEPT ![r] = Append(@, code)]
     /\ pc' = [pc EXCEPT ![r] = step]
     /\ UNCHANGED <<req, broken>>
  \/ /\ broken' = [broken EXCEPT ![r] = TRUE]
     /\ pc' = [pc EXCEPT ![r] = "done"]
     /\ UNCHANGED <<req, replies>>

Send(r, code) == SendThen(r, code, "done")

QueryFails == faults < MaxFaults /\ faults' = faults + 1

-----------------------------------------------------------------------------
(* router.ServeConnection and router.Handle. *)

AcceptStream(r, s) ==
  /\ pc[r] = "idle"
  /\ s \notin gone
  /\ pc' = [pc EXCEPT ![r] = "ReadFrame"]
  /\ req' = [req EXCEPT ![r] = [NoRequest EXCEPT !.session = s]]
  /\ UNCHANGED <<serviceVars, registryVars, streamVars, dispatched, faults>>

\* AcceptStream returns an error and ServeConnection with it.  Requests go on, and
\* the session keeps its place in the registry.
ConnectionEnds(s) ==
  /\ s \notin gone
  /\ Cardinality(gone) < MaxClosed
  /\ gone' = gone \cup {s}
  /\ UNCHANGED <<serviceVars, sess, userStates, devices, initMu, escaped, pc, req, streamVars,
                 dispatched, faults>>

\* The first step of each route main.go registers.
RouteOps == {"Service", "MwAuth", "Cancel", "SendOK"}

\* ReadFrame fails, or the envelope, the op or the route is refused, or the
\* handler chain of a route starts.
HandleStream(r) ==
  /\ pc[r] = "ReadFrame"
  /\ \/ /\ broken' = [broken EXCEPT ![r] = TRUE]
        /\ pc' = [pc EXCEPT ![r] = "done"]
        /\ UNCHANGED <<req, replies, dispatched>>
     \/ Send(r, "Error") /\ UNCHANGED dispatched
     \/ /\ dispatched < MaxRequests
        /\ dispatched' = dispatched + 1
        /\ \E first \in RouteOps : Goto(r, first)
  /\ UNCHANGED <<serviceVars, registryVars, faults>>

\* The goroutine has ended and its stream is forgotten.
StreamEnds(r) ==
  /\ pc[r] = "done"
  /\ pc' = [pc EXCEPT ![r] = "idle"]
  /\ req' = [req EXCEPT ![r] = NoRequest]
  /\ replies' = [replies EXCEPT ![r] = <<>>]
  /\ broken' = [broken EXCEPT ![r] = FALSE]
  /\ UNCHANGED <<serviceVars, registryVars, dispatched, faults>>

-----------------------------------------------------------------------------
(* HandleUserRegister, HandleUserLoginByCredentials, HandleUserLoginByToken:*)
(* the service's answer, Session.Authenticate, the reply.                   *)

\* The service registers a new account, lets in one whose deletion is not
\* pending, or refuses.  Any device may be presented.  Here and below, an error may
\* hide a statement that took effect.
AuthService(r) ==
  /\ pc[r] = "Service"
  /\ \/ \E u \in Users, d \in Devices :
          /\ Service!Register(u) \/ (account[u] = "active" /\ UNCHANGED serviceVars)
          /\ GotoWith(r, "SetFields", [req[r] EXCEPT !.user = u, !.device = d])
     \/ Send(r, "Error") /\ (UNCHANGED serviceVars \/ \E u \in Users : Service!Register(u))
  /\ UNCHANGED <<registryVars, dispatched, faults>>

\* History: a login and an invalidation of one user overlap.
Detaching(u) ==
  \E r \in Requests :
    pc[r] \in {"DetachGet", "DetachTake", "DetachRemove", "Revoke"} /\ req[r].user = u

LoggingIn(u) ==
  {req[r].session : r \in {q \in Requests :
     req[q].user = u /\ pc[q] \in {"GetState", "LockInit", "QueryUser", "SetState", "AddDevice"}}}

\* Mutant: a session that is let in again keeps its closed channel.
SetFieldsKeepsChannel(r) ==
  /\ pc[r] = "SetFields"
  /\ sess' = [sess EXCEPT ![req[r].session] =
                [user |-> req[r].user, device |-> req[r].device, revoked |-> FALSE,
                 closed |-> @.closed]]
  /\ escaped' = escaped \ {req[r].session}
  /\ Goto(r, "GetState")
  /\ UNCHANGED <<serviceVars, userStates, devices, initMu, gone, dispatched, faults>>

\* A revoked session gets a new revokedCh.
SetFields(r) ==
  /\ pc[r] = "SetFields"
  /\ sess' = [sess EXCEPT ![req[r].session] =
                [user |-> req[r].user, device |-> req[r].device, revoked |-> FALSE,
                 closed |-> @.closed /\ ~@.revoked]]
  /\ escaped' = IF Detaching(req[r].user)
                THEN escaped \cup {req[r].session} ELSE escaped \ {req[r].session}
  /\ Goto(r, "GetState")
  /\ UNCHANGED <<serviceVars, userStates, devices, initMu, gone, dispatched, faults>>

GetState(r) ==
  /\ pc[r] = "GetState"
  /\ LET state == userStates[req[r].user]
     IN IF state = 0
        THEN Goto(r, "LockInit")
        ELSE GotoWith(r, "AddDevice", [req[r] EXCEPT !.state = state])
  /\ UNCHANGED <<serviceVars, registryVars, dispatched, faults>>

\* Mutant: the map is not read again under the lock.
LockInitUnchecked(r) ==
  /\ pc[r] = "LockInit"
  /\ initMu = None
  /\ initMu' = r
  /\ Goto(r, "QueryUser")
  /\ UNCHANGED <<serviceVars, sess, userStates, devices, gone, escaped, dispatched, faults>>

\* The second userStates.Get, under userStatesInitMu; the lock is released at once
\* when another request has created the state in between.
LockInit(r) ==
  /\ pc[r] = "LockInit"
  /\ initMu = None
  /\ LET state == userStates[req[r].user]
     IN IF state = 0
        THEN initMu' = r /\ Goto(r, "QueryUser")
        ELSE initMu' = initMu /\ GotoWith(r, "AddDevice", [req[r] EXCEPT !.state = state])
  /\ UNCHANGED <<serviceVars, sess, userStates, devices, gone, escaped, dispatched, faults>>

\* Mutant: the error return does not unlock.
QueryUserKeepsLock(r) ==
  /\ pc[r] = "QueryUser"
  /\ \/ Goto(r, "SetState") /\ UNCHANGED faults
     \/ Goto(r, "SendOK") /\ QueryFails
  /\ UNCHANGED <<serviceVars, registryVars, dispatched>>

\* GetUserByID.  When it fails, or the account is gone, Authenticate unlocks and
\* returns: the session keeps its user but is not registered, and the handler goes
\* on to answer OK.
QueryUser(r) ==
  /\ pc[r] = "QueryUser"
  /\ LET Unregistered == /\ initMu' = None
                         /\ escaped' = escaped \cup {req[r].session}
                         /\ Goto(r, "SendOK")
     IN IF account[req[r].user] # "deleted"
        THEN \/ Goto(r, "SetState") /\ UNCHANGED <<initMu, escaped, faults>>
             \/ Unregistered /\ QueryFails
        ELSE Unregistered /\ UNCHANGED faults
  /\ UNCHANGED <<serviceVars, sess, userStates, devices, gone, dispatched>>

\* Mutant: the map is given a UserState that has not been made.
SetStateNotMade(r) ==
  /\ pc[r] = "SetState"
  /\ userStates' = [userStates EXCEPT ![req[r].user] = Len(devices) + 1]
  /\ initMu' = None
  /\ GotoWith(r, "SendOK", req[r])
  /\ UNCHANGED <<serviceVars, sess, devices, gone, escaped, dispatched, faults>>

NewUserState == [d \in Devices |-> None]

SetState(r) ==
  /\ pc[r] = "SetState"
  /\ devices' = Append(devices, NewUserState)
  /\ userStates' = [userStates EXCEPT ![req[r].user] = Len(devices')]
  /\ initMu' = None
  /\ GotoWith(r, "AddDevice", [req[r] EXCEPT !.state = Len(devices')])
  /\ UNCHANGED <<serviceVars, sess, gone, escaped, dispatched, faults>>

\* devices[deviceID] = s, in the state read before: it may have left the map.  The
\* session it displaces is neither revoked nor told.
AddDevice(r) ==
  /\ pc[r] = "AddDevice"
  /\ devices' = [devices EXCEPT ![req[r].state][req[r].device] = req[r].session]
  /\ escaped' = escaped \cup ({devices[req[r].state][req[r].device]} \ {None, req[r].session})
  /\ Goto(r, "SendOK")
  /\ UNCHANGED <<serviceVars, sess, userStates, initMu, gone, dispatched, faults>>

SendOK(r) ==
  /\ pc[r] = "SendOK"
  /\ Send(r, "OK")
  /\ UNCHANGED <<serviceVars, registryVars, dispatched, faults>>

-----------------------------------------------------------------------------
(* AuthMiddleware, which only account.delete has. *)

\* Mutant: an unauthenticated request is answered and then passed on.
MwAuthGoesOn(r) ==
  /\ pc[r] = "MwAuth"
  /\ IF sess[req[r].session].user = None
     THEN SendThen(r, "Unauthorized", "Schedule")
     ELSE Goto(r, "MwUser")
  /\ UNCHANGED <<serviceVars, registryVars, dispatched, faults>>

\* Session.IsAuthenticated.
MwAuth(r) ==
  /\ pc[r] = "MwAuth"
  /\ IF sess[req[r].session].user = None
     THEN Send(r, "Unauthorized")
     ELSE Goto(r, "MwUser")
  /\ UNCHANGED <<serviceVars, registryVars, dispatched, faults>>

\* Session.UserID, read again; ExistsActiveByUserID refuses an empty id.
MwUser(r) ==
  /\ pc[r] = "MwUser"
  /\ LET user == sess[req[r].session].user
     IN IF user = None
        THEN Send(r, "Error")
        ELSE GotoWith(r, "MwPending", [req[r] EXCEPT !.user = user])
  /\ UNCHANGED <<serviceVars, registryVars, dispatched, faults>>

\* Mutant: a deletion that has started does not count as pending.
MwPendingNotStarted(r) ==
  /\ pc[r] = "MwPending"
  /\ IF account[req[r].user] = "pending" THEN Send(r, "Unauthorized") ELSE Goto(r, "Schedule")
  /\ UNCHANGED <<serviceVars, registryVars, dispatched, faults>>

\* ExistsActiveByUserID.
MwPending(r) ==
  /\ pc[r] = "MwPending"
  /\ \/ /\ account[req[r].user] \in {"pending", "claimed"}
        /\ Send(r, "Unauthorized")
        /\ UNCHANGED faults
     \/ /\ account[req[r].user] \notin {"pending", "claimed"}
        /\ Goto(r, "Schedule")
        /\ UNCHANGED faults
     \/ QueryFails /\ Send(r, "Error")
  /\ UNCHANGED <<serviceVars, registryVars, dispatched>>

-----------------------------------------------------------------------------
(* HandleAccountDelete.  The credentials name the account whose deletion is *)
(* scheduled; the sessions invalidated are those of the user the requesting *)
(* session has after the reply.                                             *)

ScheduleAccountDeletion(r) ==
  /\ pc[r] = "Schedule"
  /\ \/ \E u \in Users :
          /\ Service!ScheduleDeletion(u)
          /\ GotoWith(r, "SendDelete", [req[r] EXCEPT !.named = u])
     \/ Send(r, "Error") /\ (UNCHANGED serviceVars \/ \E u \in Users : Service!ScheduleDeletion(u))
  /\ UNCHANGED <<registryVars, dispatched, faults>>

SendDelete(r) ==
  /\ pc[r] = "SendDelete"
  /\ SendThen(r, "OK", "ReadUser")
  /\ UNCHANGED <<serviceVars, registryVars, dispatched, faults>>

\* Session.UserID after the reply; InvalidateUserSessions begins.
ReadUser(r) ==
  /\ pc[r] = "ReadUser"
  /\ LET user == sess[req[r].session].user
     IN IF user = None
        THEN Finish(r) /\ UNCHANGED escaped
        ELSE /\ GotoWith(r, "DetachGet", [req[r] EXCEPT !.user = user])
             /\ escaped' = escaped \cup LoggingIn(user)
  /\ UNCHANGED <<serviceVars, sess, userStates, devices, initMu, gone, dispatched, faults>>

DetachGet(r) ==
  /\ pc[r] = "DetachGet"
  /\ LET state == userStates[req[r].user]
     IN IF state = 0
        THEN Finish(r)
        ELSE GotoWith(r, "DetachTake", [req[r] EXCEPT !.state = state])
  /\ UNCHANGED <<serviceVars, registryVars, dispatched, faults>>

DetachTake(r) ==
  /\ pc[r] = "DetachTake"
  /\ LET state == req[r].state
         taken == {devices[state][d] : d \in Devices} \ {None}
     IN /\ devices' = [devices EXCEPT ![state] = NewUserState]
        /\ GotoWith(r, "DetachRemove", [req[r] EXCEPT !.taken = taken])
  /\ UNCHANGED <<serviceVars, sess, userStates, initMu, gone, escaped, dispatched, faults>>

\* Whatever state the user has by now leaves the map.
DetachRemove(r) ==
  /\ pc[r] = "DetachRemove"
  /\ userStates' = [userStates EXCEPT ![req[r].user] = 0]
  /\ Goto(r, "Revoke")
  /\ UNCHANGED <<serviceVars, sess, devices, initMu, gone, escaped, dispatched, faults>>

\* Session.Revoke: a session that is already revoked stays as it is.
Revoke(fields) ==
  IF fields.revoked THEN fields
  ELSE [NewDeviceSession EXCEPT !.revoked = TRUE, !.closed = TRUE]

\* Mutant: the loop returns after its first session.
InvalidateFirst(r) ==
  /\ pc[r] = "Revoke"
  /\ \/ \E s \in req[r].taken :
          /\ sess' = [sess EXCEPT ![s] = Revoke(@)]
          /\ Finish(r)
     \/ req[r].taken = {} /\ Finish(r) /\ UNCHANGED sess
  /\ UNCHANGED <<serviceVars, userStates, devices, initMu, gone, escaped, dispatched, faults>>

\* The loop over the sessions taken, in any order.
InvalidateUserSessions(r) ==
  /\ pc[r] = "Revoke"
  /\ \/ \E s \in req[r].taken :
          /\ sess' = [sess EXCEPT ![s] = Revoke(@)]
          /\ GotoWith(r, "Revoke", [req[r] EXCEPT !.taken = @ \ {s}])
     \/ req[r].taken = {} /\ Finish(r) /\ UNCHANGED sess
  /\ UNCHANGED <<serviceVars, userStates, devices, initMu, gone, escaped, dispatched, faults>>

-----------------------------------------------------------------------------
(* HandleAccountDeleteCancel and the deletion worker. *)

\* Success as well when there was nothing to cancel or the account has just gone.
CancelAccountDeletion(r) ==
  /\ pc[r] = "Cancel"
  /\ \/ /\ \/ \E u \in Users : Service!CancelDeletion(u)
           \/ (\E u \in Users : account[u] \in {"active", "deleted"}) /\ UNCHANGED serviceVars
        /\ Goto(r, "SendOK")
     \/ Send(r, "Error") /\ (UNCHANGED serviceVars \/ \E u \in Users : Service!CancelDeletion(u))
  /\ UNCHANGED <<registryVars, dispatched, faults>>

LoginSteps == {"SetFields", "GetState", "LockInit", "QueryUser", "SetState", "AddDevice",
               "SendOK"}

\* The deletions claimed were scheduled 30 days ago and pending ever since, so the
\* requests that scheduled them and any login let in before that are over.
WorkerClaim(S) ==
  /\ \A u \in S, r \in Requests :
       /\ pc[r] \in LoginSteps => req[r].user # u
       /\ pc[r] # "done" => req[r].named # u
  /\ Service!Claim(S)
  /\ UNCHANGED <<registryVars, pc, req, streamVars, dispatched, faults>>

\* The worker deletes the account and leaves its sessions alone.
WorkerDelete(u) ==
  /\ Service!Delete(u)
  /\ UNCHANGED <<registryVars, pc, req, streamVars, dispatched, faults>>

WorkerGivesUp ==
  /\ condemned # {}
  /\ Service!GiveUp
  /\ UNCHANGED <<registryVars, pc, req, streamVars, dispatched, faults>>

-----------------------------------------------------------------------------

Handler(r) ==
  \/ AuthService(r) \/ SetFields(r) \/ GetState(r) \/ LockInit(r) \/ QueryUser(r)
  \/ SetState(r) \/ AddDevice(r) \/ SendOK(r)
  \/ MwAuth(r) \/ MwUser(r) \/ MwPending(r)
  \/ ScheduleAccountDeletion(r) \/ SendDelete(r) \/ ReadUser(r)
  \/ DetachGet(r) \/ DetachTake(r) \/ DetachRemove(r)
  \/ InvalidateUserSessions(r)
  \/ CancelAccountDeletion(r)

Next ==
  \/ \E r \in Requests :
       \/ \E s \in Sessions : AcceptStream(r, s)
       \/ HandleStream(r)
       \/ Handler(r)
       \/ StreamEnds(r)
  \/ \E s \in Sessions : ConnectionEnds(s)
  \/ \E S \in SUBSET Users : WorkerClaim(S)
  \/ \E u \in Users : WorkerDelete(u)
  \/ WorkerGivesUp

Spec == Init /\ [][Next]_vars

\* A goroutine that is not blocked runs; a client need not send anything.
FairSpec == Spec /\ \A r \in Requests : WF_vars(Handler(r))

-----------------------------------------------------------------------------
(* Properties. *)

\* Every field has its type, and the map holds only UserStates that exist.
TypeOK ==
  /\ Service!TypeOK
  /\ sess \in [Sessions -> [user : Users \cup {None}, device : Devices \cup {None},
                            revoked : BOOLEAN, closed : BOOLEAN]]
  /\ devices \in Seq([Devices -> Sessions \cup {None}])
  /\ userStates \in [Users -> 0..Len(devices)]
  /\ initMu \in Requests \cup {None}
  /\ pc \in [Requests -> Steps \cup {"idle", "done"}]
  /\ req \in [Requests -> [session : Sessions \cup {None}, user : Users \cup {None},
                           device : Devices \cup {None}, named : Users \cup {None},
                           state : 0..Len(devices), taken : SUBSET Sessions]]
  /\ replies \in [Requests -> Seq({"OK", "Error", "Unauthorized"})]
  /\ broken \in [Requests -> BOOLEAN]
  /\ dispatched \in Nat
  /\ faults \in Nat
  /\ gone \subseteq Sessions
  /\ escaped \subseteq Sessions

\* A request is answered at most once, and one that has ended was answered unless
\* its stream broke: no early return of the middleware or a handler is followed by
\* another envelope, and none is silent.
AnsweredOnce ==
  \A r \in Requests :
    /\ Len(replies[r]) <= 1
    /\ pc[r] = "done" => Len(replies[r]) = 1 \/ broken[r]

\* revokedCh is closed exactly while the session is revoked, over any sequence of
\* logins and invalidations: Revoke never closes a closed channel (a panic), and a
\* session let in again is not taken for revoked.
ChannelMatchesRevoked == \A s \in Sessions : sess[s].closed <=> sess[s].revoked

Authenticating(s) == \E u \in Users : s \in LoggingIn(u)

Taken(s) == \E r \in Requests : pc[r] \in {"DetachRemove", "Revoke"} /\ s \in req[r].taken

\* Every authenticated session, its connection alive or not, is in the registry
\* under its user and device or in the hands of an invalidation, so that account.delete
\* reaches it.  Only three things let a session escape: another login took its place
\* on the device, GetUserByID failed, or its login overlapped an invalidation of the
\* same user (session.go: the double-checked creation of a UserState, and a detach in
\* three critical sections).
SessionsTracked ==
  \A s \in Sessions \ escaped :
    LET u == sess[s].user
    IN u # None =>
         \/ Authenticating(s)
         \/ Taken(s)
         \/ userStates[u] # 0 /\ devices[userStates[u]][sess[s].device] = s

\* When InvalidateUserSessions ends, no session is authenticated as the user any more
\* but those that escaped, and those a concurrent invalidation is about to revoke.
InvalidationComplete ==
  [][\A r \in Requests :
       pc[r] \in {"DetachGet", "Revoke"} /\ pc'[r] = "done" =>
         \A s \in Sessions :
           sess'[s].user = req[r].user => s \in escaped' \/ Taken(s)']_vars

\* A request whose frame has been read ends: no early return keeps
\* userStatesInitMu, and no two goroutines wait for each other.
RequestsEnd ==
  \A r \in Requests : pc[r] \notin {"idle", "ReadFrame"} ~> pc[r] = "done"

\* tests/account_deletion_test.go, "session_invalidated_after_delete": when
\* account.delete of the session's own account has succeeded and its handler has
\* ended, the session is not authenticated as that account.
SessionInvalidatedAfterDelete ==
  [][\A r \in Requests :
       /\ pc[r] \in {"DetachGet", "Revoke"}
       /\ pc'[r] = "done"
       /\ req[r].named = req[r].user
       => sess'[req[r].session].user # req[r].named]_vars

=============================================================================
