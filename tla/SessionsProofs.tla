--------------------------- MODULE SessionsProofs ---------------------------
(***************************************************************************)
(* Proofs about Sessions and SessionsHistory, for every value of their     *)
(* constants: any number of requests, connections, users and devices.      *)
(***************************************************************************)
EXTENDS SessionsHistory, TLAPS

-----------------------------------------------------------------------------
(* The parts of the inductive invariant. *)

LoggingInSteps == {"GetState", "LockInit", "QueryUser", "SetState", "AddDevice"}

DetachSteps == {"DetachGet", "DetachTake", "DetachRemove", "Revoke"}

\* What each step finds in the locals of its request.
LocalsOK ==
  \A r \in Requests :
    /\ pc[r] # "idle" => req[r].session \in Sessions
    /\ pc[r] \in LoggingInSteps \cup {"SetFields"} =>
         req[r].user \in Users /\ req[r].device \in Devices
    /\ pc[r] \in DetachSteps \cup {"MwPending"} => req[r].user \in Users
    /\ pc[r] \in {"AddDevice", "DetachTake"} => req[r].state # 0

\* Where a request stands tells how many answers it has written.
AnswersOK ==
  \A r \in Requests :
    /\ pc[r] \in DetachSteps \cup {"ReadUser"} => Len(replies[r]) = 1
    /\ pc[r] \notin DetachSteps \cup {"ReadUser", "done"} => Len(replies[r]) = 0
    /\ pc[r] = "done" => Len(replies[r]) = 1 \/ (Len(replies[r]) = 0 /\ broken[r])

\* A revoked session has no user, and one with a user has a device.
FieldsOK ==
  \A s \in Sessions :
    /\ sess[s].revoked => sess[s].user = None
    /\ sess[s].user # None => sess[s].device # None

\* The request about to create a UserState holds userStatesInitMu, and its user has none.
InitMuOK ==
  \A r \in Requests :
    pc[r] \in {"QueryUser", "SetState"} => initMu = r /\ userStates[req[r].user] = 0

\* A session that has not escaped is not being let in as its user while an
\* invalidation of that user is on its way.
NoOverlap ==
  \A r \in Requests, q \in Requests :
    /\ pc[r] \in LoggingInSteps
    /\ pc[q] \in DetachSteps
    /\ req[q].user = req[r].user
    /\ sess[req[r].session].user = req[r].user
    => req[r].session \in escaped

\* The login of r is going to register s under its user and device: the UserState it
\* has read, if it has, is still in the map.
WillRegister(r, s) ==
  /\ pc[r] \in LoggingInSteps
  /\ req[r].session = s
  /\ req[r].user = sess[s].user
  /\ req[r].device = sess[s].device
  /\ pc[r] = "AddDevice" => req[r].state = userStates[req[r].user]

Registered(s) ==
  LET u == sess[s].user
  IN userStates[u] # 0 /\ devices[userStates[u]][sess[s].device] = s

\* SessionsTracked, with a login that will succeed instead of any login.
Tracked ==
  \A s \in Sessions \ escaped :
    sess[s].user # None =>
      (\E r \in Requests : WillRegister(r, s)) \/ Taken(s) \/ Registered(s)

\* An invalidation past its critical section on the UserState has taken every session
\* of its user that has not escaped, or another has; as has been done when the UserState
\* it is about to empty is no longer the user's.
TakenAll ==
  \A q \in Requests, s \in Sessions :
    /\ \/ pc[q] \in {"DetachRemove", "Revoke"}
       \/ pc[q] = "DetachTake" /\ req[q].state # userStates[req[q].user]
    /\ sess[s].user = req[q].user
    => s \in escaped \/ Taken(s)

TrackInv == FieldsOK /\ InitMuOK /\ NoOverlap /\ Tracked /\ TakenAll

\* A request the middleware is bound to refuse has read the account that is pending.
GuardedOK ==
  \A r \in guarded :
    /\ pc[r] \in {"MwAuth", "MwUser", "MwPending", "done"}
    /\ PendingDeletion(UserOf(r))
    /\ pc[r] = "MwPending" => req[r].user = UserOf(r)

-----------------------------------------------------------------------------
(* Type correctness. *)

Codes == {"OK", "Error", "Unauthorized"}

Pcs == Steps \cup {"idle", "done"}

LocalRecord == [session : Sessions \cup {None}, user : Users \cup {None},
                device : Devices \cup {None}, named : Users \cup {None},
                state : 0..Len(devices), taken : SUBSET Sessions]

SessionRecord == [user : Users \cup {None}, device : Devices \cup {None},
                  revoked : BOOLEAN, closed : BOOLEAN]

\* The parts of TypeOK.
RequestsTyped ==
  /\ pc \in [Requests -> Pcs]
  /\ req \in [Requests -> LocalRecord]

StreamsTyped ==
  /\ replies \in [Requests -> Seq(Codes)]
  /\ broken \in [Requests -> BOOLEAN]

RegistryTyped ==
  /\ sess \in [Sessions -> SessionRecord]
  /\ devices \in Seq([Devices -> Sessions \cup {None}])
  /\ userStates \in [Users -> 0..Len(devices)]
  /\ initMu \in Requests \cup {None}
  /\ gone \subseteq Sessions
  /\ escaped \subseteq Sessions

CountersTyped == dispatched \in Nat /\ faults \in Nat

Typed ==
  Service!TypeOK /\ RequestsTyped /\ StreamsTyped /\ RegistryTyped /\ CountersTyped /\ LocalsOK

LEMMA TypedIsTypeOK == Typed => TypeOK
BY DEF Typed, TypeOK, RequestsTyped, StreamsTyped, RegistryTyped, CountersTyped, Codes, Pcs,
       LocalRecord, SessionRecord

\* A goroutine that goes on, or writes an answer and then goes on, touches no one else.
LEMMA SendTyped ==
  ASSUME StreamsTyped, pc \in [Requests -> Pcs], NEW r \in Requests, NEW step \in Pcs,
         Goto(r, step) \/ (\E code \in Codes : SendThen(r, code, step))
  PROVE  /\ pc' \in [Requests -> Pcs]
         /\ StreamsTyped'
         /\ req' = req
         /\ pc'[r] \in {step, "done"}
         /\ \A q \in Requests \ {r} : pc'[q] = pc[q]
<1>1. CASE Goto(r, step)
  BY <1>1 DEF StreamsTyped, Goto, streamVars
<1>2. ASSUME NEW code \in Codes, SendThen(r, code, step)
      PROVE  /\ pc' \in [Requests -> Pcs]
             /\ StreamsTyped'
             /\ req' = req
             /\ pc'[r] \in {step, "done"}
             /\ \A q \in Requests \ {r} : pc'[q] = pc[q]
  <2>1. Append(replies[r], code) \in Seq(Codes)
    BY DEF StreamsTyped
  <2>2. QED
    BY <1>2, <2>1 DEF StreamsTyped, SendThen, Pcs
<1>3. QED
  BY <1>1, <1>2


LEMMA TypedInit == Init => Typed
<1> SUFFICES ASSUME Init PROVE Typed
  OBVIOUS
<1>1. Service!TypeOK
  BY DEF Init, Service!Init, Service!TypeOK, Service!Stages
<1>2. devices = <<>> /\ Len(devices) = 0 /\ devices \in Seq([Devices -> Sessions \cup {None}])
  BY DEF Init
<1>3. RequestsTyped /\ StreamsTyped /\ RegistryTyped /\ CountersTyped
  BY <1>2 DEF Init, RequestsTyped, StreamsTyped, RegistryTyped, CountersTyped, Codes, Pcs,
              LocalRecord, SessionRecord, NoRequest, NewDeviceSession
<1>4. LocalsOK
  BY DEF Init, LocalsOK, LoggingInSteps, DetachSteps
<1>5. QED
  BY <1>1, <1>3, <1>4 DEF Typed

\* The steps whose locals need nothing.
PlainSteps == Pcs \ (LoggingInSteps \cup DetachSteps \cup {"SetFields", "MwPending"})

LEMMA PlainStepsAre ==
  PlainSteps = {"idle", "ReadFrame", "Service", "MwAuth", "MwUser", "Cancel", "SendOK",
                "Schedule", "SendDelete", "ReadUser", "done"}
BY DEF PlainSteps, Pcs, Steps, LoggingInSteps, DetachSteps

\* A step that leaves the registry's map alone and moves one request on without new locals.
LEMMA MovesOn ==
  ASSUME RequestsTyped, StreamsTyped, LocalsOK, UNCHANGED devices,
         NEW r \in Requests, pc[r] # "idle",
         NEW step \in PlainSteps,
         Goto(r, step) \/ (\E code \in Codes : SendThen(r, code, step))
  PROVE  RequestsTyped' /\ StreamsTyped' /\ LocalsOK'
<1>1. /\ pc' \in [Requests -> Pcs]
      /\ StreamsTyped'
      /\ req' = req
      /\ pc'[r] \in {step, "done"}
      /\ \A q \in Requests \ {r} : pc'[q] = pc[q]
  BY SendTyped DEF RequestsTyped, PlainSteps
<1>2. LocalRecord' = LocalRecord
  BY DEF LocalRecord
<1>3. RequestsTyped'
  BY <1>1, <1>2 DEF RequestsTyped
<1>4. LocalsOK'
  BY <1>1 DEF LocalsOK, LoggingInSteps, DetachSteps, PlainSteps
<1>5. QED
  BY <1>1, <1>3, <1>4

\* A step that moves one request on with new locals.
LEMMA MovesOnWith ==
  ASSUME RequestsTyped, StreamsTyped, LocalsOK, UNCHANGED devices,
         NEW r \in Requests, NEW step \in Pcs, NEW locals \in LocalRecord,
         GotoWith(r, step, locals),
         step # "idle" => locals.session \in Sessions,
         step \in LoggingInSteps \cup {"SetFields"} =>
           locals.user \in Users /\ locals.device \in Devices,
         step \in DetachSteps \cup {"MwPending"} => locals.user \in Users,
         step \in {"AddDevice", "DetachTake"} => locals.state # 0
  PROVE  RequestsTyped' /\ StreamsTyped' /\ LocalsOK'
<1>1. LocalRecord' = LocalRecord
  BY DEF LocalRecord
<1>2. /\ pc' = [pc EXCEPT ![r] = step]
      /\ req' = [req EXCEPT ![r] = locals]
      /\ replies' = replies /\ broken' = broken
  BY DEF GotoWith, streamVars
<1>3. RequestsTyped' /\ StreamsTyped'
  BY <1>1, <1>2 DEF RequestsTyped, StreamsTyped
<1>4. LocalsOK'
  BY <1>2 DEF LocalsOK, RequestsTyped
<1>5. QED
  BY <1>3, <1>4


\* The steps of the account service keep the types of its state.
LEMMA ServiceTyped ==
  ASSUME Service!TypeOK,
         \/ UNCHANGED serviceVars
         \/ \E u \in Users : \/ Service!Register(u) \/ Service!ScheduleDeletion(u)
                             \/ Service!CancelDeletion(u) \/ Service!Delete(u)
         \/ \E S \in SUBSET Users : Service!Claim(S)
         \/ Service!GiveUp
  PROVE  Service!TypeOK'
BY DEF serviceVars, Service!TypeOK, Service!Stages, Service!Register, Service!ScheduleDeletion,
       Service!CancelDeletion, Service!Delete, Service!Claim, Service!GiveUp, Service!Becomes

\* So do the steps that leave the registry alone but for the mutex and the history.
LEMMA RegistryKept ==
  ASSUME RegistryTyped, UNCHANGED <<sess, userStates, devices, gone>>,
         initMu' \in Requests \cup {None}, escaped' \subseteq Sessions
  PROVE  RegistryTyped'
BY DEF RegistryTyped

LEMMA StreamStepTyped ==
  ASSUME Typed, NEW r \in Requests,
         \/ \E s \in Sessions : AcceptStream(r, s)
         \/ HandleStream(r)
         \/ StreamEnds(r)
  PROVE  Typed'
<1>1. Service!TypeOK /\ RequestsTyped /\ StreamsTyped /\ RegistryTyped /\ CountersTyped /\ LocalsOK
  BY DEF Typed
<1>2. UNCHANGED <<serviceVars, registryVars, faults>>
  BY DEF AcceptStream, HandleStream, StreamEnds
<1>3. Service!TypeOK' /\ RegistryTyped' /\ UNCHANGED devices
  BY <1>1, <1>2, ServiceTyped DEF registryVars, RegistryTyped
<1>4. ASSUME NEW s \in Sessions, AcceptStream(r, s)
      PROVE  RequestsTyped' /\ StreamsTyped' /\ LocalsOK' /\ CountersTyped'
  <2>1. [NoRequest EXCEPT !.session = s] \in LocalRecord
    BY <1>1 DEF NoRequest, LocalRecord, RegistryTyped
  <2>2. GotoWith(r, "ReadFrame", [NoRequest EXCEPT !.session = s])
    BY <1>4 DEF AcceptStream, GotoWith
  <2>3. [NoRequest EXCEPT !.session = s].session \in Sessions
    BY DEF NoRequest
  <2>4. RequestsTyped' /\ StreamsTyped' /\ LocalsOK'
    BY <1>1, <1>3, <2>1, <2>2, <2>3, MovesOnWith DEF Pcs, Steps, LoggingInSteps, DetachSteps
  <2>5. QED
    BY <1>1, <1>4, <2>4 DEF CountersTyped, AcceptStream
<1>5. CASE HandleStream(r)
  <2>1. pc[r] # "idle"
    BY <1>5 DEF HandleStream
  <2>2. CASE SendThen(r, "Error", "done") /\ UNCHANGED dispatched
    <3>1. "done" \in PlainSteps /\ "Error" \in Codes
      BY PlainStepsAre DEF Codes
    <3>2. RequestsTyped' /\ StreamsTyped' /\ LocalsOK'
      BY <1>1, <1>3, <2>1, <2>2, <3>1, MovesOn
    <3>3. QED
      BY <1>1, <1>2, <1>3, <2>2, <3>2 DEF CountersTyped, Typed
  <2>3. CASE dispatched' = dispatched + 1 /\ \E first \in RouteOps : Goto(r, first)
    <3>1. PICK first \in RouteOps : Goto(r, first)
      BY <2>3
    <3>2. first \in PlainSteps
      BY PlainStepsAre DEF RouteOps
    <3>3. RequestsTyped' /\ StreamsTyped' /\ LocalsOK'
      BY <1>1, <1>3, <2>1, <3>1, <3>2, MovesOn
    <3>4. QED
      BY <1>1, <1>2, <1>3, <2>3, <3>3 DEF CountersTyped, Typed
  <2>4. QED
    BY <1>5, <2>2, <2>3 DEF HandleStream, SendThen, Send
<1>6. CASE StreamEnds(r)
  <2>1. NoRequest \in LocalRecord
    BY <1>1 DEF NoRequest, LocalRecord, RegistryTyped
  <2>2. LocalRecord' = LocalRecord
    BY <1>3 DEF LocalRecord
  <2>3. RequestsTyped' /\ StreamsTyped' /\ CountersTyped'
    BY <1>1, <1>6, <2>1, <2>2 DEF StreamEnds, RequestsTyped, StreamsTyped, CountersTyped, Pcs
  <2>4. LocalsOK'
    BY <1>1, <1>6 DEF StreamEnds, RequestsTyped, LocalsOK, LoggingInSteps, DetachSteps
  <2>5. QED
    BY <1>3, <2>3, <2>4 DEF Typed
<1>7. QED
  BY <1>3, <1>4, <1>5, <1>6 DEF Typed


LEMMA LoginStepTyped ==
  ASSUME Typed, NEW r \in Requests,
         \/ AuthService(r) \/ SetFields(r) \/ GetState(r) \/ LockInit(r) \/ QueryUser(r)
         \/ SetState(r) \/ AddDevice(r) \/ SendOK(r)
  PROVE  Typed'
<1>1. /\ Service!TypeOK /\ RequestsTyped /\ StreamsTyped /\ RegistryTyped /\ CountersTyped
      /\ LocalsOK
  BY DEF Typed
<1>2. req[r] \in LocalRecord /\ (pc[r] # "idle" => req[r].session \in Sessions)
  BY <1>1 DEF RequestsTyped, LocalsOK
<1>3. CASE AuthService(r)
  <2>1. Service!TypeOK' /\ RegistryTyped' /\ CountersTyped' /\ UNCHANGED devices
    <3>1. UNCHANGED serviceVars \/ \E u \in Users : Service!Register(u)
      BY <1>3 DEF AuthService
    <3>2. Service!TypeOK'
      BY <1>1, <3>1, ServiceTyped
    <3>3. QED
      BY <1>1, <1>3, <3>2 DEF AuthService, registryVars, RegistryTyped, CountersTyped
  <2>2. ASSUME NEW u \in Users, NEW d \in Devices,
               GotoWith(r, "SetFields", [req[r] EXCEPT !.user = u, !.device = d])
        PROVE  RequestsTyped' /\ StreamsTyped' /\ LocalsOK'
    <3> DEFINE locals == [req[r] EXCEPT !.user = u, !.device = d]
    <3>1. /\ locals \in LocalRecord /\ locals.session \in Sessions
          /\ locals.user \in Users /\ locals.device \in Devices
      BY <1>2, <1>3 DEF LocalRecord, AuthService
    <3>2. QED
      BY <1>1, <2>1, <2>2, <3>1, MovesOnWith DEF Pcs, Steps, LoggingInSteps, DetachSteps
  <2>3. CASE SendThen(r, "Error", "done")
    <3>1. "done" \in PlainSteps /\ "Error" \in Codes
      BY PlainStepsAre DEF Codes
    <3>2. QED
      BY <1>1, <1>3, <2>1, <2>3, <3>1, MovesOn DEF AuthService, Typed
  <2>4. QED
    BY <1>3, <2>1, <2>2, <2>3 DEF AuthService, Send, Typed
<1>4. CASE SetFields(r)
  <2>1. /\ req[r].session \in Sessions /\ req[r].user \in Users /\ req[r].device \in Devices
    BY <1>1, <1>4 DEF LocalsOK, SetFields
  <2>2. GotoWith(r, "GetState", req[r]) /\ UNCHANGED devices
    BY <1>1, <1>4 DEF SetFields, Goto, GotoWith, RequestsTyped, LocalRecord
  <2>3. RequestsTyped' /\ StreamsTyped' /\ LocalsOK'
    BY <1>1, <1>2, <2>1, <2>2, MovesOnWith DEF Pcs, Steps, LoggingInSteps, DetachSteps
  <2>4. RegistryTyped'
    <3>1. (sess[req[r].session].closed /\ ~sess[req[r].session].revoked) \in BOOLEAN
      OBVIOUS
    <3>2. [user |-> req[r].user, device |-> req[r].device, revoked |-> FALSE,
           closed |-> sess[req[r].session].closed /\ ~sess[req[r].session].revoked]
             \in SessionRecord
      BY <2>1, <3>1 DEF SessionRecord
    <3>3. sess' \in [Sessions -> SessionRecord]
      BY <1>1, <1>4, <2>1, <3>2 DEF SetFields, RegistryTyped
    <3>4. escaped' \subseteq Sessions
      BY <1>1, <1>4, <2>1 DEF SetFields, RegistryTyped
    <3>5. QED
      BY <1>1, <1>4, <3>3, <3>4 DEF SetFields, RegistryTyped
  <2>5. Service!TypeOK' /\ CountersTyped'
    BY <1>1, <1>4, ServiceTyped DEF SetFields, CountersTyped
  <2>6. QED
    BY <2>3, <2>4, <2>5 DEF Typed
<1>5. ASSUME NEW state, state = userStates[req[r].user], state # 0,
             GotoWith(r, "AddDevice", [req[r] EXCEPT !.state = state]),
             pc[r] \in {"GetState", "LockInit"}, UNCHANGED devices
      PROVE  RequestsTyped' /\ StreamsTyped' /\ LocalsOK'
  <2> DEFINE locals == [req[r] EXCEPT !.state = state]
  <2>1. req[r].user \in Users /\ req[r].device \in Devices /\ req[r].session \in Sessions
    BY <1>1, <1>5 DEF LocalsOK, LoggingInSteps
  <2>2. state \in 0..Len(devices)
    BY <1>1, <1>5, <2>1 DEF RegistryTyped
  <2>3. /\ locals \in LocalRecord /\ locals.session \in Sessions
        /\ locals.user \in Users /\ locals.device \in Devices /\ locals.state # 0
    BY <1>2, <1>5, <2>1, <2>2 DEF LocalRecord
  <2>4. QED
    BY <1>1, <1>5, <2>3, MovesOnWith DEF Pcs, Steps, LoggingInSteps, DetachSteps
<1>6. ASSUME NEW step \in {"LockInit", "QueryUser", "SetState"}, Goto(r, step),
             pc[r] \in {"GetState", "LockInit", "QueryUser"}, UNCHANGED devices
      PROVE  RequestsTyped' /\ StreamsTyped' /\ LocalsOK'
  <2>1. req[r].user \in Users /\ req[r].device \in Devices /\ req[r].session \in Sessions
    BY <1>1, <1>6 DEF LocalsOK, LoggingInSteps
  <2>2. GotoWith(r, step, req[r])
    BY <1>1, <1>6 DEF Goto, GotoWith, RequestsTyped, LocalRecord
  <2>3. QED
    BY <1>1, <1>2, <1>6, <2>1, <2>2, MovesOnWith DEF Pcs, Steps, LoggingInSteps, DetachSteps
<1>7. CASE GetState(r)
  <2>1. Service!TypeOK' /\ RegistryTyped' /\ CountersTyped' /\ UNCHANGED devices
    BY <1>1, <1>7, ServiceTyped DEF GetState, registryVars, RegistryTyped, CountersTyped
  <2>2. RequestsTyped' /\ StreamsTyped' /\ LocalsOK'
    BY <1>5, <1>6, <1>7, <2>1 DEF GetState
  <2>3. QED
    BY <2>1, <2>2 DEF Typed
<1>8. CASE LockInit(r)
  <2>1. Service!TypeOK' /\ RegistryTyped' /\ CountersTyped' /\ UNCHANGED devices
    BY <1>1, <1>8, ServiceTyped DEF LockInit, RegistryTyped, CountersTyped
  <2>2. RequestsTyped' /\ StreamsTyped' /\ LocalsOK'
    BY <1>5, <1>6, <1>8, <2>1 DEF LockInit
  <2>3. QED
    BY <2>1, <2>2 DEF Typed
<1>9. CASE QueryUser(r)
  <2>1. Service!TypeOK' /\ RegistryTyped' /\ CountersTyped' /\ UNCHANGED devices
    BY <1>1, <1>2, <1>9, ServiceTyped DEF QueryUser, RegistryTyped, CountersTyped, QueryFails
  <2>2. CASE Goto(r, "SetState")
    BY <1>6, <1>9, <2>1, <2>2 DEF QueryUser, Typed
  <2>3. CASE Goto(r, "SendOK")
    BY <1>1, <1>9, <2>1, <2>3, MovesOn, PlainStepsAre DEF QueryUser, Typed
  <2>4. QED
    BY <1>9, <2>2, <2>3 DEF QueryUser
<1>10. CASE SetState(r)
  <2>1. req[r].user \in Users /\ req[r].device \in Devices /\ req[r].session \in Sessions
    BY <1>1, <1>10 DEF LocalsOK, LoggingInSteps, SetState
  <2>2. NewUserState \in [Devices -> Sessions \cup {None}]
    BY DEF NewUserState
  <2>3. /\ devices' = Append(devices, NewUserState)
        /\ devices' \in Seq([Devices -> Sessions \cup {None}])
        /\ Len(devices') = Len(devices) + 1
        /\ Len(devices) \in Nat
    BY <1>1, <1>10, <2>2 DEF SetState, RegistryTyped
  <2>4. RegistryTyped'
    BY <1>1, <1>10, <2>1, <2>3 DEF SetState, RegistryTyped
  <2>5. /\ pc' = [pc EXCEPT ![r] = "AddDevice"]
        /\ req' = [req EXCEPT ![r] = [req[r] EXCEPT !.state = Len(devices')]]
        /\ UNCHANGED <<replies, broken>>
    BY <1>10 DEF SetState, GotoWith, streamVars
  <2>6. LocalRecord \subseteq LocalRecord'
    <3>1. 0..Len(devices) \subseteq 0..Len(devices')
      BY <2>3
    <3>2. QED
      BY <3>1 DEF LocalRecord
  <2>7. [req[r] EXCEPT !.state = Len(devices')] \in LocalRecord'
    <3>1. Len(devices') \in 0..Len(devices')
      BY <2>3
    <3>2. QED
      BY <1>2, <2>6, <3>1 DEF LocalRecord
  <2>8. RequestsTyped' /\ StreamsTyped'
    BY <1>1, <2>5, <2>6, <2>7 DEF RequestsTyped, StreamsTyped, Pcs, Steps
  <2>9. [req[r] EXCEPT !.state = Len(devices')].session = req[r].session
        /\ [req[r] EXCEPT !.state = Len(devices')].user = req[r].user
        /\ [req[r] EXCEPT !.state = Len(devices')].device = req[r].device
        /\ [req[r] EXCEPT !.state = Len(devices')].state # 0
    BY <1>2, <2>3 DEF LocalRecord
  <2>10. LocalsOK'
    BY <1>1, <2>1, <2>5, <2>9 DEF LocalsOK, RequestsTyped, DetachSteps, LoggingInSteps
  <2>11. Service!TypeOK' /\ CountersTyped'
    BY <1>1, <1>10, ServiceTyped DEF SetState, CountersTyped
  <2>12. QED
    BY <2>4, <2>8, <2>10, <2>11 DEF Typed
<1>11. CASE AddDevice(r)
  <2>1. /\ req[r].user \in Users /\ req[r].device \in Devices /\ req[r].session \in Sessions
        /\ req[r].state \in 1..Len(devices)
    BY <1>1, <1>2, <1>11 DEF LocalsOK, LoggingInSteps, AddDevice, LocalRecord, RegistryTyped
  <2>2. /\ devices' \in Seq([Devices -> Sessions \cup {None}])
        /\ Len(devices') = Len(devices)
        /\ devices[req[r].state][req[r].device] \in Sessions \cup {None}
    BY <1>1, <1>11, <2>1 DEF AddDevice, RegistryTyped
  <2>3. RegistryTyped'
    BY <1>1, <1>11, <2>1, <2>2 DEF AddDevice, RegistryTyped
  <2>4. LocalRecord' = LocalRecord
    BY <2>2 DEF LocalRecord
  <2>5. RequestsTyped' /\ StreamsTyped' /\ LocalsOK'
    BY <1>1, <1>2, <1>11, <2>4
       DEF AddDevice, Goto, streamVars, RequestsTyped, StreamsTyped, LocalsOK, Pcs, Steps,
           LoggingInSteps, DetachSteps
  <2>6. Service!TypeOK' /\ CountersTyped'
    BY <1>1, <1>11, ServiceTyped DEF AddDevice, CountersTyped
  <2>7. QED
    BY <2>3, <2>5, <2>6 DEF Typed
<1>12. CASE SendOK(r)
  <2>1. Service!TypeOK' /\ RegistryTyped' /\ CountersTyped' /\ UNCHANGED devices
    BY <1>1, <1>12, ServiceTyped DEF SendOK, registryVars, RegistryTyped, CountersTyped
  <2>2. "done" \in PlainSteps /\ "OK" \in Codes
    BY PlainStepsAre DEF Codes
  <2>3. QED
    BY <1>1, <1>12, <2>1, <2>2, MovesOn DEF SendOK, Send, Typed
<1>13. QED
  BY <1>3, <1>4, <1>7, <1>8, <1>9, <1>10, <1>11, <1>12


LEMMA DeleteStepTyped ==
  ASSUME Typed, NEW r \in Requests,
         \/ MwAuth(r) \/ MwUser(r) \/ MwPending(r)
         \/ ScheduleAccountDeletion(r) \/ SendDelete(r) \/ ReadUser(r)
         \/ CancelAccountDeletion(r)
  PROVE  Typed'
<1>1. /\ Service!TypeOK /\ RequestsTyped /\ StreamsTyped /\ RegistryTyped /\ CountersTyped
      /\ LocalsOK
  BY DEF Typed
<1>2. /\ req[r] \in LocalRecord /\ pc[r] # "idle" /\ req[r].session \in Sessions
      /\ sess[req[r].session].user \in Users \cup {None}
  BY <1>1 DEF RequestsTyped, LocalsOK, RegistryTyped, SessionRecord, MwAuth, MwUser, MwPending,
              ScheduleAccountDeletion, SendDelete, ReadUser, CancelAccountDeletion
<1>3. /\ RegistryTyped' /\ CountersTyped' /\ UNCHANGED devices
  <2>1. LoggingIn(sess[req[r].session].user) \subseteq Sessions
    BY <1>1 DEF LoggingIn, LocalsOK
  <2>2. CASE ReadUser(r)
    BY <1>1, <2>1, <2>2 DEF ReadUser, RegistryTyped, CountersTyped
  <2>3. CASE UNCHANGED <<registryVars, dispatched>> /\ (UNCHANGED faults \/ QueryFails)
    BY <1>1, <2>3 DEF registryVars, RegistryTyped, CountersTyped, QueryFails
  <2>4. QED
    BY <2>2, <2>3 DEF MwAuth, MwUser, MwPending, ScheduleAccountDeletion, SendDelete,
                      CancelAccountDeletion
<1>4. Service!TypeOK'
  <2>1. \/ UNCHANGED serviceVars
        \/ \E u \in Users : Service!ScheduleDeletion(u) \/ Service!CancelDeletion(u)
    BY DEF MwAuth, MwUser, MwPending, ScheduleAccountDeletion, SendDelete, ReadUser,
           CancelAccountDeletion
  <2>2. QED
    BY <1>1, <2>1, ServiceTyped
<1>5. ASSUME \/ Goto(r, "MwUser") \/ Goto(r, "Schedule") \/ Goto(r, "SendOK") \/ Goto(r, "done")
             \/ SendThen(r, "OK", "ReadUser")
             \/ SendThen(r, "Error", "done") \/ SendThen(r, "Unauthorized", "done")
      PROVE  RequestsTyped' /\ StreamsTyped' /\ LocalsOK'
  <2>1. /\ {"MwUser", "Schedule", "SendOK", "ReadUser", "done"} \subseteq PlainSteps
        /\ "OK" \in Codes /\ "Error" \in Codes /\ "Unauthorized" \in Codes
    BY PlainStepsAre DEF Codes
  <2>2. PICK step \in PlainSteps :
          Goto(r, step) \/ (\E code \in Codes : SendThen(r, code, step))
    BY <1>5, <2>1
  <2>3. QED
    BY <1>1, <1>2, <1>3, <2>2, MovesOn
<1>6. ASSUME NEW step \in {"MwPending", "DetachGet"}, NEW user \in Users,
             GotoWith(r, step, [req[r] EXCEPT !.user = user])
      PROVE  RequestsTyped' /\ StreamsTyped' /\ LocalsOK'
  <2> DEFINE locals == [req[r] EXCEPT !.user = user]
  <2>1. locals \in LocalRecord /\ locals.session \in Sessions /\ locals.user \in Users
    BY <1>2 DEF LocalRecord
  <2>2. QED
    BY <1>1, <1>3, <1>6, <2>1, MovesOnWith DEF Pcs, Steps, LoggingInSteps, DetachSteps
<1>7. ASSUME NEW u \in Users, GotoWith(r, "SendDelete", [req[r] EXCEPT !.named = u])
      PROVE  RequestsTyped' /\ StreamsTyped' /\ LocalsOK'
  <2> DEFINE locals == [req[r] EXCEPT !.named = u]
  <2>1. locals \in LocalRecord /\ locals.session \in Sessions
    BY <1>2 DEF LocalRecord
  <2>2. QED
    BY <1>1, <1>3, <1>7, <2>1, MovesOnWith DEF Pcs, Steps, LoggingInSteps, DetachSteps
<1>8. RequestsTyped' /\ StreamsTyped' /\ LocalsOK'
  <2>1. CASE MwAuth(r)
    BY <1>5, <2>1 DEF MwAuth, Send
  <2>2. CASE MwUser(r)
    BY <1>2, <1>5, <1>6, <2>2 DEF MwUser, Send
  <2>3. CASE MwPending(r)
    BY <1>5, <2>3 DEF MwPending, Send
  <2>4. CASE ScheduleAccountDeletion(r)
    BY <1>5, <1>7, <2>4 DEF ScheduleAccountDeletion, Send
  <2>5. CASE SendDelete(r)
    BY <1>5, <2>5 DEF SendDelete
  <2>6. CASE ReadUser(r)
    BY <1>2, <1>5, <1>6, <2>6 DEF ReadUser, Finish
  <2>7. CASE CancelAccountDeletion(r)
    BY <1>5, <2>7 DEF CancelAccountDeletion, Send
  <2>8. QED
    BY <2>1, <2>2, <2>3, <2>4, <2>5, <2>6, <2>7
<1>9. QED
  BY <1>1, <1>3, <1>4, <1>8 DEF Typed

LEMMA DetachStepTyped ==
  ASSUME Typed, NEW r \in Requests,
         DetachGet(r) \/ DetachTake(r) \/ DetachRemove(r) \/ InvalidateUserSessions(r)
  PROVE  Typed'
<1>1. /\ Service!TypeOK /\ RequestsTyped /\ StreamsTyped /\ RegistryTyped /\ CountersTyped
      /\ LocalsOK
  BY DEF Typed
<1>2. /\ req[r] \in LocalRecord /\ pc[r] # "idle" /\ req[r].session \in Sessions
      /\ req[r].user \in Users
  BY <1>1 DEF RequestsTyped, LocalsOK, DetachSteps, DetachGet, DetachTake, DetachRemove,
              InvalidateUserSessions
<1>3. Service!TypeOK' /\ CountersTyped'
  BY <1>1, ServiceTyped DEF DetachGet, DetachTake, DetachRemove, InvalidateUserSessions,
                            CountersTyped
<1>4. CASE DetachGet(r)
  <2>1. RegistryTyped' /\ UNCHANGED devices
    BY <1>1, <1>4 DEF DetachGet, registryVars, RegistryTyped
  <2>2. CASE Goto(r, "done")
    BY <1>1, <1>2, <1>3, <2>1, <2>2, MovesOn, PlainStepsAre DEF Typed
  <2>3. CASE /\ userStates[req[r].user] # 0
             /\ GotoWith(r, "DetachTake", [req[r] EXCEPT !.state = userStates[req[r].user]])
    <3> DEFINE locals == [req[r] EXCEPT !.state = userStates[req[r].user]]
    <3>1. userStates[req[r].user] \in 0..Len(devices)
      BY <1>1, <1>2 DEF RegistryTyped
    <3>2. /\ locals \in LocalRecord /\ locals.session \in Sessions /\ locals.user \in Users
          /\ locals.state # 0
      BY <1>2, <2>3, <3>1 DEF LocalRecord
    <3>3. RequestsTyped' /\ StreamsTyped' /\ LocalsOK'
      BY <1>1, <2>1, <2>3, <3>2, MovesOnWith DEF Pcs, Steps, LoggingInSteps, DetachSteps
    <3>4. QED
      BY <1>3, <2>1, <3>3 DEF Typed
  <2>4. QED
    BY <1>4, <2>2, <2>3 DEF DetachGet, Finish
<1>5. CASE DetachTake(r)
  <2> DEFINE state == req[r].state
             taken == {devices[state][d] : d \in Devices} \ {None}
             locals == [req[r] EXCEPT !.taken = taken]
  <2>1. state \in 1..Len(devices)
    BY <1>1, <1>2, <1>5 DEF LocalsOK, DetachTake, LocalRecord, RegistryTyped
  <2>2. devices[state] \in [Devices -> Sessions \cup {None}]
    BY <1>1, <2>1 DEF RegistryTyped
  <2>3. taken \in SUBSET Sessions
    BY <2>2
  <2>4. devices' = [devices EXCEPT ![state] = NewUserState]
    BY <1>5 DEF DetachTake
  <2>5. NewUserState \in [Devices -> Sessions \cup {None}]
    BY DEF NewUserState
  <2>6. devices' \in Seq([Devices -> Sessions \cup {None}]) /\ Len(devices') = Len(devices)
    BY <1>1, <2>1, <2>4, <2>5 DEF RegistryTyped
  <2>7. RegistryTyped'
    BY <1>1, <1>5, <2>6 DEF DetachTake, RegistryTyped
  <2>8. LocalRecord' = LocalRecord
    BY <2>6 DEF LocalRecord
  <2>9. locals \in LocalRecord /\ locals.session \in Sessions /\ locals.user \in Users
    BY <1>2, <2>3 DEF LocalRecord
  <2>10. /\ pc' = [pc EXCEPT ![r] = "DetachRemove"]
         /\ req' = [req EXCEPT ![r] = locals]
         /\ UNCHANGED <<replies, broken>>
    BY <1>5 DEF DetachTake, GotoWith, streamVars
  <2> HIDE DEF locals
  <2>11. RequestsTyped' /\ StreamsTyped'
    BY <1>1, <2>8, <2>9, <2>10 DEF RequestsTyped, StreamsTyped, Pcs, Steps
  <2>12. LocalsOK'
    BY <1>1, <2>9, <2>10 DEF LocalsOK, RequestsTyped, LoggingInSteps, DetachSteps
  <2>13. QED
    BY <1>3, <2>7, <2>11, <2>12 DEF Typed
<1>6. CASE DetachRemove(r)
  <2>1. RegistryTyped' /\ UNCHANGED devices
    BY <1>1, <1>2, <1>6 DEF DetachRemove, RegistryTyped
  <2>2. GotoWith(r, "Revoke", req[r])
    BY <1>1, <1>6 DEF DetachRemove, Goto, GotoWith, RequestsTyped, LocalRecord
  <2>3. RequestsTyped' /\ StreamsTyped' /\ LocalsOK'
    BY <1>1, <1>2, <2>1, <2>2, MovesOnWith DEF Pcs, Steps, LoggingInSteps, DetachSteps
  <2>4. QED
    BY <1>3, <2>1, <2>3 DEF Typed
<1>7. CASE InvalidateUserSessions(r)
  <2>1. ASSUME NEW s \in req[r].taken,
               sess' = [sess EXCEPT ![s] = Revoke(@)],
               GotoWith(r, "Revoke", [req[r] EXCEPT !.taken = @ \ {s}])
        PROVE  Typed'
    <3>1. s \in Sessions /\ req[r].taken \ {s} \in SUBSET Sessions
      BY <1>2 DEF LocalRecord
    <3>2. Revoke(sess[s]) \in SessionRecord
      BY <1>1, <3>1 DEF Revoke, SessionRecord, NewDeviceSession, RegistryTyped
    <3>3. RegistryTyped' /\ UNCHANGED devices
      BY <1>1, <1>7, <2>1, <3>1, <3>2 DEF InvalidateUserSessions, RegistryTyped
    <3> DEFINE locals == [req[r] EXCEPT !.taken = @ \ {s}]
    <3>4. locals \in LocalRecord /\ locals.session \in Sessions /\ locals.user \in Users
      BY <1>2, <3>1 DEF LocalRecord
    <3>5. RequestsTyped' /\ StreamsTyped' /\ LocalsOK'
      BY <1>1, <2>1, <3>3, <3>4, MovesOnWith DEF Pcs, Steps, LoggingInSteps, DetachSteps
    <3>6. QED
      BY <1>3, <3>3, <3>5 DEF Typed
  <2>2. CASE Goto(r, "done") /\ UNCHANGED sess
    <3>1. RegistryTyped' /\ UNCHANGED devices
      BY <1>1, <1>7, <2>2 DEF InvalidateUserSessions, RegistryTyped
    <3>2. QED
      BY <1>1, <1>2, <1>3, <2>2, <3>1, MovesOn, PlainStepsAre DEF Typed
  <2>3. QED
    BY <1>7, <2>1, <2>2 DEF InvalidateUserSessions, Finish
<1>8. QED
  BY <1>4, <1>5, <1>6, <1>7

LEMMA TypedStep == Typed /\ [Next]_vars => Typed'
<1> SUFFICES ASSUME Typed, [Next]_vars PROVE Typed'
  OBVIOUS
<1>1. CASE UNCHANGED vars
  <2>1. UNCHANGED <<account, condemned, sess, userStates, devices, initMu, gone, escaped, pc, req,
                    replies, broken, dispatched, faults>>
    BY <1>1 DEF vars, serviceVars, registryVars, streamVars
  <2>2. QED
    BY <2>1 DEF Typed, Service!TypeOK, RequestsTyped, StreamsTyped, RegistryTyped, CountersTyped,
                LocalsOK, LocalRecord
<1>2. ASSUME NEW r \in Requests, Handler(r)
      PROVE  Typed'
  BY <1>2, LoginStepTyped, DeleteStepTyped, DetachStepTyped DEF Handler
<1>3. ASSUME \/ \E s \in Sessions : ConnectionEnds(s)
             \/ \E S \in SUBSET Users : WorkerClaim(S)
             \/ \E u \in Users : WorkerDelete(u)
             \/ WorkerGivesUp
      PROVE  Typed'
  <2>1. UNCHANGED <<sess, userStates, devices, initMu, escaped, pc, req, replies, broken,
                    dispatched, faults>>
    BY <1>3 DEF ConnectionEnds, WorkerClaim, WorkerDelete, WorkerGivesUp, registryVars, streamVars
  <2>2. gone' \subseteq Sessions
    BY <1>3 DEF ConnectionEnds, WorkerClaim, WorkerDelete, WorkerGivesUp, registryVars, Typed,
                RegistryTyped
  <2>3. Service!TypeOK'
    <3>1. \/ UNCHANGED serviceVars
          \/ \E u \in Users : Service!Delete(u)
          \/ \E S \in SUBSET Users : Service!Claim(S)
          \/ Service!GiveUp
      BY <1>3 DEF ConnectionEnds, WorkerClaim, WorkerDelete, WorkerGivesUp
    <3>2. QED
      BY <3>1, ServiceTyped DEF Typed
  <2>4. QED
    BY <2>1, <2>2, <2>3 DEF Typed, RequestsTyped, StreamsTyped, RegistryTyped, CountersTyped,
                            LocalsOK, LocalRecord
<1>4. QED
  BY <1>1, <1>2, <1>3, StreamStepTyped DEF Next


\* TypeOK holds in every behaviour: in particular every UserState a request or the map
\* names exists, and every request finds a session, a user and a device where it needs one.
THEOREM TypeCorrect == Spec => []TypeOK
<1>1. Init => Typed
  BY TypedInit
<1>2. Typed /\ [Next]_vars => Typed'
  BY TypedStep
<1>3. Typed => TypeOK
  BY TypedIsTypeOK
<1>4. QED
  BY <1>1, <1>2, <1>3, PTL DEF Spec

-----------------------------------------------------------------------------
(* Answers. *)

AnsweredSteps == DetachSteps \cup {"ReadUser"}

OpenSteps == Pcs \ (AnsweredSteps \cup {"done"})

LEMMA OpenStepsAre ==
  OpenSteps = {"idle", "ReadFrame", "Service", "SetFields", "GetState", "LockInit", "QueryUser",
               "SetState", "AddDevice", "SendOK", "MwAuth", "MwUser", "MwPending", "Schedule",
               "SendDelete", "Cancel"}
BY DEF OpenSteps, Pcs, Steps, AnsweredSteps, DetachSteps

\* A request writes its answer when it leaves the open steps, and never else.
LEMMA AnswerCases ==
  ASSUME Typed, [Next]_vars
  PROVE  \/ UNCHANGED <<pc, replies, broken>>
         \/ \E r \in Requests :
              \/ StreamEnds(r)
              \/ /\ UNCHANGED <<replies, broken>>
                 /\ \E step \in Pcs :
                      /\ pc' = [pc EXCEPT ![r] = step]
                      /\ \/ pc[r] \in OpenSteps /\ step \in OpenSteps
                         \/ pc[r] \in AnsweredSteps /\ step \in AnsweredSteps \cup {"done"}
              \/ /\ pc[r] \in OpenSteps
                 /\ \E code \in Codes, step \in {"ReadUser", "done"} : SendThen(r, code, step)
<1> DEFINE Moves(r) ==
             /\ UNCHANGED <<replies, broken>>
             /\ \E step \in Pcs :
                  /\ pc' = [pc EXCEPT ![r] = step]
                  /\ \/ pc[r] \in OpenSteps /\ step \in OpenSteps
                     \/ pc[r] \in AnsweredSteps /\ step \in AnsweredSteps \cup {"done"}
           Answers(r) ==
             /\ pc[r] \in OpenSteps
             /\ \E code \in Codes, step \in {"ReadUser", "done"} : SendThen(r, code, step)
<1>1. ASSUME NEW r \in Requests, NEW step \in OpenSteps, pc[r] \in OpenSteps,
             Goto(r, step) \/ (\E locals : GotoWith(r, step, locals))
      PROVE  Moves(r)
  BY <1>1 DEF Goto, GotoWith, streamVars, OpenSteps
<1>2. ASSUME NEW r \in Requests, NEW step \in AnsweredSteps \cup {"done"},
             pc[r] \in AnsweredSteps,
             Goto(r, step) \/ (\E locals : GotoWith(r, step, locals))
      PROVE  Moves(r)
  BY <1>2 DEF Goto, GotoWith, streamVars, AnsweredSteps, Pcs, Steps, DetachSteps
<1>3. ASSUME NEW r \in Requests, pc[r] \in OpenSteps,
             NEW code \in Codes, NEW step \in {"ReadUser", "done"}, SendThen(r, code, step)
      PROVE  Answers(r)
  BY <1>3
<1>4. "OK" \in Codes /\ "Error" \in Codes /\ "Unauthorized" \in Codes
  BY DEF Codes
<1> HIDE DEF Moves, Answers
<1>5. ASSUME NEW r \in Requests,
             \/ AuthService(r) \/ SetFields(r) \/ GetState(r) \/ LockInit(r) \/ QueryUser(r)
             \/ SetState(r) \/ AddDevice(r) \/ SendOK(r)
      PROVE  Moves(r) \/ Answers(r)
  BY <1>1, <1>3, <1>4, <1>5, OpenStepsAre
     DEF AuthService, SetFields, GetState, LockInit, QueryUser, SetState, AddDevice, SendOK, Send
<1>6. ASSUME NEW r \in Requests,
             \/ MwAuth(r) \/ MwUser(r) \/ MwPending(r)
             \/ ScheduleAccountDeletion(r) \/ SendDelete(r) \/ CancelAccountDeletion(r)
      PROVE  Moves(r) \/ Answers(r)
  BY <1>1, <1>3, <1>4, <1>6, OpenStepsAre
     DEF MwAuth, MwUser, MwPending, ScheduleAccountDeletion, SendDelete, CancelAccountDeletion,
         Send
<1>7. ASSUME NEW r \in Requests,
             \/ ReadUser(r) \/ DetachGet(r) \/ DetachTake(r) \/ DetachRemove(r)
             \/ InvalidateUserSessions(r)
      PROVE  Moves(r)
  BY <1>2, <1>7
     DEF ReadUser, DetachGet, DetachTake, DetachRemove, InvalidateUserSessions, Finish,
         AnsweredSteps, DetachSteps
<1>8. ASSUME NEW r \in Requests, NEW s \in Sessions, AcceptStream(r, s)
      PROVE  Moves(r)
  <2>1. GotoWith(r, "ReadFrame", [NoRequest EXCEPT !.session = s])
    BY <1>8 DEF AcceptStream, GotoWith
  <2>2. QED
    BY <1>1, <1>8, <2>1, OpenStepsAre DEF AcceptStream
<1>9. ASSUME NEW r \in Requests, HandleStream(r)
      PROVE  Moves(r) \/ Answers(r)
  <2>1. pc[r] \in OpenSteps
    BY <1>9, OpenStepsAre DEF HandleStream
  <2>2. CASE SendThen(r, "Error", "done")
    BY <1>3, <1>4, <2>1, <2>2
  <2>3. CASE \E first \in RouteOps : Goto(r, first)
    BY <1>1, <2>1, <2>3, OpenStepsAre DEF RouteOps
  <2>4. QED
    BY <1>9, <2>2, <2>3 DEF HandleStream, Send, SendThen
<1>10. CASE \/ UNCHANGED vars
            \/ \E s \in Sessions : ConnectionEnds(s)
            \/ \E S \in SUBSET Users : WorkerClaim(S)
            \/ \E u \in Users : WorkerDelete(u)
            \/ WorkerGivesUp
  BY <1>10 DEF vars, streamVars, ConnectionEnds, WorkerClaim, WorkerDelete, WorkerGivesUp
<1>11. CASE \E r \in Requests : StreamEnds(r) \/ Moves(r) \/ Answers(r)
  BY <1>11 DEF Moves, Answers
<1>12. QED
  BY <1>5, <1>6, <1>7, <1>8, <1>9, <1>10, <1>11 DEF Next, Handler

LEMMA AnswersStep == Typed /\ AnswersOK /\ [Next]_vars => AnswersOK'
<1> SUFFICES ASSUME Typed, AnswersOK, [Next]_vars PROVE AnswersOK'
  OBVIOUS
<1>1. pc \in [Requests -> Pcs] /\ StreamsTyped
  BY DEF Typed, RequestsTyped
<1>2. CASE UNCHANGED <<pc, replies, broken>>
  BY <1>2 DEF AnswersOK
<1>3. ASSUME NEW r \in Requests, StreamEnds(r)
      PROVE  AnswersOK'
  BY <1>1, <1>3 DEF StreamEnds, AnswersOK, StreamsTyped, DetachSteps
<1>4. ASSUME NEW r \in Requests, NEW step \in Pcs, UNCHANGED <<replies, broken>>,
             pc' = [pc EXCEPT ![r] = step],
             \/ pc[r] \in OpenSteps /\ step \in OpenSteps
             \/ pc[r] \in AnsweredSteps /\ step \in AnsweredSteps \cup {"done"}
      PROVE  AnswersOK'
  BY <1>1, <1>4 DEF AnswersOK, OpenSteps, AnsweredSteps, DetachSteps
<1>5. ASSUME NEW r \in Requests, NEW code \in Codes, NEW step \in {"ReadUser", "done"},
             pc[r] \in OpenSteps, SendThen(r, code, step)
      PROVE  AnswersOK'
  <2>1. Len(replies[r]) = 0 /\ replies[r] \in Seq(Codes)
    BY <1>1, <1>5 DEF AnswersOK, OpenSteps, AnsweredSteps, StreamsTyped
  <2>2. Len(Append(replies[r], code)) = 1
    BY <2>1
  <2>3. QED
    BY <1>1, <1>5, <2>1, <2>2 DEF AnswersOK, SendThen, StreamsTyped, DetachSteps
<1>6. QED
  BY <1>2, <1>3, <1>4, <1>5, AnswerCases

\* No early return of the router, the middleware or a handler is followed by another
\* envelope or is silent, however many requests run.
THEOREM OneAnswer == Spec => []AnsweredOnce
<1>1. Init => Typed /\ AnswersOK
  <2>1. Init => AnswersOK
    BY DEF Init, AnswersOK, DetachSteps
  <2>2. QED
    BY <2>1, TypedInit
<1>2. Typed /\ AnswersOK /\ [Next]_vars => (Typed /\ AnswersOK)'
  BY TypedStep, AnswersStep
<1>3. Typed /\ AnswersOK => AnsweredOnce
  <2> SUFFICES ASSUME Typed, AnswersOK, NEW r \in Requests
               PROVE  /\ Len(replies[r]) <= 1
                      /\ pc[r] = "done" => Len(replies[r]) = 1 \/ broken[r]
    BY DEF AnsweredOnce
  <2>1. Len(replies[r]) = 0 \/ Len(replies[r]) = 1
    BY DEF AnswersOK
  <2>2. pc[r] = "done" => Len(replies[r]) = 1 \/ broken[r]
    BY DEF AnswersOK
  <2>3. Len(replies[r]) <= 1
    <3>1. \A n : n = 0 \/ n = 1 => n <= 1
      OBVIOUS
    <3>2. QED
      BY <2>1, <3>1
  <2>4. QED
    BY <2>2, <2>3
<1>4. QED
  BY <1>1, <1>2, <1>3, PTL DEF Spec


-----------------------------------------------------------------------------
(* The registry.  What a step can do to it and to the requests that use it. *)

\* r is neither logging in nor invalidating, before and after, and nothing else moves.
Aside(r) ==
  /\ UNCHANGED <<sess, userStates, devices, initMu, escaped>>
  /\ \A q \in Requests \ {r} : pc'[q] = pc[q] /\ req'[q] = req[q]
  /\ pc[r] \notin LoggingInSteps \cup DetachSteps
  /\ pc'[r] \notin LoggingInSteps \cup DetachSteps

ReadUserStarts(r) == ReadUser(r) /\ sess[req[r].session].user # None

LEMMA RegistryCases ==
  ASSUME Typed, [Next]_vars
  PROVE  \/ UNCHANGED <<sess, userStates, devices, initMu, escaped, pc, req>>
         \/ \E r \in Requests :
              \/ Aside(r)
              \/ SetFields(r) \/ GetState(r) \/ LockInit(r) \/ QueryUser(r) \/ SetState(r)
              \/ AddDevice(r) \/ ReadUserStarts(r)
              \/ DetachGet(r) \/ DetachTake(r) \/ DetachRemove(r) \/ InvalidateUserSessions(r)
<1>1. pc \in [Requests -> Pcs] /\ StreamsTyped
  BY DEF Typed, RequestsTyped
<1>2. CASE \/ UNCHANGED vars
           \/ \E s \in Sessions : ConnectionEnds(s)
           \/ \E S \in SUBSET Users : WorkerClaim(S)
           \/ \E u \in Users : WorkerDelete(u)
           \/ WorkerGivesUp
  BY <1>2 DEF vars, registryVars, ConnectionEnds, WorkerClaim, WorkerDelete, WorkerGivesUp
<1> DEFINE Others(r) == \A q \in Requests \ {r} : pc'[q] = pc[q] /\ req'[q] = req[q]
           Outside == PlainSteps \cup {"SetFields", "MwPending"}
<1>3. \A x \in Outside : x \notin LoggingInSteps \cup DetachSteps
  BY PlainStepsAre DEF LoggingInSteps, DetachSteps
<1>4. ASSUME NEW r \in Requests, NEW step \in Outside,
             \/ Goto(r, step)
             \/ \E code \in Codes : SendThen(r, code, step)
             \/ \E locals : GotoWith(r, step, locals)
      PROVE  Others(r) /\ pc'[r] \in Outside
  <2>1. step \in Pcs /\ "done" \in Outside
    BY PlainStepsAre DEF PlainSteps, Pcs, Steps
  <2>2. CASE Goto(r, step) \/ \E code \in Codes : SendThen(r, code, step)
    BY <1>1, <1>4, <2>1, <2>2, SendTyped
  <2>3. CASE \E locals : GotoWith(r, step, locals)
    <3>1. PICK locals : GotoWith(r, step, locals)
      BY <2>3
    <3>2. pc' = [pc EXCEPT ![r] = step] /\ req' = [req EXCEPT ![r] = locals]
      BY <3>1 DEF GotoWith
    <3>3. req \in [Requests -> LocalRecord]
      BY DEF Typed, RequestsTyped
    <3>4. QED
      BY <1>1, <3>2, <3>3
  <2>4. QED
    BY <1>4, <2>2, <2>3
<1>5. "OK" \in Codes /\ "Error" \in Codes /\ "Unauthorized" \in Codes
  BY DEF Codes
<1>6. /\ "ReadFrame" \in Outside /\ RouteOps \subseteq Outside /\ "SetFields" \in Outside
      /\ "SendOK" \in Outside /\ "MwUser" \in Outside /\ "MwPending" \in Outside
      /\ "Schedule" \in Outside /\ "SendDelete" \in Outside /\ "ReadUser" \in Outside
      /\ "done" \in Outside /\ "idle" \in Outside /\ "Service" \in Outside
      /\ "MwAuth" \in Outside /\ "Cancel" \in Outside
  BY PlainStepsAre DEF RouteOps
<1> HIDE DEF Others, Outside
<1>7. ASSUME NEW r \in Requests, pc[r] \in Outside, Others(r) /\ pc'[r] \in Outside,
             UNCHANGED <<sess, userStates, devices, initMu, escaped>>
      PROVE  Aside(r)
  BY <1>3, <1>7 DEF Aside, Others
<1>8. ASSUME NEW r \in Requests, AuthService(r) \/ SendOK(r)
      PROVE  Aside(r)
  <2>1. pc[r] \in Outside /\ UNCHANGED <<sess, userStates, devices, initMu, escaped>>
    BY <1>6, <1>8 DEF AuthService, SendOK, registryVars
  <2>2. Others(r) /\ pc'[r] \in Outside
    BY <1>4, <1>5, <1>6, <1>8 DEF AuthService, SendOK, Send
  <2>3. QED
    BY <1>7, <2>1, <2>2
<1>9. ASSUME NEW r \in Requests,
             \/ MwAuth(r) \/ MwUser(r) \/ MwPending(r)
             \/ ScheduleAccountDeletion(r) \/ SendDelete(r) \/ CancelAccountDeletion(r)
      PROVE  Aside(r)
  <2>1. pc[r] \in Outside /\ UNCHANGED <<sess, userStates, devices, initMu, escaped>>
    BY <1>6, <1>9 DEF MwAuth, MwUser, MwPending, ScheduleAccountDeletion, SendDelete,
                      CancelAccountDeletion, registryVars
  <2>2. Others(r) /\ pc'[r] \in Outside
    BY <1>4, <1>5, <1>6, <1>9 DEF MwAuth, MwUser, MwPending, ScheduleAccountDeletion, SendDelete,
                                  CancelAccountDeletion, Send
  <2>3. QED
    BY <1>7, <2>1, <2>2
<1>10. ASSUME NEW r \in Requests, ReadUser(r), sess[req[r].session].user = None
       PROVE  Aside(r)
  BY <1>4, <1>6, <1>7, <1>10 DEF ReadUser, Finish
<1>11. ASSUME NEW r \in Requests, HandleStream(r)
       PROVE  Aside(r)
  <2>1. pc[r] \in Outside /\ UNCHANGED <<sess, userStates, devices, initMu, escaped>>
    BY <1>6, <1>11 DEF HandleStream, registryVars
  <2>2. SendThen(r, "Error", "done") \/ \E first \in RouteOps : Goto(r, first)
    BY <1>11 DEF HandleStream, Send, SendThen
  <2>3. Others(r) /\ pc'[r] \in Outside
    BY <1>4, <1>5, <1>6, <2>2
  <2>4. QED
    BY <1>7, <2>1, <2>3
<1>12. ASSUME NEW r \in Requests, StreamEnds(r) \/ \E s \in Sessions : AcceptStream(r, s)
       PROVE  Aside(r)
  <2>1. pc[r] \in Outside /\ UNCHANGED <<sess, userStates, devices, initMu, escaped>>
    BY <1>6, <1>12 DEF StreamEnds, AcceptStream, registryVars
  <2>2. req \in [Requests -> LocalRecord]
    BY DEF Typed, RequestsTyped
  <2>3. Others(r) /\ pc'[r] \in Outside
    BY <1>1, <1>6, <1>12, <2>2 DEF StreamEnds, AcceptStream, Others
  <2>4. QED
    BY <1>7, <2>1, <2>3
<1>13. QED
  BY <1>2, <1>8, <1>9, <1>10, <1>11, <1>12 DEF Next, Handler, ReadUserStarts

\* The channel of every session, and the fields that go with it, over any sequence of
\* logins and invalidations.
LEMMA FieldsStep ==
  Typed /\ FieldsOK /\ ChannelMatchesRevoked /\ [Next]_vars => FieldsOK' /\ ChannelMatchesRevoked'
<1> SUFFICES ASSUME Typed, FieldsOK, ChannelMatchesRevoked, [Next]_vars
             PROVE  FieldsOK' /\ ChannelMatchesRevoked'
  OBVIOUS
<1>1. sess \in [Sessions -> SessionRecord] /\ LocalsOK /\ req \in [Requests -> LocalRecord]
  BY DEF Typed, RegistryTyped, RequestsTyped
<1>2. CASE UNCHANGED sess
  BY <1>2 DEF FieldsOK, ChannelMatchesRevoked
<1>3. ASSUME NEW r \in Requests, SetFields(r)
      PROVE  FieldsOK' /\ ChannelMatchesRevoked'
  <2> DEFINE s == req[r].session
  <2>1. s \in Sessions /\ req[r].device \in Devices
    BY <1>1, <1>3 DEF SetFields, LocalsOK
  <2>2. /\ sess'[s].revoked = FALSE
        /\ sess'[s].closed = (sess[s].closed /\ ~sess[s].revoked)
        /\ sess'[s].device = req[r].device
    BY <1>1, <1>3, <2>1 DEF SetFields
  <2>3. \A t \in Sessions \ {s} : sess'[t] = sess[t]
    BY <1>1, <1>3 DEF SetFields
  <2>4. ~sess'[s].closed /\ ~sess'[s].revoked
    BY <2>1, <2>2 DEF ChannelMatchesRevoked
  <2>5. sess'[s].device # None
    BY <2>1, <2>2, NoneAssumption
  <2>6. QED
    BY <2>1, <2>3, <2>4, <2>5 DEF FieldsOK, ChannelMatchesRevoked
<1>4. ASSUME NEW r \in Requests, InvalidateUserSessions(r)
      PROVE  FieldsOK' /\ ChannelMatchesRevoked'
  <2>1. CASE UNCHANGED sess
    BY <1>2, <2>1
  <2>2. ASSUME NEW s \in req[r].taken, sess' = [sess EXCEPT ![s] = Revoke(@)]
        PROVE  FieldsOK' /\ ChannelMatchesRevoked'
    <3>1. s \in Sessions
      BY <1>1, <2>2 DEF LocalRecord
    <3>2. \A t \in Sessions \ {s} : sess'[t] = sess[t]
      BY <1>1, <2>2
    <3>3. sess'[s] = Revoke(sess[s])
      BY <1>1, <2>2, <3>1
    <3>4. \/ sess'[s] = sess[s]
          \/ sess'[s].revoked = TRUE /\ sess'[s].closed = TRUE /\ sess'[s].user = None
      BY <3>3 DEF Revoke, NewDeviceSession
    <3>5. QED
      BY <3>1, <3>2, <3>4 DEF FieldsOK, ChannelMatchesRevoked
  <2>3. QED
    BY <1>4, <2>1, <2>2 DEF InvalidateUserSessions
<1>5. QED
  BY <1>2, <1>3, <1>4, RegistryCases
     DEF Aside, GetState, LockInit, QueryUser, SetState, AddDevice, ReadUserStarts, ReadUser,
         DetachGet, DetachTake, DetachRemove, registryVars

LEMMA FieldsInit == Init => FieldsOK /\ ChannelMatchesRevoked
BY DEF Init, FieldsOK, ChannelMatchesRevoked, NewDeviceSession

\* revokedCh is closed exactly while the session is revoked.
THEOREM ChannelTheorem == Spec => []ChannelMatchesRevoked
<1>1. Init => Typed /\ FieldsOK /\ ChannelMatchesRevoked
  BY TypedInit, FieldsInit
<1>2. Typed /\ FieldsOK /\ ChannelMatchesRevoked /\ [Next]_vars
        => (Typed /\ FieldsOK /\ ChannelMatchesRevoked)'
  BY TypedStep, FieldsStep
<1>3. QED
  BY <1>1, <1>2, PTL DEF Spec


\* Every step but those of the registry's own requests leaves them and the registry alone.
Untouched(r) ==
  /\ pc \in [Requests -> Pcs]
  /\ req \in [Requests -> LocalRecord]
  /\ \A q \in Requests \ {r} : pc'[q] = pc[q] /\ req'[q] = req[q]

LEMMA OthersUntouched ==
  ASSUME Typed, NEW r \in Requests,
         \/ Aside(r)
         \/ SetFields(r) \/ GetState(r) \/ LockInit(r) \/ QueryUser(r) \/ SetState(r)
         \/ AddDevice(r) \/ ReadUserStarts(r)
         \/ DetachGet(r) \/ DetachTake(r) \/ DetachRemove(r) \/ InvalidateUserSessions(r)
  PROVE  Untouched(r)
<1>1. pc \in [Requests -> Pcs] /\ req \in [Requests -> LocalRecord]
  BY DEF Typed, RequestsTyped
<1>2. ASSUME NEW step, Goto(r, step) \/ \E locals : GotoWith(r, step, locals)
      PROVE  Untouched(r)
  BY <1>1, <1>2 DEF Goto, GotoWith, Untouched
<1>3. CASE Aside(r)
  BY <1>1, <1>3 DEF Aside, Untouched
<1>4. QED
  BY <1>2, <1>3
     DEF SetFields, GetState, LockInit, QueryUser, SetState, AddDevice, ReadUserStarts, ReadUser,
         DetachGet, DetachTake, DetachRemove, InvalidateUserSessions, Finish

SameWho(r) ==
  /\ req'[r].session = req[r].session
  /\ req'[r].user = req[r].user
  /\ req'[r].device = req[r].device

\* Where the steps of a login and of an invalidation lead, and with which locals.
LEMMA LoginProgress ==
  ASSUME Typed, NEW r \in Requests
  PROVE  /\ SetFields(r) => pc[r] = "SetFields" /\ SameWho(r) /\ pc'[r] = "GetState"
         /\ GetState(r) =>
              /\ pc[r] = "GetState" /\ SameWho(r)
              /\ \/ pc'[r] = "LockInit"
                 \/ pc'[r] = "AddDevice" /\ req'[r].state = userStates[req[r].user]
         /\ LockInit(r) =>
              /\ pc[r] = "LockInit" /\ SameWho(r)
              /\ \/ pc'[r] = "QueryUser"
                 \/ pc'[r] = "AddDevice" /\ req'[r].state = userStates[req[r].user]
         /\ QueryUser(r) =>
              /\ pc[r] = "QueryUser" /\ SameWho(r)
              /\ pc'[r] = "SetState" \/ (pc'[r] = "SendOK" /\ req[r].session \in escaped')
         /\ SetState(r) =>
              /\ pc[r] = "SetState" /\ SameWho(r)
              /\ pc'[r] = "AddDevice" /\ req'[r].state = Len(devices')
         /\ AddDevice(r) => pc[r] = "AddDevice" /\ SameWho(r) /\ pc'[r] = "SendOK"
<1>1. pc \in [Requests -> Pcs] /\ req \in [Requests -> LocalRecord] /\ req[r] \in LocalRecord
  BY DEF Typed, RequestsTyped
<1>2. ASSUME NEW step, Goto(r, step)
      PROVE  pc'[r] = step /\ SameWho(r)
  BY <1>1, <1>2 DEF Goto, SameWho
<1>3. ASSUME NEW step, NEW state, GotoWith(r, step, [req[r] EXCEPT !.state = state])
      PROVE  pc'[r] = step /\ SameWho(r) /\ req'[r].state = state
  BY <1>1, <1>3 DEF GotoWith, SameWho, LocalRecord
<1>4. CASE SetFields(r)
  BY <1>2, <1>4 DEF SetFields, GetState, LockInit, QueryUser, SetState, AddDevice
<1>5. CASE GetState(r)
  BY <1>2, <1>3, <1>5 DEF SetFields, GetState, LockInit, QueryUser, SetState, AddDevice
<1>6. CASE LockInit(r)
  BY <1>2, <1>3, <1>6 DEF SetFields, GetState, LockInit, QueryUser, SetState, AddDevice
<1>7. CASE QueryUser(r)
  BY <1>2, <1>7 DEF SetFields, GetState, LockInit, QueryUser, SetState, AddDevice
<1>8. CASE SetState(r)
  BY <1>3, <1>8 DEF SetFields, GetState, LockInit, QueryUser, SetState, AddDevice
<1>9. CASE AddDevice(r)
  BY <1>2, <1>9 DEF SetFields, GetState, LockInit, QueryUser, SetState, AddDevice
<1>10. QED
  BY <1>4, <1>5, <1>6, <1>7, <1>8, <1>9

LEMMA DetachProgress ==
  ASSUME Typed, NEW r \in Requests
  PROVE  /\ DetachGet(r) =>
              /\ pc[r] = "DetachGet" /\ SameWho(r)
              /\ \/ pc'[r] = "done" /\ userStates[req[r].user] = 0
                 \/ pc'[r] = "DetachTake" /\ req'[r].state = userStates[req[r].user]
         /\ DetachTake(r) =>
              /\ pc[r] = "DetachTake" /\ SameWho(r) /\ pc'[r] = "DetachRemove"
              /\ req'[r].taken = {devices[req[r].state][d] : d \in Devices} \ {None}
         /\ DetachRemove(r) =>
              pc[r] = "DetachRemove" /\ req' = req /\ SameWho(r) /\ pc'[r] = "Revoke"
<1>1. pc \in [Requests -> Pcs] /\ req \in [Requests -> LocalRecord] /\ req[r] \in LocalRecord
  BY DEF Typed, RequestsTyped
<1>2. ASSUME NEW step, Goto(r, step)
      PROVE  pc'[r] = step /\ req' = req /\ SameWho(r)
  BY <1>1, <1>2 DEF Goto, SameWho
<1>3. ASSUME NEW step, NEW state, GotoWith(r, step, [req[r] EXCEPT !.state = state])
      PROVE  pc'[r] = step /\ SameWho(r) /\ req'[r].state = state
  BY <1>1, <1>3 DEF GotoWith, SameWho, LocalRecord
<1>4. ASSUME NEW step, NEW taken, GotoWith(r, step, [req[r] EXCEPT !.taken = taken])
      PROVE  pc'[r] = step /\ SameWho(r) /\ req'[r].taken = taken
  BY <1>1, <1>4 DEF GotoWith, SameWho, LocalRecord
<1>5. CASE DetachGet(r)
  BY <1>2, <1>3, <1>5 DEF DetachGet, DetachTake, DetachRemove, Finish
<1>6. CASE DetachTake(r)
  BY <1>4, <1>6 DEF DetachGet, DetachTake, DetachRemove
<1>7. CASE DetachRemove(r)
  BY <1>2, <1>7 DEF DetachGet, DetachTake, DetachRemove
<1>8. QED
  BY <1>5, <1>6, <1>7

\* The double-checked creation of a UserState: the request at it holds the mutex.
LEMMA InitMuStep == Typed /\ InitMuOK /\ [Next]_vars => InitMuOK'
<1> SUFFICES ASSUME Typed, InitMuOK, [Next]_vars PROVE InitMuOK'
  OBVIOUS
<1>1. CASE UNCHANGED <<sess, userStates, devices, initMu, escaped, pc, req>>
  BY <1>1 DEF InitMuOK
<1>2. ASSUME NEW r \in Requests,
             \/ Aside(r) \/ SetFields(r) \/ GetState(r) \/ AddDevice(r) \/ ReadUserStarts(r)
             \/ DetachGet(r) \/ DetachTake(r) \/ InvalidateUserSessions(r)
      PROVE  InitMuOK'
  <2>1. Untouched(r)
    BY <1>2, OthersUntouched
  <2>2. UNCHANGED <<userStates, initMu>>
    BY <1>2 DEF Aside, SetFields, GetState, AddDevice, ReadUserStarts, ReadUser, DetachGet,
                DetachTake, InvalidateUserSessions, registryVars
  <2>3. pc'[r] \notin {"QueryUser", "SetState"}
    BY <1>2, <2>1 DEF Aside, SetFields, GetState, AddDevice, ReadUserStarts, ReadUser, DetachGet,
                DetachTake, InvalidateUserSessions, Goto, GotoWith, Finish, Untouched,
                LoggingInSteps
  <2>4. QED
    BY <2>1, <2>2, <2>3 DEF InitMuOK, Untouched
<1>3. ASSUME NEW r \in Requests, LockInit(r)
      PROVE  InitMuOK'
  <2>1. Untouched(r)
    BY <1>3, OthersUntouched
  <2>2. \A q \in Requests : pc[q] \notin {"QueryUser", "SetState"}
    BY <1>3, NoneAssumption DEF LockInit, InitMuOK
  <2>3. CASE userStates[req[r].user] = 0
    BY <1>3, <2>1, <2>2, <2>3 DEF LockInit, InitMuOK, Goto, Untouched
  <2>4. CASE userStates[req[r].user] # 0
    BY <1>3, <2>1, <2>2, <2>4 DEF LockInit, InitMuOK, GotoWith, Untouched
  <2>5. QED
    BY <2>3, <2>4
<1>4. ASSUME NEW r \in Requests, QueryUser(r) \/ SetState(r)
      PROVE  InitMuOK'
  <2>1. Untouched(r)
    BY <1>4, OthersUntouched
  <2>2. \A q \in Requests \ {r} : pc[q] \notin {"QueryUser", "SetState"}
    BY <1>4 DEF QueryUser, SetState, InitMuOK
  <2>3. CASE QueryUser(r) /\ Goto(r, "SetState") /\ UNCHANGED <<initMu, escaped, faults>>
    BY <1>4, <2>1, <2>2, <2>3 DEF QueryUser, InitMuOK, Goto, Untouched
  <2>4. CASE Goto(r, "SendOK") \/ (\E locals : GotoWith(r, "AddDevice", locals))
    BY <2>1, <2>2, <2>4 DEF InitMuOK, Goto, GotoWith, Untouched
  <2>5. QED
    BY <1>4, <2>3, <2>4 DEF QueryUser, SetState
<1>5. ASSUME NEW r \in Requests, DetachRemove(r)
      PROVE  InitMuOK'
  <2>1. Untouched(r)
    BY <1>5, OthersUntouched
  <2>2. ASSUME NEW q \in Requests, pc'[q] \in {"QueryUser", "SetState"}
        PROVE  initMu' = q /\ userStates'[req'[q].user] = 0
    <3>1. q # r
      BY <1>5, <2>1, <2>2 DEF DetachRemove, Goto, Untouched
    <3>2. initMu = q /\ userStates[req[q].user] = 0 /\ req'[q] = req[q] /\ pc'[q] = pc[q]
      BY <2>1, <2>2, <3>1 DEF Untouched, InitMuOK
    <3>3. req[q].user \in Users /\ userStates \in [Users -> 0..Len(devices)]
      BY <2>2, <3>2 DEF Typed, LocalsOK, LoggingInSteps, RegistryTyped
    <3>4. QED
      BY <1>5, <3>2, <3>3 DEF DetachRemove
  <2>3. QED
    BY <2>2 DEF InitMuOK
<1>6. QED
  BY <1>1, <1>2, <1>3, <1>4, <1>5, RegistryCases

\* A login and an invalidation of one user overlap only for sessions that have escaped.
LEMMA NoOverlapStep == Typed /\ NoOverlap /\ [Next]_vars => NoOverlap'
<1> SUFFICES ASSUME Typed, NoOverlap, [Next]_vars PROVE NoOverlap'
  OBVIOUS
<1> DEFINE Overlap(p, q) ==
             /\ pc[p] \in LoggingInSteps
             /\ pc[q] \in DetachSteps
             /\ req[q].user = req[p].user
             /\ sess[req[p].session].user = req[p].user
<1>1. CASE UNCHANGED <<sess, userStates, devices, initMu, escaped, pc, req>>
  BY <1>1 DEF NoOverlap
<1>2. sess \in [Sessions -> SessionRecord] /\ LocalsOK /\ escaped \subseteq Sessions
  BY DEF Typed, RegistryTyped
<1>3. ASSUME NEW r \in Requests,
             \/ Aside(r) \/ GetState(r) \/ LockInit(r) \/ QueryUser(r) \/ SetState(r)
             \/ AddDevice(r) \/ DetachGet(r) \/ DetachTake(r) \/ DetachRemove(r)
      PROVE  NoOverlap'
  <2>1. Untouched(r)
    BY <1>3, OthersUntouched
  <2>2. UNCHANGED sess /\ escaped \subseteq escaped'
    BY <1>3 DEF Aside, GetState, LockInit, QueryUser, SetState, AddDevice, DetachGet, DetachTake,
                DetachRemove, registryVars
  <2>3. /\ pc'[r] \in LoggingInSteps =>
             /\ pc[r] \in LoggingInSteps
             /\ req'[r].session = req[r].session /\ req'[r].user = req[r].user
        /\ pc'[r] \in DetachSteps => pc[r] \in DetachSteps /\ req'[r].user = req[r].user
    <3>1. CASE Aside(r)
      BY <3>1 DEF Aside
    <3>2. CASE GetState(r) \/ LockInit(r) \/ QueryUser(r) \/ SetState(r) \/ AddDevice(r)
      BY <3>2, LoginProgress DEF LoggingInSteps, DetachSteps, SameWho
    <3>3. CASE DetachGet(r) \/ DetachTake(r) \/ DetachRemove(r)
      BY <3>3, DetachProgress DEF LoggingInSteps, DetachSteps, SameWho
    <3>4. QED
      BY <1>3, <3>1, <3>2, <3>3
  <2>4. ASSUME NEW p \in Requests, NEW q \in Requests, Overlap(p, q)'
        PROVE  req'[p].session \in escaped'
    <3>1. Overlap(p, q) /\ req'[p].session = req[p].session
      BY <2>1, <2>2, <2>3, <2>4 DEF Untouched
    <3>2. QED
      BY <2>2, <3>1 DEF NoOverlap
  <2>5. QED
    BY <2>4 DEF NoOverlap
<1>4. ASSUME NEW r \in Requests, SetFields(r)
      PROVE  NoOverlap'
  <2>1. Untouched(r)
    BY <1>4, OthersUntouched
  <2>2. /\ req[r].session \in Sessions /\ pc'[r] = "GetState" /\ req' = req
    BY <1>2, <1>4, <2>1 DEF SetFields, LocalsOK, Goto, Untouched
  <2>3. sess'[req[r].session].user = req[r].user
    BY <1>2, <1>4, <2>2 DEF SetFields
  <2>4. \A t \in Sessions \ {req[r].session} :
          sess'[t] = sess[t] /\ (t \in escaped => t \in escaped')
    BY <1>2, <1>4, <2>2 DEF SetFields
  <2>5. ASSUME NEW p \in Requests, NEW q \in Requests, Overlap(p, q)'
        PROVE  req'[p].session \in escaped'
    <3>1. q # r /\ pc[q] \in DetachSteps
      BY <2>1, <2>2, <2>5 DEF Untouched, DetachSteps
    <3>2. CASE req[p].session = req[r].session
      <4>1. req[q].user = req[r].user
        BY <2>2, <2>3, <2>5, <3>2
      <4>2. Detaching(req[r].user)
        BY <3>1, <4>1 DEF Detaching, DetachSteps
      <4>3. QED
        BY <1>4, <2>2, <3>2, <4>2 DEF SetFields
    <3>3. CASE req[p].session # req[r].session
      <4>1. p # r /\ pc[p] \in LoggingInSteps
        BY <2>1, <2>2, <2>5, <3>3 DEF Untouched
      <4>2. req[p].session \in Sessions
        BY <1>2, <4>1 DEF LocalsOK, LoggingInSteps
      <4>3. Overlap(p, q)
        BY <2>2, <2>4, <2>5, <3>1, <3>3, <4>1, <4>2
      <4>4. QED
        BY <2>2, <2>4, <3>3, <4>2, <4>3 DEF NoOverlap
    <3>4. QED
      BY <3>2, <3>3
  <2>6. QED
    BY <2>5 DEF NoOverlap
<1>5. ASSUME NEW r \in Requests, ReadUserStarts(r)
      PROVE  NoOverlap'
  <2>1. Untouched(r)
    BY <1>5, OthersUntouched
  <2> DEFINE user == sess[req[r].session].user
  <2>2. /\ pc'[r] = "DetachGet" /\ req'[r].user = user
        /\ escaped' = escaped \cup LoggingIn(user) /\ UNCHANGED sess
    BY <1>5, <2>1 DEF ReadUserStarts, ReadUser, GotoWith, Untouched, LocalRecord
  <2>3. ASSUME NEW p \in Requests, NEW q \in Requests, Overlap(p, q)'
        PROVE  req'[p].session \in escaped'
    <3>1. p # r /\ pc[p] \in LoggingInSteps /\ req'[p] = req[p]
      BY <2>1, <2>2, <2>3 DEF Untouched, LoggingInSteps
    <3>2. CASE q = r
      <4>1. req[p].session \in LoggingIn(user)
        BY <2>2, <2>3, <3>1, <3>2 DEF LoggingIn, LoggingInSteps
      <4>2. QED
        BY <2>2, <3>1, <4>1
    <3>3. CASE q # r
      <4>1. Overlap(p, q)
        BY <2>1, <2>2, <2>3, <3>1, <3>3 DEF Untouched
      <4>2. QED
        BY <2>2, <3>1, <4>1 DEF NoOverlap
    <3>4. QED
      BY <3>2, <3>3
  <2>4. QED
    BY <2>3 DEF NoOverlap
<1>6. ASSUME NEW r \in Requests, InvalidateUserSessions(r)
      PROVE  NoOverlap'
  <2>1. Untouched(r)
    BY <1>6, OthersUntouched
  <2>2. /\ pc[r] \in DetachSteps /\ pc'[r] \notin LoggingInSteps
        /\ pc'[r] \in DetachSteps => req'[r].user = req[r].user
        /\ escaped' = escaped
    BY <1>6, <2>1 DEF InvalidateUserSessions, Finish, Goto, GotoWith, Untouched, LocalRecord,
                      DetachSteps, LoggingInSteps
  <2>3. \A t \in Sessions : sess'[t] = sess[t] \/ sess'[t].user = sess[t].user \/ sess'[t].user = None
    <3>1. CASE UNCHANGED sess
      BY <3>1
    <3>2. ASSUME NEW s \in req[r].taken, sess' = [sess EXCEPT ![s] = Revoke(@)]
          PROVE  \A t \in Sessions : sess'[t] = sess[t] \/ sess'[t].user = None
      BY <1>2, <3>2 DEF Revoke, NewDeviceSession
    <3>3. QED
      BY <1>6, <3>1, <3>2 DEF InvalidateUserSessions
  <2>4. ASSUME NEW p \in Requests, NEW q \in Requests, Overlap(p, q)'
        PROVE  req'[p].session \in escaped'
    <3>1. p # r /\ pc[p] \in LoggingInSteps /\ req'[p] = req[p]
      BY <2>1, <2>2, <2>4 DEF Untouched
    <3>2. req[p].session \in Sessions /\ req[p].user \in Users
      BY <1>2, <3>1 DEF LocalsOK, LoggingInSteps
    <3>3. sess[req[p].session].user = req[p].user
      BY <2>3, <2>4, <3>1, <3>2, NoneAssumption
    <3>4. Overlap(p, q)
      BY <2>1, <2>2, <2>4, <3>1, <3>3 DEF Untouched
    <3>5. QED
      BY <2>2, <3>1, <3>4 DEF NoOverlap
  <2>5. QED
    BY <2>4 DEF NoOverlap
<1>7. QED
  BY <1>1, <1>3, <1>4, <1>5, <1>6, RegistryCases


\* A login apart, a step leaves a session as it is or without a user, and none comes back
\* from those that escaped.
LEMMA SessionsKept ==
  ASSUME Typed, FieldsOK, NEW r \in Requests,
         \/ Aside(r) \/ GetState(r) \/ LockInit(r) \/ QueryUser(r) \/ SetState(r) \/ AddDevice(r)
         \/ ReadUserStarts(r) \/ DetachGet(r) \/ DetachTake(r) \/ DetachRemove(r)
         \/ InvalidateUserSessions(r)
  PROVE  /\ escaped \subseteq escaped'
         /\ \A s \in Sessions : sess'[s] = sess[s] \/ sess'[s].user = None
<1>1. sess \in [Sessions -> SessionRecord]
  BY DEF Typed, RegistryTyped
<1>2. CASE UNCHANGED sess /\ ~InvalidateUserSessions(r)
  BY <1>2 DEF Aside, GetState, LockInit, QueryUser, SetState, AddDevice, ReadUserStarts, ReadUser,
              DetachGet, DetachTake, DetachRemove, registryVars
<1>3. CASE InvalidateUserSessions(r)
  BY <1>1, <1>3 DEF InvalidateUserSessions, Revoke, NewDeviceSession
<1>4. QED
  BY <1>2, <1>3 DEF Aside, GetState, LockInit, QueryUser, SetState, AddDevice, ReadUserStarts,
                    ReadUser, DetachGet, DetachTake, DetachRemove, registryVars

\* A session in the hands of an invalidation stays there until it has no user.
LEMMA TakenStep ==
  ASSUME Typed, FieldsOK, [Next]_vars, NEW s \in Sessions, Taken(s)
  PROVE  Taken(s)' \/ sess'[s].user = None
<1>1. PICK q \in Requests : pc[q] \in {"DetachRemove", "Revoke"} /\ s \in req[q].taken
  BY DEF Taken
<1>2. CASE UNCHANGED <<sess, userStates, devices, initMu, escaped, pc, req>>
  BY <1>1, <1>2 DEF Taken
<1>3. ASSUME NEW r \in Requests, r # q, Untouched(r)
      PROVE  Taken(s)'
  BY <1>1, <1>3 DEF Untouched, Taken
<1>4. CASE DetachRemove(q)
  BY <1>1, <1>4, DetachProgress DEF Taken
<1>5. CASE InvalidateUserSessions(q)
  <2>1. PICK t \in req[q].taken :
          /\ sess' = [sess EXCEPT ![t] = Revoke(@)]
          /\ GotoWith(q, "Revoke", [req[q] EXCEPT !.taken = @ \ {t}])
    BY <1>1, <1>5 DEF InvalidateUserSessions
  <2>2. CASE t = s
    BY <2>1, <2>2 DEF Revoke, NewDeviceSession, FieldsOK, Typed, RegistryTyped
  <2>3. CASE t # s
    <3>1. req[q] \in LocalRecord /\ req \in [Requests -> LocalRecord] /\ pc \in [Requests -> Pcs]
      BY DEF Typed, RequestsTyped
    <3>2. pc'[q] = "Revoke" /\ req'[q].taken = req[q].taken \ {t}
      BY <2>1, <3>1 DEF GotoWith, LocalRecord
    <3>3. QED
      BY <1>1, <2>3, <3>2 DEF Taken
  <2>4. QED
    BY <2>2, <2>3
<1>6. ASSUME NEW r \in Requests,
             \/ Aside(r)
             \/ SetFields(r) \/ GetState(r) \/ LockInit(r) \/ QueryUser(r) \/ SetState(r)
             \/ AddDevice(r) \/ ReadUserStarts(r)
             \/ DetachGet(r) \/ DetachTake(r) \/ DetachRemove(r) \/ InvalidateUserSessions(r)
      PROVE  Taken(s)' \/ sess'[s].user = None
  <2>1. CASE r # q
    BY <1>3, <1>6, <2>1, OthersUntouched
  <2>2. CASE r = q
    BY <1>1, <1>4, <1>5, <1>6, <2>2
       DEF Aside, SetFields, GetState, LockInit, QueryUser, SetState, AddDevice, ReadUserStarts,
           ReadUser, DetachGet, DetachTake, DetachSteps
  <2>3. QED
    BY <2>1, <2>2
<1>7. QED
  BY <1>2, <1>6, RegistryCases

LEMMA TrackedStep == Typed /\ TrackInv /\ [Next]_vars => Tracked'
<1> SUFFICES ASSUME Typed, TrackInv, [Next]_vars PROVE Tracked'
  OBVIOUS
<1> USE DEF TrackInv
<1> DEFINE T(s) == (\E p \in Requests : WillRegister(p, s)) \/ Taken(s) \/ Registered(s)
<1>1. CASE UNCHANGED <<sess, userStates, devices, initMu, escaped, pc, req>>
  BY <1>1 DEF Tracked, WillRegister, Taken, Registered
<1>2. /\ sess \in [Sessions -> SessionRecord] /\ LocalsOK
      /\ userStates \in [Users -> 0..Len(devices)]
      /\ devices \in Seq([Devices -> Sessions \cup {None}])
      /\ pc \in [Requests -> Pcs] /\ req \in [Requests -> LocalRecord]
  BY DEF Typed, RegistryTyped, RequestsTyped
<1>3. ASSUME NEW r \in Requests, NEW s \in Sessions, Untouched(r),
             NEW p \in Requests, p # r, WillRegister(p, s), sess'[s] = sess[s],
             userStates'[req[p].user] = userStates[req[p].user]
      PROVE  WillRegister(p, s)'
  BY <1>3 DEF WillRegister, Untouched
<1>4. ASSUME NEW s \in Sessions, Registered(s), sess'[s] = sess[s],
             userStates'[sess[s].user] = userStates[sess[s].user],
             devices'[userStates[sess[s].user]][sess[s].device] = s
      PROVE  Registered(s)'
  BY <1>4 DEF Registered
<1>5. ASSUME NEW s \in Sessions, s \notin escaped, sess[s].user # None
      PROVE  /\ T(s)
             /\ sess[s].user \in Users
             /\ sess[s].device \in Devices
             /\ Registered(s) => /\ userStates[sess[s].user] \in 1..Len(devices)
                                 /\ devices[userStates[sess[s].user]][sess[s].device] = s
  <2>1. T(s)
    BY <1>5 DEF Tracked
  <2>2. sess[s].user \in Users /\ sess[s].device \in Devices
    BY <1>2, <1>5 DEF SessionRecord, FieldsOK
  <2>3. userStates[sess[s].user] \in 0..Len(devices)
    BY <1>2, <2>2
  <2>4. QED
    BY <2>1, <2>2, <2>3 DEF Registered
<1>6. ASSUME NEW r \in Requests, SetFields(r), NEW s \in Sessions, s \notin escaped',
             sess'[s].user # None
      PROVE  T(s)'
  <2>1. Untouched(r)
    BY <1>6, OthersUntouched
  <2>2. CASE s = req[r].session
    <3>1. sess'[s].user = req[r].user /\ sess'[s].device = req[r].device
      BY <1>2, <1>6, <2>2 DEF SetFields
    <3>2. WillRegister(r, s)'
      BY <1>6, <2>2, <3>1, LoginProgress DEF WillRegister, SameWho, LoggingInSteps
    <3>3. QED
      BY <3>2
  <2>3. CASE s # req[r].session
    <3>1. sess'[s] = sess[s] /\ UNCHANGED <<userStates, devices>> /\ s \notin escaped
      BY <1>2, <1>6, <2>3 DEF SetFields
    <3>2. T(s)
      BY <1>5, <1>6, <3>1
    <3>3. Taken(s) => T(s)'
      BY <1>6, TakenStep
    <3>4. ASSUME NEW p \in Requests, WillRegister(p, s)
          PROVE  WillRegister(p, s)'
      <4>1. p # r
        BY <1>6, <3>4 DEF SetFields, WillRegister, LoggingInSteps
      <4>2. QED
        BY <1>3, <2>1, <3>1, <3>4, <4>1
    <3>5. Registered(s) => Registered(s)'
      BY <3>1 DEF Registered
    <3>6. QED
      BY <3>2, <3>3, <3>4, <3>5
  <2>4. QED
    BY <2>2, <2>3
<1>7. ASSUME NEW r \in Requests,
             \/ Aside(r) \/ GetState(r) \/ LockInit(r) \/ QueryUser(r) \/ SetState(r)
             \/ AddDevice(r) \/ ReadUserStarts(r) \/ DetachGet(r) \/ DetachTake(r)
             \/ DetachRemove(r) \/ InvalidateUserSessions(r),
             NEW s \in Sessions, s \notin escaped', sess'[s].user # None
      PROVE  T(s)'
  <2>1. Untouched(r)
    BY <1>7, OthersUntouched
  <2>2. s \notin escaped /\ sess'[s] = sess[s] /\ sess[s].user # None
    BY <1>7, SessionsKept
  <2>3. /\ T(s)
        /\ sess[s].user \in Users
        /\ sess[s].device \in Devices
        /\ Registered(s) => /\ userStates[sess[s].user] \in 1..Len(devices)
                            /\ devices[userStates[sess[s].user]][sess[s].device] = s
    BY <1>5, <2>2
  <2>4. CASE Taken(s)
    BY <1>7, <2>4, TakenStep
  <2>5. ASSUME NEW p \in Requests, WillRegister(p, s), p # r,
               ~DetachRemove(r), ~SetState(r)
        PROVE  T(s)'
    <3>1. UNCHANGED userStates
      BY <1>7, <2>5 DEF Aside, GetState, LockInit, QueryUser, AddDevice, ReadUserStarts,
                        ReadUser, DetachGet, DetachTake, InvalidateUserSessions, registryVars
    <3>2. QED
      BY <1>3, <2>1, <2>2, <2>5, <3>1
  <2>6. CASE Registered(s) /\ ~SetState(r) /\ ~AddDevice(r) /\ ~DetachTake(r) /\ ~DetachRemove(r)
    <3>1. UNCHANGED <<userStates, devices>>
      BY <1>7, <2>6 DEF Aside, GetState, LockInit, QueryUser, ReadUserStarts,
                        ReadUser, DetachGet, InvalidateUserSessions, registryVars
    <3>2. QED
      BY <2>2, <2>6, <3>1 DEF Registered
  <2>7. CASE /\ WillRegister(r, s)
             /\ GetState(r) \/ LockInit(r) \/ QueryUser(r)
    <3>1. UNCHANGED userStates
      BY <2>7 DEF GetState, LockInit, QueryUser, registryVars
    <3>2. WillRegister(r, s)'
      BY <1>7, <2>2, <2>7, <3>1, LoginProgress DEF WillRegister, SameWho, LoggingInSteps
    <3>3. QED
      BY <3>2
  <2>8. CASE WillRegister(r, s) /\ (Aside(r) \/ ReadUserStarts(r) \/ DetachGet(r)
                                     \/ DetachTake(r) \/ DetachRemove(r)
                                     \/ InvalidateUserSessions(r))
    BY <2>8 DEF WillRegister, Aside, ReadUserStarts, ReadUser, DetachGet, DetachTake,
                DetachRemove, InvalidateUserSessions, LoggingInSteps
  <2>9. CASE SetState(r)
    <3>1. /\ req[r].user \in Users /\ userStates[req[r].user] = 0
      BY <1>2, <2>9 DEF SetState, LocalsOK, LoggingInSteps, InitMuOK
    <3>2. /\ userStates'[req[r].user] = Len(devices')
          /\ \A u \in Users \ {req[r].user} : userStates'[u] = userStates[u]
          /\ devices' = Append(devices, NewUserState)
      BY <1>2, <2>9, <3>1 DEF SetState
    <3>3. CASE WillRegister(r, s)
      <4>1. WillRegister(r, s)'
        BY <2>2, <2>9, <3>2, <3>3, LoginProgress DEF WillRegister, SameWho, LoggingInSteps
      <4>2. QED
        BY <4>1
    <3>4. ASSUME NEW p \in Requests, WillRegister(p, s), p # r
          PROVE  T(s)'
      <4>1. CASE pc[p] = "AddDevice"
        <5>1. req[p].state # 0 /\ req[p].user \in Users
          BY <1>2, <4>1 DEF LocalsOK, LoggingInSteps
        <5>2. req[p].user # req[r].user
          BY <3>1, <3>4, <4>1, <5>1 DEF WillRegister
        <5>3. QED
          BY <1>3, <2>1, <2>2, <3>2, <3>4, <5>1, <5>2
      <4>2. CASE pc[p] # "AddDevice"
        <5>1. WillRegister(p, s)'
          BY <2>1, <2>2, <3>4, <4>2 DEF WillRegister, Untouched
        <5>2. QED
          BY <5>1
      <4>3. QED
        BY <4>1, <4>2
    <3>5. CASE Registered(s)
      <4> DEFINE k == userStates[sess[s].user]
      <4>1. sess[s].user # req[r].user /\ k \in 1..Len(devices)
        BY <2>3, <3>1, <3>5
      <4>2. userStates'[sess[s].user] = k
        BY <2>3, <3>2, <4>1
      <4>3. devices'[k] = devices[k]
        BY <1>2, <3>2, <4>1
      <4>4. QED
        BY <1>4, <2>2, <2>3, <3>5, <4>2, <4>3
    <3>6. QED
      BY <2>3, <2>4, <3>3, <3>4, <3>5
  <2>10. CASE AddDevice(r)
    <3>1. /\ req[r].user \in Users /\ req[r].device \in Devices /\ pc[r] = "AddDevice"
          /\ req[r].state \in 1..Len(devices) /\ UNCHANGED userStates
      BY <1>2, <2>10 DEF AddDevice, LocalsOK, LoggingInSteps, LocalRecord
    <3>2. /\ devices'[req[r].state][req[r].device] = req[r].session
          /\ \A k \in 1..Len(devices), d \in Devices :
               k # req[r].state \/ d # req[r].device => devices'[k][d] = devices[k][d]
      BY <1>2, <2>10, <3>1 DEF AddDevice
    <3>3. CASE WillRegister(r, s)
      BY <2>2, <3>1, <3>2, <3>3 DEF WillRegister, Registered
    <3>4. CASE Registered(s)
      <4> DEFINE k == userStates[sess[s].user]
      <4>1. CASE k = req[r].state /\ sess[s].device = req[r].device
        <5>1. s # None
          BY NoneAssumption
        <5>2. s = req[r].session
          BY <1>7, <2>3, <2>10, <3>4, <4>1, <5>1 DEF AddDevice
        <5>3. QED
          BY <1>4, <2>2, <3>1, <3>2, <3>4, <4>1, <5>2
      <4>2. CASE ~(k = req[r].state /\ sess[s].device = req[r].device)
        BY <1>4, <2>2, <2>3, <3>1, <3>2, <3>4, <4>2
      <4>3. QED
        BY <4>1, <4>2
    <3>5. ASSUME NEW p \in Requests, WillRegister(p, s), p # r
          PROVE  T(s)'
      BY <1>3, <2>1, <2>2, <3>1, <3>5
    <3>6. QED
      BY <2>3, <2>4, <3>3, <3>4, <3>5
  <2>11. CASE DetachTake(r)
    <3>1. /\ pc[r] = "DetachTake" /\ pc'[r] = "DetachRemove"
          /\ req'[r].taken = {devices[req[r].state][d] : d \in Devices} \ {None}
          /\ UNCHANGED userStates
          /\ devices' = [devices EXCEPT ![req[r].state] = NewUserState]
      BY <2>11, DetachProgress DEF DetachTake
    <3>2. CASE Registered(s) /\ userStates[sess[s].user] = req[r].state
      <4>1. s \in req'[r].taken
        BY <2>3, <3>1, <3>2, NoneAssumption
      <4>2. QED
        BY <3>1, <4>1 DEF Taken
    <3>3. CASE Registered(s) /\ userStates[sess[s].user] # req[r].state
      <4>1. devices'[userStates[sess[s].user]] = devices[userStates[sess[s].user]]
        BY <1>2, <2>3, <3>1, <3>3
      <4>2. QED
        BY <1>4, <2>2, <2>3, <3>1, <3>3, <4>1
    <3>4. ASSUME NEW p \in Requests, WillRegister(p, s)
          PROVE  T(s)'
      BY <1>3, <2>1, <2>2, <2>8, <2>11, <3>1, <3>4
    <3>5. QED
      BY <2>3, <2>4, <3>2, <3>3, <3>4
  <2>12. CASE DetachRemove(r)
    <3>1. CASE sess[s].user = req[r].user
      <4>1. Taken(s)
        BY <2>2, <2>12, <3>1 DEF TakenAll, DetachRemove
      <4>2. QED
        BY <2>4, <4>1
    <3>2. CASE sess[s].user # req[r].user
      <4>1. userStates'[sess[s].user] = userStates[sess[s].user] /\ UNCHANGED devices
        BY <1>2, <2>3, <2>12, <3>2 DEF DetachRemove
      <4>2. Registered(s) => T(s)'
        BY <1>4, <2>2, <2>3, <4>1
      <4>3. ASSUME NEW p \in Requests, WillRegister(p, s)
            PROVE  T(s)'
        <5>1. CASE p # r
          BY <1>3, <2>1, <2>2, <4>1, <4>3, <5>1 DEF WillRegister
        <5>2. QED
          BY <2>8, <2>12, <4>3, <5>1
      <4>4. QED
        BY <2>3, <2>4, <4>2, <4>3
    <3>3. QED
      BY <3>1, <3>2
  <2>13. QED
    BY <1>7, <2>3, <2>4, <2>5, <2>6, <2>7, <2>8, <2>9, <2>10, <2>11, <2>12
<1>8. QED
  <2>1. SUFFICES ASSUME NEW s \in Sessions \ escaped', sess'[s].user # None
                 PROVE  T(s)'
    BY DEF Tracked
  <2>2. CASE UNCHANGED <<sess, userStates, devices, initMu, escaped, pc, req>>
    BY <1>1, <2>1, <2>2 DEF Tracked
  <2>3. QED
    BY <1>6, <1>7, <2>1, <2>2, RegistryCases


LEMMA TakenAllStep == Typed /\ TrackInv /\ [Next]_vars => TakenAll'
<1> SUFFICES ASSUME Typed, TrackInv, [Next]_vars PROVE TakenAll'
  OBVIOUS
<1> USE DEF TrackInv
<1> DEFINE Past(q) == \/ pc[q] \in {"DetachRemove", "Revoke"}
                      \/ pc[q] = "DetachTake" /\ req[q].state # userStates[req[q].user]
<1>1. CASE UNCHANGED <<sess, userStates, devices, initMu, escaped, pc, req>>
  BY <1>1 DEF TakenAll, Taken
<1>2. /\ sess \in [Sessions -> SessionRecord] /\ LocalsOK
      /\ userStates \in [Users -> 0..Len(devices)]
  BY DEF Typed, RegistryTyped
<1>3. ASSUME NEW q \in Requests, NEW s \in Sessions, Past(q), sess[s].user = req[q].user,
             s \notin escaped, sess'[s].user # None
      PROVE  Taken(s)'
  <2>1. Taken(s)
    BY <1>3 DEF TakenAll
  <2>2. QED
    BY <1>3, <2>1, TakenStep
<1>4. ASSUME NEW r \in Requests, SetFields(r), NEW q \in Requests, NEW s \in Sessions,
             Past(q)', sess'[s].user = req'[q].user, s \notin escaped'
      PROVE  Taken(s)'
  <2>1. Untouched(r) /\ UNCHANGED userStates
    BY <1>4, OthersUntouched DEF SetFields
  <2>2. q # r
    BY <1>4, LoginProgress
  <2>3. Past(q) /\ req'[q] = req[q] /\ pc[q] \in DetachSteps
    BY <1>4, <2>1, <2>2 DEF Untouched, DetachSteps
  <2>4. req[q].user \in Users
    BY <1>2, <2>3 DEF LocalsOK
  <2>5. s # req[r].session
    <3>1. SUFFICES ASSUME s = req[r].session PROVE FALSE
      OBVIOUS
    <3>2. sess'[s].user = req[r].user
      BY <1>2, <1>4, <3>1 DEF SetFields
    <3>3. Detaching(req[r].user)
      BY <1>4, <2>3, <3>2 DEF Detaching, DetachSteps
    <3>4. QED
      BY <1>4, <3>1, <3>3 DEF SetFields
  <2>6. sess'[s] = sess[s] /\ s \notin escaped
    BY <1>2, <1>4, <2>5 DEF SetFields
  <2>7. QED
    BY <1>3, <1>4, <2>3, <2>4, <2>6, NoneAssumption
<1>5. ASSUME NEW r \in Requests,
             \/ Aside(r) \/ GetState(r) \/ LockInit(r) \/ QueryUser(r) \/ SetState(r)
             \/ AddDevice(r) \/ ReadUserStarts(r) \/ DetachGet(r) \/ DetachTake(r)
             \/ DetachRemove(r) \/ InvalidateUserSessions(r),
             NEW q \in Requests, NEW s \in Sessions,
             Past(q)', sess'[s].user = req'[q].user, s \notin escaped'
      PROVE  Taken(s)'
  <2>1. Untouched(r)
    BY <1>5, OthersUntouched
  <2>2. req'[q].user \in Users
    <3>1. LocalsOK'
      BY TypedStep DEF Typed
    <3>2. pc'[q] \in DetachSteps
      BY <1>5 DEF DetachSteps
    <3>3. QED
      BY <3>1, <3>2 DEF LocalsOK
  <2>3. s \notin escaped /\ sess'[s] = sess[s] /\ sess'[s].user # None
    BY <1>5, <2>2, SessionsKept, NoneAssumption
  <2>4. CASE q # r
    <3>1. pc'[q] = pc[q] /\ req'[q] = req[q]
      BY <2>1, <2>4 DEF Untouched
    <3>2. CASE userStates'[req[q].user] = userStates[req[q].user]
      BY <1>3, <1>5, <2>3, <3>1, <3>2
    <3>3. CASE userStates'[req[q].user] # userStates[req[q].user]
      <4>1. SetState(r) \/ DetachRemove(r)
        BY <1>5, <3>3 DEF Aside, GetState, LockInit, QueryUser, AddDevice, ReadUserStarts,
                          ReadUser, DetachGet, DetachTake, InvalidateUserSessions, registryVars
      <4>2. req[r].user = req[q].user
        BY <1>2, <2>2, <3>1, <3>3, <4>1 DEF SetState, DetachRemove
      <4>3. CASE SetState(r)
        <5>1. userStates[req[q].user] = 0
          BY <4>2, <4>3 DEF SetState, InitMuOK
        <5>2. Past(q)
          BY <1>2, <1>5, <3>1, <5>1 DEF LocalsOK
        <5>3. QED
          BY <1>3, <1>5, <2>3, <3>1, <5>2
      <4>4. CASE DetachRemove(r)
        <5>1. Past(r) /\ sess[s].user = req[r].user
          BY <1>5, <2>3, <3>1, <4>2, <4>4 DEF DetachRemove
        <5>2. QED
          BY <1>3, <2>3, <5>1
      <4>5. QED
        BY <4>1, <4>3, <4>4
    <3>4. QED
      BY <3>2, <3>3
  <2>5. CASE q = r
    <3>1. CASE DetachTake(r)
      <4>1. /\ pc[r] = "DetachTake" /\ req'[r].user = req[r].user /\ pc'[r] = "DetachRemove"
            /\ req'[r].taken = {devices[req[r].state][d] : d \in Devices} \ {None}
        BY <3>1, DetachProgress DEF SameWho
      <4>2. sess[s].user = req[r].user
        BY <1>5, <2>3, <2>5, <4>1
      <4>3. CASE req[r].state # userStates[req[r].user]
        BY <1>3, <2>3, <4>1, <4>2, <4>3
      <4>4. CASE req[r].state = userStates[req[r].user]
        <5>1. ASSUME NEW p \in Requests PROVE ~WillRegister(p, s)
          BY <2>3, <4>1, <4>2 DEF WillRegister, NoOverlap, DetachSteps
        <5>2. CASE Taken(s)
          BY <2>3, <5>2, TakenStep
        <5>3. CASE Registered(s)
          <6>1. sess[s].device \in Devices
            BY <1>2, <2>3 DEF SessionRecord, FieldsOK
          <6>2. devices[req[r].state][sess[s].device] = s
            BY <4>2, <4>4, <5>3 DEF Registered
          <6>3. s \in req'[r].taken
            BY <4>1, <6>1, <6>2, NoneAssumption
          <6>4. QED
            BY <4>1, <6>3 DEF Taken
        <5>4. QED
          BY <2>3, <5>1, <5>2, <5>3 DEF Tracked
      <4>5. QED
        BY <4>3, <4>4
    <3>2. CASE DetachRemove(r)
      BY <1>3, <1>5, <2>3, <2>5, <3>2, DetachProgress DEF SameWho
    <3>3. CASE InvalidateUserSessions(r)
      <4>1. pc[r] = "Revoke" /\ req'[r].user = req[r].user
        BY <2>1, <3>3 DEF InvalidateUserSessions, Finish, Goto, GotoWith, Untouched, LocalRecord
      <4>2. QED
        BY <1>3, <1>5, <2>3, <2>5, <4>1
    <3>4. CASE GetState(r) \/ LockInit(r) \/ QueryUser(r) \/ SetState(r) \/ AddDevice(r)
      BY <1>5, <2>5, <3>4, LoginProgress
    <3>5. CASE Aside(r)
      BY <1>5, <2>5, <3>5 DEF Aside, DetachSteps
    <3>6. CASE ReadUserStarts(r)
      BY <1>5, <2>1, <2>5, <3>6 DEF ReadUserStarts, ReadUser, GotoWith, Untouched
    <3>7. CASE DetachGet(r)
      <4>1. UNCHANGED userStates
        BY <3>7 DEF DetachGet, registryVars
      <4>2. QED
        BY <1>5, <2>5, <3>7, <4>1, DetachProgress DEF SameWho
    <3>8. QED
      BY <1>5, <3>1, <3>2, <3>3, <3>4, <3>5, <3>6, <3>7
  <2>6. QED
    BY <2>4, <2>5
<1>6. QED
  <2>1. SUFFICES ASSUME NEW q \in Requests, NEW s \in Sessions, Past(q)',
                        sess'[s].user = req'[q].user, s \notin escaped'
                 PROVE  Taken(s)'
    BY DEF TakenAll
  <2>2. CASE UNCHANGED <<sess, userStates, devices, initMu, escaped, pc, req>>
    BY <1>1, <2>1, <2>2 DEF TakenAll
  <2>3. QED
    BY <1>4, <1>5, <2>1, <2>2, RegistryCases

RegistryInv == Typed /\ TrackInv /\ ChannelMatchesRevoked

LEMMA RegistryInvInit == Init => RegistryInv
<1> SUFFICES ASSUME Init PROVE RegistryInv
  OBVIOUS
<1>1. InitMuOK /\ NoOverlap /\ TakenAll
  BY DEF Init, InitMuOK, NoOverlap, TakenAll, LoggingInSteps
<1>2. Tracked
  BY DEF Init, Tracked, NewDeviceSession
<1>3. QED
  BY <1>1, <1>2, TypedInit, FieldsInit DEF RegistryInv, TrackInv

LEMMA RegistryInvStep == RegistryInv /\ [Next]_vars => RegistryInv'
<1> SUFFICES ASSUME RegistryInv, [Next]_vars PROVE RegistryInv'
  OBVIOUS
<1>1. Typed /\ TrackInv /\ ChannelMatchesRevoked
  BY DEF RegistryInv
<1>2. FieldsOK /\ InitMuOK /\ NoOverlap
  BY <1>1 DEF TrackInv
<1>3. Typed' /\ FieldsOK' /\ ChannelMatchesRevoked' /\ InitMuOK' /\ NoOverlap'
  BY <1>1, <1>2, TypedStep, FieldsStep, InitMuStep, NoOverlapStep
<1>4. Tracked' /\ TakenAll'
  BY <1>1, TrackedStep, TakenAllStep
<1>5. QED
  BY <1>3, <1>4 DEF RegistryInv, TrackInv

LEMMA RegistryInvariance == Spec => []RegistryInv
<1>1. QED
  BY RegistryInvInit, RegistryInvStep, PTL DEF Spec

\* Every authenticated session is in the registry under its user and device, about to be
\* put there, or in the hands of an invalidation, but for those the three ways of escaping
\* that SessionsTracked names let go.
THEOREM SessionsTrackedTheorem == Spec => []SessionsTracked
<1>1. RegistryInv => SessionsTracked
  <2> SUFFICES ASSUME RegistryInv, NEW s \in Sessions \ escaped, sess[s].user # None
               PROVE  \/ Authenticating(s)
                      \/ Taken(s)
                      \/ /\ userStates[sess[s].user] # 0
                         /\ devices[userStates[sess[s].user]][sess[s].device] = s
    BY DEF SessionsTracked
  <2>1. (\E r \in Requests : WillRegister(r, s)) \/ Taken(s) \/ Registered(s)
    BY DEF RegistryInv, TrackInv, Tracked
  <2>2. ASSUME NEW r \in Requests, WillRegister(r, s)
        PROVE  Authenticating(s)
    <3>1. req[r].user \in Users
      BY <2>2 DEF WillRegister, RegistryInv, Typed, LocalsOK
    <3>2. s \in LoggingIn(req[r].user)
      BY <2>2 DEF WillRegister, LoggingIn, LoggingInSteps
    <3>3. QED
      BY <3>1, <3>2 DEF Authenticating
  <2>3. QED
    BY <2>1, <2>2 DEF Registered
<1>2. QED
  BY <1>1, RegistryInvariance, PTL

\* When InvalidateUserSessions returns, no session is authenticated as its user but those
\* that escaped and those a concurrent invalidation is about to revoke.
THEOREM InvalidationTheorem == Spec => InvalidationComplete
<1> DEFINE A == \A r \in Requests :
                  pc[r] \in {"DetachGet", "Revoke"} /\ pc'[r] = "done" =>
                    \A s \in Sessions :
                      sess'[s].user = req[r].user => s \in escaped' \/ Taken(s)'
<1>1. RegistryInv /\ [Next]_vars => [A]_vars
  <2> SUFFICES ASSUME RegistryInv, [Next]_vars, NEW r \in Requests,
                      pc[r] \in {"DetachGet", "Revoke"}, pc'[r] = "done",
                      NEW s \in Sessions, sess'[s].user = req[r].user, s \notin escaped'
               PROVE  Taken(s)'
    OBVIOUS
  <2>1. Typed /\ TrackInv /\ FieldsOK
    BY DEF RegistryInv, TrackInv
  <2>2. req[r].user \in Users
    BY <2>1 DEF Typed, LocalsOK, DetachSteps
  <2>3. DetachGet(r) \/ InvalidateUserSessions(r)
    <3>1. ASSUME NEW q \in Requests, Untouched(q)
          PROVE  q = r
      BY <3>1 DEF Untouched
    <3>2. ~UNCHANGED pc
      OBVIOUS
    <3>3. \/ Aside(r)
          \/ SetFields(r) \/ GetState(r) \/ LockInit(r) \/ QueryUser(r) \/ SetState(r)
          \/ AddDevice(r) \/ ReadUserStarts(r)
          \/ DetachGet(r) \/ DetachTake(r) \/ DetachRemove(r) \/ InvalidateUserSessions(r)
      BY <2>1, <3>1, <3>2, RegistryCases, OthersUntouched
    <3>4. QED
      BY <3>3
         DEF Aside, SetFields, GetState, LockInit, QueryUser, SetState, AddDevice, ReadUserStarts,
             ReadUser, DetachTake, DetachRemove, DetachSteps
  <2>4. s \notin escaped /\ sess'[s] = sess[s] /\ sess'[s].user # None
    BY <2>1, <2>2, <2>3, SessionsKept, NoneAssumption
  <2>5. Taken(s)
    <3>1. CASE InvalidateUserSessions(r)
      BY <2>1, <2>4, <3>1 DEF InvalidateUserSessions, TrackInv, TakenAll
    <3>2. CASE DetachGet(r)
      <4>1. pc[r] = "DetachGet" /\ userStates[req[r].user] = 0
        BY <2>1, <3>2, DetachProgress
      <4>2. ASSUME NEW p \in Requests PROVE ~WillRegister(p, s)
        BY <2>1, <2>4, <4>1 DEF WillRegister, TrackInv, NoOverlap, DetachSteps
      <4>3. ~Registered(s)
        BY <2>4, <4>1 DEF Registered
      <4>4. QED
        BY <2>1, <2>4, <4>2, <4>3 DEF TrackInv, Tracked
    <3>3. QED
      BY <2>3, <3>1, <3>2
  <2>6. QED
    BY <2>1, <2>4, <2>5, TakenStep
<1>2. QED
  BY <1>1, RegistryInvariance, PTL DEF Spec, InvalidationComplete


-----------------------------------------------------------------------------
(* The middleware. *)

\* A request's goroutine moves nobody else's.
LEMMA OwnSteps ==
  ASSUME Typed, [Next]_vars, NEW r \in Requests
  PROVE  \/ pc'[r] = pc[r] /\ req'[r] = req[r]
         \/ \E s \in Sessions : AcceptStream(r, s)
         \/ HandleStream(r) \/ Handler(r) \/ StreamEnds(r)
<1>1. pc \in [Requests -> Pcs] /\ req \in [Requests -> LocalRecord]
  BY DEF Typed, RequestsTyped
<1>2. CASE \/ UNCHANGED vars
           \/ \E s \in Sessions : ConnectionEnds(s)
           \/ \E S \in SUBSET Users : WorkerClaim(S)
           \/ \E u \in Users : WorkerDelete(u)
           \/ WorkerGivesUp
  BY <1>2 DEF vars, ConnectionEnds, WorkerClaim, WorkerDelete, WorkerGivesUp
<1>3. ASSUME NEW q \in Requests \ {r}, NEW step,
             Goto(q, step) \/ (\E locals : GotoWith(q, step, locals))
      PROVE  pc'[r] = pc[r] /\ req'[r] = req[r]
  BY <1>1, <1>3 DEF Goto, GotoWith
<1>4. ASSUME NEW q \in Requests \ {r}, NEW code, NEW step, SendThen(q, code, step)
      PROVE  pc'[r] = pc[r] /\ req'[r] = req[r]
  BY <1>1, <1>4 DEF SendThen
<1>5. ASSUME NEW q \in Requests \ {r},
             \/ AuthService(q) \/ SetFields(q) \/ GetState(q) \/ LockInit(q) \/ QueryUser(q)
             \/ SetState(q) \/ AddDevice(q) \/ SendOK(q)
      PROVE  pc'[r] = pc[r] /\ req'[r] = req[r]
  BY <1>3, <1>4, <1>5
     DEF AuthService, SetFields, GetState, LockInit, QueryUser, SetState, AddDevice, SendOK, Send
<1>6. ASSUME NEW q \in Requests \ {r},
             \/ MwAuth(q) \/ MwUser(q) \/ MwPending(q)
             \/ ScheduleAccountDeletion(q) \/ SendDelete(q) \/ CancelAccountDeletion(q)
      PROVE  pc'[r] = pc[r] /\ req'[r] = req[r]
  BY <1>3, <1>4, <1>6
     DEF MwAuth, MwUser, MwPending, ScheduleAccountDeletion, SendDelete, CancelAccountDeletion,
         Send
<1>7. ASSUME NEW q \in Requests \ {r},
             \/ ReadUser(q) \/ DetachGet(q) \/ DetachTake(q) \/ DetachRemove(q)
             \/ InvalidateUserSessions(q)
      PROVE  pc'[r] = pc[r] /\ req'[r] = req[r]
  BY <1>3, <1>7
     DEF ReadUser, DetachGet, DetachTake, DetachRemove, InvalidateUserSessions, Finish
<1>8. ASSUME NEW q \in Requests \ {r},
             StreamEnds(q) \/ HandleStream(q) \/ \E s \in Sessions : AcceptStream(q, s)
      PROVE  pc'[r] = pc[r] /\ req'[r] = req[r]
  <2>1. CASE StreamEnds(q) \/ \E s \in Sessions : AcceptStream(q, s)
    BY <1>1, <2>1 DEF StreamEnds, AcceptStream
  <2>2. CASE HandleStream(q)
    <3>1. SendThen(q, "Error", "done") \/ \E first \in RouteOps : Goto(q, first)
      BY <2>2 DEF HandleStream, Send, SendThen
    <3>2. QED
      BY <1>3, <1>4, <3>1
  <2>3. QED
    BY <1>8, <2>1, <2>2
<1>9. QED
  BY <1>2, <1>5, <1>6, <1>7, <1>8 DEF Next, Handler

LEMMA GuardedStep == Typed /\ GuardedOK /\ HistoryNext => GuardedOK'
<1> SUFFICES ASSUME Typed, GuardedOK, HistoryNext, NEW r \in guarded'
             PROVE  /\ pc'[r] \in {"MwAuth", "MwUser", "MwPending", "done"}
                    /\ PendingDeletion(UserOf(r))'
                    /\ pc'[r] = "MwPending" => req'[r].user = UserOf(r)'
  BY DEF GuardedOK
<1>1. /\ r \in Requests /\ pc'[r] # "idle" /\ PendingDeletion(UserOf(r))'
      /\ \/ pc[r] = "ReadFrame" /\ pc'[r] = "MwAuth"
         \/ r \in guarded /\ UserOf(r)' = UserOf(r)
  BY DEF HistoryNext
<1>2. CASE pc[r] = "ReadFrame" /\ pc'[r] = "MwAuth"
  BY <1>1, <1>2
<1>3. CASE r \in guarded /\ UserOf(r)' = UserOf(r)
  <2>1. /\ pc[r] \in {"MwAuth", "MwUser", "MwPending", "done"}
        /\ PendingDeletion(UserOf(r))
        /\ pc[r] = "MwPending" => req[r].user = UserOf(r)
    BY <1>3 DEF GuardedOK
  <2>2. UserOf(r) # None /\ UserOf(r) = sess[req[r].session].user
    BY <2>1 DEF PendingDeletion, UserOf
  <2>3. CASE pc'[r] = pc[r] /\ req'[r] = req[r]
    BY <1>1, <1>3, <2>1, <2>3
  <2>4. pc \in [Requests -> Pcs] /\ req \in [Requests -> LocalRecord] /\ req[r] \in LocalRecord
    BY <1>1 DEF Typed, RequestsTyped
  <2>5. CASE MwAuth(r)
    <3>1. pc'[r] = "MwUser"
      BY <1>1, <2>2, <2>4, <2>5 DEF MwAuth, Goto
    <3>2. QED
      BY <1>1, <3>1
  <2>6. CASE MwUser(r)
    <3>1. GotoWith(r, "MwPending", [req[r] EXCEPT !.user = UserOf(r)])
      BY <2>2, <2>6 DEF MwUser
    <3>2. pc'[r] = "MwPending" /\ req'[r].user = UserOf(r)
      BY <1>1, <2>4, <3>1 DEF GotoWith, LocalRecord
    <3>3. QED
      BY <1>1, <1>3, <3>2
  <2>7. CASE MwPending(r)
    <3>1. account[req[r].user] \in {"pending", "claimed"}
      BY <2>1, <2>7 DEF MwPending, PendingDeletion
    <3>2. SendThen(r, "Unauthorized", "done") \/ SendThen(r, "Error", "done")
      BY <2>7, <3>1 DEF MwPending, Send
    <3>3. pc'[r] = "done"
      BY <1>1, <2>4, <3>2 DEF SendThen
    <3>4. QED
      BY <1>1, <3>3
  <2>8. ~StreamEnds(r)
    BY <1>1, <2>4 DEF StreamEnds
  <2>9. QED
    <3>1. Next
      BY DEF HistoryNext
    <3>2. \/ pc'[r] = pc[r] /\ req'[r] = req[r]
          \/ \E s \in Sessions : AcceptStream(r, s)
          \/ HandleStream(r) \/ Handler(r)
      BY <1>1, <2>8, <3>1, OwnSteps
    <3>3. \/ pc'[r] = pc[r] /\ req'[r] = req[r]
          \/ MwAuth(r) \/ MwUser(r) \/ MwPending(r)
      BY <2>1, <3>2
         DEF AcceptStream, HandleStream, Handler, AuthService, SetFields, GetState, LockInit,
             QueryUser, SetState, AddDevice, SendOK, ScheduleAccountDeletion, SendDelete, ReadUser,
             DetachGet, DetachTake, DetachRemove, InvalidateUserSessions, CancelAccountDeletion
    <3>4. QED
      BY <2>3, <2>5, <2>6, <2>7, <3>3
<1>4. QED
  BY <1>1, <1>2, <1>3

\* An account.delete request whose session belongs, from the middleware on, to one account
\* with a pending deletion never gets past AuthMiddleware.
THEOREM PendingSessionTheorem == HistorySpec => []PendingSessionRefused
<1>1. HistoryInit => Typed /\ GuardedOK
  BY TypedInit DEF HistoryInit, GuardedOK
<1>2. Typed /\ GuardedOK /\ [HistoryNext]_historyVars => (Typed /\ GuardedOK)'
  <2>1. CASE HistoryNext
    BY <2>1, TypedStep, GuardedStep DEF HistoryNext
  <2>2. CASE UNCHANGED historyVars
    <3>1. UNCHANGED vars /\ UNCHANGED guarded
      BY <2>2 DEF historyVars
    <3>2. UNCHANGED <<account, sess, pc, req>>
      BY <3>1 DEF vars, serviceVars, registryVars
    <3>3. Typed => Typed'
      BY <3>1, TypedStep
    <3>4. GuardedOK => GuardedOK'
      BY <3>1, <3>2 DEF GuardedOK, PendingDeletion, UserOf
    <3>5. QED
      BY <3>3, <3>4
  <2>3. QED
    BY <2>1, <2>2
<1>3. GuardedOK => PendingSessionRefused
  BY DEF GuardedOK, PendingSessionRefused
<1>4. QED
  BY <1>1, <1>2, <1>3, PTL DEF HistorySpec

=============================================================================
