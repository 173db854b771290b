--------------------------- MODULE UpdateStreams ----------------------------
(***************************************************************************)
(* The update streams of one connection: ServerUpdatesContext (the server   *)
(* sends updates), ClientUpdatesContext (the client does), and the end of   *)
(* Router.Handle for such a stream.  Every stream is served by a goroutine  *)
(* of its own and they share the connection's DeviceSession, which other    *)
(* goroutines revoke and log in again.  Frames travel over FrameChannel.    *)
(* The route's handler is code no route of the repository has yet: it       *)
(* calls the context's methods as it likes and goes on or returns after an  *)
(* error (external).                                                        *)
(***************************************************************************)
EXTENDS Naturals, Sequences, SequencesExt, FiniteSets

CONSTANTS
  Streams,    \* update streams of the connection
  MaxSeq,     \* bound on the sequence numbers in the client's envelopes
  MaxCalls,   \* bound on a handler's calls, and on the client's frames
  MaxLogins   \* bound on logins of the session

Up(s) == <<s, "up">>

Down(s) == <<s, "down">>

Update(seq, end) == [kind |-> "update", seq |-> seq, end |-> end]

Response == [kind |-> "response"]

Garbled == [kind |-> "garbled"]

VARIABLES
  kind,       \* stream -> whether its route is a ServerUpdates or a ClientUpdates route
  revoked,    \* DeviceSession.revoked
  logins,     \* logins of the session so far
  ctx,        \* stream -> where its goroutine is, and its context's fields
  sent, received, broken,   \* the channels of FrameChannel
  accepted,   \* history: stream -> updates NextUpdate has handed to the handler
  inFlight    \* history: streams inside a call when the session was last revoked

channelVars == <<sent, received, broken>>

vars == <<kind, revoked, logins, ctx, channelVars, accepted, inFlight>>

ServerStreams == {s \in Streams : kind[s] = "server"}

ClientStreams == {s \in Streams : kind[s] = "client"}

ClientFrames == {Update(seq, end) : seq \in 0..MaxSeq, end \in BOOLEAN} \cup {Garbled}

Channel ==
  INSTANCE FrameChannel
    WITH Streams <- {Up(s) : s \in Streams} \cup {Down(s) : s \in Streams},
         Frames <- ClientFrames \cup {Response}

NewContext == [step |-> "open", nextSeq |-> 0, ended |-> FALSE, end |-> FALSE, err |-> "nil",
               calls |-> 0]

Init ==
  /\ Channel!Init
  /\ kind \in [Streams -> {"server", "client"}]
  /\ revoked = FALSE
  /\ logins = 1
  /\ ctx = [s \in Streams |-> NewContext]
  /\ accepted = [s \in Streams |-> <<>>]
  /\ inFlight = {}

-----------------------------------------------------------------------------
(* The session, as the other goroutines of the server change it. *)

InCall(s) == ctx[s].step \in {"write", "read"}

Revoke ==
  /\ ~revoked
  /\ revoked' = TRUE
  /\ inFlight' = {s \in Streams : InCall(s)}
  /\ UNCHANGED <<kind, logins, ctx, channelVars, accepted>>

\* Authenticate on a session that was revoked makes it usable again.
Authenticate ==
  /\ revoked
  /\ logins < MaxLogins
  /\ logins' = logins + 1
  /\ revoked' = FALSE
  /\ UNCHANGED <<kind, ctx, channelVars, accepted, inFlight>>

-----------------------------------------------------------------------------
(* The two contexts. *)

\* A call of the handler's returns err (or nil) to it.
Back(s, err) == ctx' = [ctx EXCEPT ![s].step = "handler", ![s].err = err]

Called(s) == ctx[s].step = "handler" /\ ctx[s].calls < MaxCalls

\* NewServerUpdatesContext, NewClientUpdatesContext: the request decodes or not.
Open(s) ==
  /\ ctx[s].step = "open"
  /\ \/ Back(s, "nil")
     \/ ctx' = [ctx EXCEPT ![s].step = "return", ![s].err = "other"]
  /\ UNCHANGED <<kind, revoked, logins, channelVars, accepted, inFlight>>

\* A call that returns without reading or writing.
Returns(s, err) == ctx' = [ctx EXCEPT ![s].calls = @ + 1, ![s].err = err]

\* Send: a response frame outside the sequence; a missing body is an error.
SendResponse(s) ==
  /\ Called(s)
  /\ \/ Channel!Send(Down(s), Response) /\ Returns(s, "nil")
     \/ Channel!SendFails(Down(s), Response) /\ Returns(s, "other")
     \/ UNCHANGED channelVars /\ Returns(s, "other")
  /\ UNCHANGED <<kind, revoked, logins, accepted, inFlight>>

\* SendUpdate up to the write: nothing after the end, a missing body is an error, and
\* BaseContext.SendUpdate refuses a revoked session.
SendUpdate(s, end) ==
  /\ Called(s)
  /\ \/ ctx[s].ended /\ Returns(s, "nil")
     \/ ~ctx[s].ended /\ Returns(s, "other")
     \/ ~ctx[s].ended /\ revoked /\ Returns(s, "revoked")
     \/ /\ ~ctx[s].ended /\ ~revoked
        /\ ctx' = [ctx EXCEPT ![s].calls = @ + 1, ![s].step = "write", ![s].end = end]
  /\ UNCHANGED <<kind, revoked, logins, channelVars, accepted, inFlight>>

\* Mutant: nextSeq is advanced whether the update was written or not.
WriteUpdateCountsAll(s) ==
  /\ ctx[s].step = "write"
  /\ \/ /\ Channel!Send(Down(s), Update(ctx[s].nextSeq, ctx[s].end))
        /\ ctx' = [ctx EXCEPT ![s].step = "handler", ![s].err = "nil", ![s].nextSeq = @ + 1,
                              ![s].ended = ctx[s].end]
     \/ /\ UNCHANGED channelVars
        /\ ctx' = [ctx EXCEPT ![s].step = "handler", ![s].err = "other", ![s].nextSeq = @ + 1]
  /\ inFlight' = inFlight \ {s}
  /\ UNCHANGED <<kind, revoked, logins, accepted>>

\* The rest of SendUpdate: the update is written; or the write fails; or nothing is
\* written, because the update does not encode or the frame is too large.
WriteUpdate(s) ==
  /\ ctx[s].step = "write"
  /\ \/ /\ Channel!Send(Down(s), Update(ctx[s].nextSeq, ctx[s].end))
        /\ ctx' = [ctx EXCEPT ![s].step = "handler", ![s].err = "nil", ![s].nextSeq = @ + 1,
                              ![s].ended = ctx[s].end]
     \/ Channel!SendFails(Down(s), Update(ctx[s].nextSeq, ctx[s].end)) /\ Back(s, "other")
     \/ UNCHANGED channelVars /\ Back(s, "other")
  /\ inFlight' = inFlight \ {s}
  /\ UNCHANGED <<kind, revoked, logins, accepted>>

\* Mutant: ReadUpdate does not look at the session.
NextUpdateUnchecked(s) ==
  /\ Called(s)
  /\ \/ ctx[s].ended /\ Returns(s, "nil")
     \/ ~ctx[s].ended /\ ctx' = [ctx EXCEPT ![s].calls = @ + 1, ![s].step = "read"]
  /\ UNCHANGED <<kind, revoked, logins, channelVars, accepted, inFlight>>

\* NextUpdate up to the read: ReadUpdate refuses a revoked session, then waits for a
\* frame without looking at the session again.
NextUpdate(s) ==
  /\ Called(s)
  /\ \/ ctx[s].ended /\ Returns(s, "nil")
     \/ ~ctx[s].ended /\ revoked /\ Returns(s, "revoked")
     \/ /\ ~ctx[s].ended /\ ~revoked
        /\ ctx' = [ctx EXCEPT ![s].calls = @ + 1, ![s].step = "read"]
  /\ UNCHANGED <<kind, revoked, logins, channelVars, accepted, inFlight>>

\* The rest of NextUpdate: an envelope with the wrong number is an error and is dropped.
ReadUpdate(s) ==
  /\ ctx[s].step = "read"
  /\ Channel!Receive(Up(s))
  /\ LET frame == Last(received'[Up(s)])
     IN IF frame.kind = "update" /\ frame.seq = ctx[s].nextSeq
        THEN /\ ctx' = [ctx EXCEPT ![s].step = "handler", ![s].err = "nil", ![s].nextSeq = @ + 1,
                                   ![s].ended = frame.end]
             /\ accepted' = [accepted EXCEPT ![s] = Append(@, frame)]
        ELSE Back(s, "other") /\ UNCHANGED accepted
  /\ inFlight' = inFlight \ {s}
  /\ UNCHANGED <<kind, revoked, logins>>

\* The client's side broke.
ReadUpdateFails(s) ==
  /\ ctx[s].step = "read"
  /\ broken[Up(s)]
  /\ Back(s, "other")
  /\ inFlight' = inFlight \ {s}
  /\ UNCHANGED <<kind, revoked, logins, channelVars, accepted>>

-----------------------------------------------------------------------------
(* The end of Router.Handle, and the client. *)

\* The handler returns nil, the error of its last call, or an error of its own.
Return(s, err) ==
  /\ ctx[s].step = "handler"
  /\ err \in {"nil", "other", ctx[s].err}
  /\ ctx' = [ctx EXCEPT ![s].step = "return", ![s].err = err]
  /\ UNCHANGED <<kind, revoked, logins, channelVars, accepted, inFlight>>

\* A revoked session's stream is closed without a word; another error is answered
\* first; after success the stream is left as it is.
Finish(s) ==
  /\ ctx[s].step = "return"
  /\ ctx' = [ctx EXCEPT ![s].step = IF ctx[s].err = "nil" THEN "left" ELSE "closed"]
  /\ IF ctx[s].err = "other"
     THEN Channel!Send(Down(s), Response) \/ Channel!SendFails(Down(s), Response)
     ELSE UNCHANGED channelVars
  /\ UNCHANGED <<kind, revoked, logins, accepted, inFlight>>

\* The client sends whatever it likes (external).
ClientSends(s, frame) ==
  /\ Len(sent[Up(s)]) < MaxCalls
  /\ Channel!Send(Up(s), frame) \/ Channel!SendFails(Up(s), frame)
  /\ UNCHANGED <<kind, revoked, logins, ctx, accepted, inFlight>>

-----------------------------------------------------------------------------

Next ==
  \/ Revoke
  \/ Authenticate
  \/ \E s \in Streams : Open(s) \/ SendResponse(s) \/ Finish(s)
  \/ \E s \in Streams, err \in {"nil", "other", "revoked"} : Return(s, err)
  \/ \E s \in ServerStreams : WriteUpdate(s) \/ \E end \in BOOLEAN : SendUpdate(s, end)
  \/ \E s \in ClientStreams : NextUpdate(s) \/ ReadUpdate(s) \/ ReadUpdateFails(s)
  \/ \E s \in ClientStreams, frame \in ClientFrames : ClientSends(s, frame)

Spec == Init /\ [][Next]_vars

-----------------------------------------------------------------------------
(* Properties. *)

UpdatesIn(frames) == {i \in 1..Len(frames) : frames[i].kind = "update"}

\* Sequence numbers count from 0 and only the last update carries the end.
InOrder(frames) ==
  \A i \in UpdatesIn(frames) :
    /\ frames[i].seq = Cardinality({j \in UpdatesIn(frames) : j < i})
    /\ frames[i].end => \A j \in UpdatesIn(frames) : j <= i

\* The updates on the wire of a server stream, and those a client stream's handler is
\* given, are numbered without a gap or a repetition and stop at the end, whatever
\* fails or is refused in between and whatever the client sends
\* (ServerUpdatesContext.SendUpdate, ClientUpdatesContext.NextUpdate).
UpdatesInOrder ==
  /\ \A s \in ServerStreams : InOrder(sent[Down(s)])
  /\ \A s \in ClientStreams : InOrder(accepted[s])

\* The updates that have crossed stream s, in either direction.
Crossed(s) == Len(accepted[s]) + Cardinality(UpdatesIn(sent[Down(s)]))

\* While the session is revoked an update crosses a stream only in the call that was
\* under way when it was revoked, so at most one per stream and revocation: the check
\* of IsRevoked and the write or read after it are not atomic, and no call slips by
\* the check (BaseContext.SendUpdate, ReadUpdate).
RevokedUpdatesWereInFlight ==
  [][\A s \in Streams : revoked /\ Crossed(s)' > Crossed(s) => s \in inFlight]_vars

=============================================================================
