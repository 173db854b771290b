------------------------------ MODULE Streams -------------------------------
(***************************************************************************)
(* One stream of a connection, by what it carries: frames (FrameStream), a  *)
(* raw transfer (RawTransfer), or the updates of a route (UpdateStreams,    *)
(* which sees the frames as FrameChannel).  Its use is settled when it is   *)
(* opened; the state of the other uses then stays as it was.                *)
(***************************************************************************)
EXTENDS Integers, Sequences

CONSTANTS
  Base, Types, Lengths, MaxFrames,             \* of FrameStream
  SourceLen, ChunkSizes, DefaultChunkSize,     \* of RawTransfer
  UpdateStream, MaxSeq, MaxCalls, MaxLogins    \* of UpdateStreams

ASSUME BaseAssumption == Base \in Nat /\ Base > 1

ASSUME FramesAssumption == Types # {} /\ Lengths # {} /\ Lengths \subseteq Nat

ASSUME TransferAssumption ==
  SourceLen \in Nat /\ ChunkSizes \subseteq Int /\ DefaultChunkSize \in Nat

VARIABLES
  use,                                                            \* what it carries
  wire, taken, dead, fin,                                         \* of QuicStream
  w, r, calls, framesSent, framesRead,                            \* of FrameStream
  from, to, used, dest,                                           \* of RawTransfer
  kind, revoked, logins, ctx, sent, received, broken, accepted, inFlight   \* of UpdateStreams

quic == <<wire, taken, dead, fin>>

framing == <<w, r, calls, framesSent, framesRead>>

copying == <<from, to, used, dest>>

updating == <<kind, revoked, logins, ctx, sent, received, broken, accepted, inFlight>>

vars == <<use, quic, framing, copying, updating>>

\* quic-go's Write reports an error when it accepts less than it was given; WriteFrom's
\* loop would also cope with a stream that does not.
Framing == INSTANCE FrameStream WITH ShortWrites <- FALSE

Copying == INSTANCE RawTransfer WITH ShortWrites <- TRUE

Updating == INSTANCE UpdateStreams WITH Streams <- {UpdateStream}

Init ==
  /\ use \in {"frames", "transfer", "updates"}
  /\ Framing!Init
  /\ Copying!Init
  /\ Updating!Init

CarriesFrames == use = "frames" /\ UNCHANGED <<use, copying, updating>>

CarriesTransfer == use = "transfer" /\ UNCHANGED <<use, framing, updating>>

CarriesUpdates == use = "updates" /\ UNCHANGED <<use, quic, framing, copying>>

Next ==
  \/ CarriesFrames /\ Framing!Next
  \/ CarriesTransfer /\ Copying!Next
  \/ CarriesUpdates /\ Updating!Next

Spec == Init /\ [][Next]_vars

\* A writer in WriteFrame and a reader with bytes to read go on.
FairSpec ==
  /\ Spec
  /\ WF_vars(CarriesFrames /\ Framing!Writer)
  /\ WF_vars(CarriesFrames /\ Framing!Reader)

-----------------------------------------------------------------------------
(* Properties. *)

\* FrameStream: ReadFrame returns the frames WriteFrame wrote, whole and in order, and
\* a torn frame is an error, never another frame (stream.go).
ImplementsFrameChannel == Framing!ImplementsFrameChannel

\* FrameStream: a frame that was written whole is read, unless the stream broke
\* (stream.go ReadFrame).
FramesDelivered == Framing!FramesDelivered

\* RawTransfer: the totals WriteFrom and ReadTo return are what was copied, whatever
\* failed (stream.go WriteFrom, ReadTo).
TotalsAreTrue == use = "transfer" => Copying!TotalsAreTrue

\* RawTransfer: when both ends report success everything was copied (stream.go).
TransferComplete == use = "transfer" => Copying!TransferComplete

\* UpdateStreams: updates are numbered without gaps or repetitions and stop at the end
\* (ServerUpdatesContext.SendUpdate, ClientUpdatesContext.NextUpdate).
UpdatesInOrder == Updating!UpdatesInOrder

\* UpdateStreams: while the session is revoked an update crosses the stream only in a
\* call that was under way (BaseContext.SendUpdate, ReadUpdate).
RevokedUpdatesWereInFlight == Updating!RevokedUpdatesWereInFlight

=============================================================================
