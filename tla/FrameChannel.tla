---------------------------- MODULE FrameChannel ----------------------------
(***************************************************************************)
(* What transport.QuicStream's WriteFrame and ReadFrame promise in one      *)
(* direction of a stream: whole frames, in order, none made up.  The stream *)
(* may break, after which nothing more is sent.  FrameStream implements it  *)
(* over bytes; UpdateStreams is built on it.                                *)
(***************************************************************************)
EXTENDS Naturals, Sequences

CONSTANTS
  Streams,   \* directions of streams
  Frames     \* what is sent over them

VARIABLES
  sent,      \* stream -> frames sent so far
  received,  \* stream -> frames read so far
  broken     \* stream -> no write succeeds any more

channelVars == <<sent, received, broken>>

Init ==
  /\ sent = [s \in Streams |-> <<>>]
  /\ received = [s \in Streams |-> <<>>]
  /\ broken = [s \in Streams |-> FALSE]

Send(s, f) ==
  /\ ~broken[s]
  /\ sent' = [sent EXCEPT ![s] = Append(@, f)]
  /\ UNCHANGED <<received, broken>>

\* The write fails; the frame may have got through all the same.
SendFails(s, f) ==
  /\ sent' \in {sent, IF broken[s] THEN sent ELSE [sent EXCEPT ![s] = Append(@, f)]}
  /\ broken' = [broken EXCEPT ![s] = TRUE]
  /\ UNCHANGED received

Receive(s) ==
  /\ Len(received[s]) < Len(sent[s])
  /\ received' = [received EXCEPT ![s] = Append(@, sent[s][Len(@) + 1])]
  /\ UNCHANGED <<sent, broken>>

Next == \E s \in Streams : Receive(s) \/ \E f \in Frames : Send(s, f) \/ SendFails(s, f)

Spec == Init /\ [][Next]_channelVars

=============================================================================
