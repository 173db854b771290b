---------------------------- MODULE FrameStream -----------------------------
(***************************************************************************)
(* transport.QuicStream's frame codec: WriteFrame at one end of a stream    *)
(* and ReadFrame at the other.  A frame is a type byte, the length of the   *)
(* payload as four big-endian bytes, and the payload; a byte has Base       *)
(* values.  Every Write and every Read of the stream is a step.             *)
(***************************************************************************)
EXTENDS QuicStream

CONSTANTS
  Base,       \* values of a byte (256), at least 2
  Types,      \* frame types written
  Lengths,    \* lengths of the payloads written
  MaxFrames   \* bound on calls of WriteFrame

VARIABLES
  w,           \* the writer: the step of WriteFrame, its frame, bytes of it written
  r,           \* the reader: the step of ReadFrame and the bytes it has read
  calls,       \* calls of WriteFrame so far
  framesSent,  \* frames whose last byte has been accepted
  framesRead   \* frames ReadFrame has returned

vars == <<quicVars, w, r, calls, framesSent, framesRead>>

frameHeaderSize == 5

MaxLength == Base * Base * Base * Base - 1

Payload(length) == [i \in 1..length |-> i % Base]

Frames == [type : Types, payload : {Payload(n) : n \in Lengths}]

\* n shifted by one byte.
Shifted(n) == n \div Base

\* Mutant: the length is written in the host's order.
PutUint32LittleEndian(n) ==
  <<n % Base, Shifted(n) % Base, Shifted(Shifted(n)) % Base, Shifted(Shifted(Shifted(n))) % Base>>

PutUint32(n) ==
  <<Shifted(Shifted(Shifted(n))) % Base, Shifted(Shifted(n)) % Base, Shifted(n) % Base, n % Base>>

Uint32(b) == ((b[1] * Base + b[2]) * Base + b[3]) * Base + b[4]

Header(f) == <<f.type>> \o PutUint32(Len(f.payload))

NoFrame == [type |-> 0, payload |-> <<>>]

WriterIdle == [step |-> "idle", frame |-> NoFrame, written |-> 0]

ReaderIdle == [step |-> "idle", buf |-> <<>>, type |-> 0, length |-> 0]

Init ==
  /\ QuicInit
  /\ w = WriterIdle
  /\ r = ReaderIdle
  /\ calls = 0
  /\ framesSent = <<>>
  /\ framesRead = <<>>

-----------------------------------------------------------------------------
(* WriteFrame *)

\* A payload whose length does not fit is refused before anything is written.
WriteFrame ==
  /\ w.step = "idle"
  /\ ~fin
  /\ calls < MaxFrames
  /\ calls' = calls + 1
  /\ \E f \in Frames :
       w' = IF Len(f.payload) > MaxLength THEN w
            ELSE [step |-> "header", frame |-> f, written |-> 0]
  /\ UNCHANGED <<quicVars, r, framesSent, framesRead>>

\* The number of bytes of the header that were accepted is not looked at.
WriteHeader ==
  /\ w.step = "header"
  /\ \E n \in 0..frameHeaderSize, err \in BOOLEAN :
       /\ Write(Header(w.frame), n, err)
       /\ w' = IF err \/ w.frame.payload = <<>> THEN WriterIdle ELSE [w EXCEPT !.step = "payload"]
       /\ framesSent' = IF n = frameHeaderSize /\ w.frame.payload = <<>>
                        THEN Append(framesSent, w.frame) ELSE framesSent
  /\ UNCHANGED <<r, calls, framesRead>>

\* One iteration of the loop; it ends with an error, a write of nothing, or the
\* last byte.
WritePayload ==
  /\ w.step = "payload"
  /\ LET rest == SubSeq(w.frame.payload, w.written + 1, Len(w.frame.payload))
     IN \E n \in 0..Len(rest), err \in BOOLEAN :
          /\ Write(rest, n, err)
          /\ w' = IF err \/ n = 0 \/ n = Len(rest) THEN WriterIdle
                  ELSE [w EXCEPT !.written = @ + n]
          /\ framesSent' = IF n = Len(rest) THEN Append(framesSent, w.frame) ELSE framesSent
  /\ UNCHANGED <<r, calls, framesRead>>

Close ==
  /\ w.step = "idle"
  /\ CloseWrite
  /\ UNCHANGED <<w, r, calls, framesSent, framesRead>>

-----------------------------------------------------------------------------
(* ReadFrame.  io.ReadFull (external) reads until it has all it was asked   *)
(* for.                                                                     *)

ReadFrame ==
  /\ r.step = "idle"
  /\ r' = [ReaderIdle EXCEPT !.step = "header"]
  /\ UNCHANGED <<quicVars, w, calls, framesSent, framesRead>>

Deliver(type, payload) ==
  /\ framesRead' = Append(framesRead, [type |-> type, payload |-> payload])
  /\ r' = ReaderIdle

ReadHeader ==
  /\ r.step = "header"
  /\ \E k \in 1..(frameHeaderSize - Len(r.buf)) :
       /\ Read(frameHeaderSize - Len(r.buf), k)
       /\ LET buf == r.buf \o Upcoming(k)
              length == Uint32(SubSeq(buf, 2, 5))
          IN IF Len(buf) < frameHeaderSize
             THEN r' = [r EXCEPT !.buf = buf] /\ UNCHANGED framesRead
             ELSE IF length = 0
             THEN Deliver(buf[1], <<>>)
             ELSE /\ r' = [step |-> "payload", buf |-> <<>>, type |-> buf[1], length |-> length]
                  /\ UNCHANGED framesRead
  /\ UNCHANGED <<w, calls, framesSent>>

\* Mutant: the payload is read with one call of Read.
ReadPayloadOnce ==
  /\ r.step = "payload"
  /\ \E k \in 1..(r.length - Len(r.buf)) :
       /\ Read(r.length - Len(r.buf), k)
       /\ Deliver(r.type, Upcoming(k))
  /\ UNCHANGED <<w, calls, framesSent>>

ReadPayload ==
  /\ r.step = "payload"
  /\ \E k \in 1..(r.length - Len(r.buf)) :
       /\ Read(r.length - Len(r.buf), k)
       /\ LET buf == r.buf \o Upcoming(k)
          IN IF Len(buf) < r.length
             THEN r' = [r EXCEPT !.buf = buf] /\ UNCHANGED framesRead
             ELSE Deliver(r.type, buf)
  /\ UNCHANGED <<w, calls, framesSent>>

\* io.EOF, io.ErrUnexpectedEOF or the stream's error; the caller gives up.
ReadFrameFails ==
  /\ r.step \in {"header", "payload"}
  /\ ReadFails
  /\ r' = [ReaderIdle EXCEPT !.step = "failed"]
  /\ UNCHANGED <<w, calls, framesSent, framesRead>>

-----------------------------------------------------------------------------

Writer == WriteHeader \/ WritePayload

Reader == ReadFrame \/ ReadHeader \/ ReadPayload

Next == WriteFrame \/ Writer \/ Close \/ Reader \/ ReadFrameFails

Spec == Init /\ [][Next]_vars

\* A writer in WriteFrame and a reader with bytes to read go on.
FairSpec == Spec /\ WF_vars(Writer) /\ WF_vars(Reader)

-----------------------------------------------------------------------------
(* Properties. *)

Channel ==
  INSTANCE FrameChannel
    WITH Streams <- {1}, Frames <- Frames,
         sent <- [s \in {1} |-> framesSent], received <- [s \in {1} |-> framesRead],
         broken <- [s \in {1} |-> dead]

\* ReadFrame returns the frames WriteFrame wrote, whole and in order, however the bytes
\* are cut up and wherever a write fails: a torn frame is an error, never another
\* frame (stream.go WriteFrame, ReadFrame).
ImplementsFrameChannel == Channel!Spec

\* A frame that was written whole is read, unless the stream broke: the reader never
\* waits for bytes that belong to no frame.
FramesDelivered ==
  \A n \in 1..MaxFrames :
    Len(framesSent) >= n ~> Len(framesRead) >= n \/ dead

=============================================================================
