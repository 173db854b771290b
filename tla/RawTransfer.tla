---------------------------- MODULE RawTransfer -----------------------------
(***************************************************************************)
(* transport.QuicStream's raw transfers: WriteFrom copies a reader into one *)
(* end of a stream, ReadTo copies the other end into a writer.  The reader  *)
(* and the writer are the callers' (external): a reader hands out chunks of *)
(* any size, may return its last bytes together with io.EOF or an error; a  *)
(* writer may fail after part of a chunk.  Every call of Read and Write is  *)
(* a step.                                                                  *)
(***************************************************************************)
EXTENDS QuicStream

CONSTANTS
  SourceLen,         \* bytes the reader holds
  ChunkSizes,        \* chunk sizes WriteFrom is called with
  DefaultChunkSize   \* transport.DefaultChunkSize (64 KiB)

VARIABLES
  from,   \* WriteFrom: step, buffer, bytes of it written, the reader's error, total
  to,     \* ReadTo: step, bytes copied
  used,   \* bytes the reader has handed out
  dest    \* bytes the writer has accepted

vars == <<quicVars, from, to, used, dest>>

Source == [i \in 1..SourceLen |-> i]

Init ==
  /\ QuicInit
  /\ from = [step |-> "idle", chunk |-> 0, buf |-> <<>>, written |-> 0, rErr |-> "nil", total |-> 0]
  /\ to = [step |-> "idle", total |-> 0]
  /\ used = 0
  /\ dest = <<>>

-----------------------------------------------------------------------------
(* WriteFrom *)

WriteFrom(chunkSize) ==
  /\ from.step = "idle"
  /\ from' = [from EXCEPT !.step = "read",
                          !.chunk = IF chunkSize <= 0 THEN DefaultChunkSize ELSE chunkSize]
  /\ UNCHANGED <<quicVars, to, used, dest>>

\* Where the loop goes once the bytes that came with the reader's error are written.
AfterChunk(rErr) == IF rErr = "nil" THEN "read" ELSE IF rErr = "EOF" THEN "ok" ELSE "failed"

\* What reader.Read may return: n bytes, and io.EOF only at the end.
Handed(n, rErr) == n <= SourceLen - used /\ (rErr = "EOF" => used + n = SourceLen)

\* Mutant: the end of the reader is looked at before the bytes that came with it.
ReadSourceEOFFirst ==
  /\ from.step = "read"
  /\ \E n \in 0..from.chunk, rErr \in {"nil", "EOF", "other"} :
       /\ Handed(n, rErr)
       /\ used' = used + n
       /\ from' = [from EXCEPT !.buf = SubSeq(Source, used + 1, used + n), !.written = 0,
                               !.rErr = rErr,
                               !.step = IF n > 0 /\ rErr = "nil" THEN "write" ELSE AfterChunk(rErr)]
  /\ UNCHANGED <<quicVars, to, dest>>

ReadSource ==
  /\ from.step = "read"
  /\ \E n \in 0..from.chunk, rErr \in {"nil", "EOF", "other"} :
       /\ Handed(n, rErr)
       /\ used' = used + n
       /\ from' = [from EXCEPT !.buf = SubSeq(Source, used + 1, used + n), !.written = 0,
                               !.rErr = rErr,
                               !.step = IF n > 0 THEN "write" ELSE AfterChunk(rErr)]
  /\ UNCHANGED <<quicVars, to, dest>>

\* Mutant: a write starts the chunk over after a short write.
WriteChunkRestarts ==
  /\ from.step = "write"
  /\ \E n \in 0..Len(from.buf), err \in BOOLEAN :
       /\ Write(from.buf, n, err)
       /\ from' = [from EXCEPT !.total = @ + n,
                               !.step = IF err \/ n = 0 THEN "failed"
                                        ELSE IF n = Len(from.buf) THEN AfterChunk(from.rErr)
                                        ELSE "write"]
  /\ UNCHANGED <<to, used, dest>>

\* One Write of the inner loop.
WriteChunk ==
  /\ from.step = "write"
  /\ LET rest == SubSeq(from.buf, from.written + 1, Len(from.buf))
     IN \E n \in 0..Len(rest), err \in BOOLEAN :
          /\ Write(rest, n, err)
          /\ from' = [from EXCEPT !.total = @ + n, !.written = @ + n,
                                  !.step = IF err \/ n = 0 THEN "failed"
                                           ELSE IF n = Len(rest) THEN AfterChunk(from.rErr)
                                           ELSE "write"]
  /\ UNCHANGED <<to, used, dest>>

\* The caller closes its side, whatever WriteFrom returned.
Close ==
  /\ from.step \in {"ok", "failed"}
  /\ CloseWrite
  /\ UNCHANGED <<from, to, used, dest>>

-----------------------------------------------------------------------------
(* ReadTo, that is io.CopyBuffer (external). *)

ReadTo ==
  /\ to.step = "idle"
  /\ to' = [to EXCEPT !.step = "copy"]
  /\ UNCHANGED <<quicVars, from, used, dest>>

\* One read, and the write of what it returned: a short write ends the copy, and an
\* error does, whatever the writer took.
CopyChunk ==
  /\ to.step = "copy"
  /\ \E k \in 1..DefaultChunkSize, j \in 0..DefaultChunkSize, step \in {"copy", "failed"} :
       /\ Read(DefaultChunkSize, k)
       /\ j <= k
       /\ step = "copy" => j = k
       /\ dest' = dest \o Upcoming(j)
       /\ to' = [step |-> step, total |-> to.total + j]
  /\ UNCHANGED <<from, used>>

\* The end of the stream is success; a broken stream is an error.
CopyEnds ==
  /\ to.step = "copy"
  /\ ReadFails
  /\ \E step \in {"ok", "failed"} :
       /\ step = "ok" => AtEOF
       /\ step = "failed" => dead
       /\ to' = [to EXCEPT !.step = step]
  /\ UNCHANGED <<from, used, dest>>

-----------------------------------------------------------------------------

Next ==
  \/ \E chunkSize \in ChunkSizes : WriteFrom(chunkSize)
  \/ ReadSource \/ WriteChunk \/ Close
  \/ ReadTo \/ CopyChunk \/ CopyEnds

Spec == Init /\ [][Next]_vars

-----------------------------------------------------------------------------
(* Properties. *)

\* Whatever fails and however Read and Write cut the bytes, the stream carries a prefix
\* of the source and WriteFrom's total is its length, so that a caller knows after an
\* error where the transfer stopped; ReadTo's writer holds a prefix too
\* (stream.go WriteFrom, ReadTo).
TotalsAreTrue ==
  /\ wire = SubSeq(Source, 1, from.total)
  /\ dest = SubSeq(Source, 1, to.total)

\* When both ends report success the writer holds everything the reader held: the
\* bytes that came together with io.EOF too.
TransferComplete == from.step = "ok" /\ to.step = "ok" => dest = Source

=============================================================================
