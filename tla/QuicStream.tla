----------------------------- MODULE QuicStream -----------------------------
(***************************************************************************)
(* One direction of a quic-go stream, as transport/stream.go uses it        *)
(* (external): bytes are delivered in order and in pieces of any size; a    *)
(* write that fails leaves the stream unusable; Close ends it.              *)
(***************************************************************************)
EXTENDS Naturals, Sequences

CONSTANT ShortWrites   \* whether Write may accept part of its bytes without an error

VARIABLES
  wire,    \* the bytes accepted from the writer
  taken,   \* how many of them the reader has taken
  dead,    \* a write has failed
  fin      \* the writer has closed its side

quicVars == <<wire, taken, dead, fin>>

QuicInit ==
  /\ wire = <<>>
  /\ taken = 0
  /\ dead = FALSE
  /\ fin = FALSE

\* Write(p) accepts n bytes and returns an error or not; io.Writer requires an error
\* when n < len(p).
Write(p, n, err) ==
  /\ IF dead
     THEN n = 0 /\ err
     ELSE n \in 0..Len(p) /\ (~err => n = Len(p) \/ ShortWrites)
  /\ wire' = wire \o SubSeq(p, 1, n)
  /\ dead' = (dead \/ err)
  /\ UNCHANGED <<taken, fin>>

CloseWrite ==
  /\ ~fin
  /\ fin' = TRUE
  /\ UNCHANGED <<wire, taken, dead>>

\* Read returns k bytes; the caller asked for at most want.
Read(want, k) ==
  /\ k \in 1..want
  /\ taken + k <= Len(wire)
  /\ taken' = taken + k
  /\ UNCHANGED <<wire, dead, fin>>

\* The k bytes the reader takes next.
Upcoming(k) == SubSeq(wire, taken + 1, taken + k)

AtEOF == fin /\ taken = Len(wire)

\* Read fails: the end of the stream, or the writer's side broke.
ReadFails ==
  /\ AtEOF \/ dead
  /\ UNCHANGED quicVars

=============================================================================
