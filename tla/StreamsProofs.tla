--------------------------- MODULE StreamsProofs ----------------------------
(***************************************************************************)
(* Proofs about one stream of a connection: raw transfers, for every source *)
(* and every way Read and Write cut its bytes; the updates of a route, from *)
(* the theorems about UpdateStreams; and the frame codec, for every byte    *)
(* base and every set of payloads: the stream implements FrameChannel.      *)
(***************************************************************************)
EXTENDS Streams, SequenceTheorems, TLAPS

UpdateProofs == INSTANCE UpdateStreamsProofs WITH Streams <- {UpdateStream}

-----------------------------------------------------------------------------
(* Slices of a sequence, the empty ones included.                           *)

LEMMA SliceProperties ==
  ASSUME NEW S, NEW seq \in Seq(S), NEW i \in 1..Len(seq) + 1, NEW j \in i - 1..Len(seq)
  PROVE  /\ SubSeq(seq, i, j) \in Seq(S) /\ Len(SubSeq(seq, i, j)) = j - i + 1
         /\ \A k \in 1..j - i + 1 : SubSeq(seq, i, j)[k] = seq[i + k - 1]
<1>1. i \in Int /\ j \in Int /\ \A k \in i..j : seq[k] \in S
  OBVIOUS
<1>2. QED
  BY <1>1, SubSeqProperties

LEMMA SliceOfSlice ==
  ASSUME NEW S, NEW seq \in Seq(S), NEW i \in 1..Len(seq) + 1, NEW j \in i - 1..Len(seq),
         NEW m \in 1..j - i + 2, NEW n \in m - 1..j - i + 1
  PROVE  SubSeq(SubSeq(seq, i, j), m, n) = SubSeq(seq, i + m - 1, i + n - 1)
<1> DEFINE outer == SubSeq(seq, i, j)
           left == SubSeq(outer, m, n)
           right == SubSeq(seq, i + m - 1, i + n - 1)
<1>1. /\ outer \in Seq(S) /\ Len(outer) = j - i + 1
      /\ \A k \in 1..j - i + 1 : outer[k] = seq[i + k - 1]
  BY SliceProperties
<1>2. /\ left \in Seq(S) /\ Len(left) = n - m + 1
      /\ \A k \in 1..n - m + 1 : left[k] = outer[m + k - 1]
  <2> HIDE DEF outer
  <2>1. m \in 1..Len(outer) + 1 /\ n \in m - 1..Len(outer)
    BY <1>1
  <2>2. QED
    BY <1>1, <2>1, SliceProperties
<1>3. /\ right \in Seq(S) /\ Len(right) = n - m + 1
      /\ \A k \in 1..n - m + 1 : right[k] = seq[i + m - 1 + k - 1]
  <2>1. i + m - 1 \in 1..Len(seq) + 1 /\ i + n - 1 \in i + m - 1 - 1..Len(seq)
    OBVIOUS
  <2>2. (i + n - 1) - (i + m - 1) + 1 = n - m + 1
    OBVIOUS
  <2>3. QED
    BY <2>1, <2>2, SliceProperties
<1> HIDE DEF outer, left, right
<1>4. \A k \in 1..Len(left) : left[k] = right[k]
  <2> SUFFICES ASSUME NEW k \in 1..n - m + 1
               PROVE  left[k] = right[k]
    BY <1>2
  <2>1. m + k - 1 \in 1..j - i + 1 /\ i + (m + k - 1) - 1 = i + m - 1 + k - 1
    OBVIOUS
  <2>2. QED
    BY <1>1, <1>2, <1>3, <2>1
<1>5. left = right
  BY <1>2, <1>3, <1>4, SeqEqual
<1>6. QED
  BY <1>5 DEF left, right, outer

\* The two parts of a concatenation.
LEMMA Joining ==
  ASSUME NEW S, NEW p \in Seq(S), NEW q \in Seq(S)
  PROVE  /\ p \o q \in Seq(S) /\ Len(p \o q) = Len(p) + Len(q)
         /\ \A i \in 1..Len(p) : (p \o q)[i] = p[i]
         /\ \A i \in 1..Len(q) : (p \o q)[Len(p) + i] = q[i]
<1>1. Len(p) \in Nat /\ Len(q) \in Nat
  OBVIOUS
<1>2. /\ p \o q \in Seq(S) /\ Len(p \o q) = Len(p) + Len(q)
      /\ \A i \in 1..Len(p) + Len(q) : (p \o q)[i] = IF i <= Len(p) THEN p[i] ELSE q[i - Len(p)]
  BY ConcatProperties
<1>3. ASSUME NEW i \in 1..Len(p)
      PROVE  (p \o q)[i] = p[i]
  <2>1. i \in 1..Len(p) + Len(q) /\ i <= Len(p)
    BY <1>1
  <2>2. QED
    BY <1>2, <2>1
<1>4. ASSUME NEW i \in 1..Len(q)
      PROVE  (p \o q)[Len(p) + i] = q[i]
  <2>1. PICK k : k = Len(p) + i
    OBVIOUS
  <2>2. k \in 1..Len(p) + Len(q) /\ ~(k <= Len(p)) /\ k - Len(p) = i
    BY <1>1, <2>1
  <2>3. (p \o q)[k] = q[k - Len(p)]
    BY <1>2, <2>2
  <2>4. QED
    BY <2>1, <2>2, <2>3
<1>5. QED
  BY <1>2, <1>3, <1>4

-----------------------------------------------------------------------------
(* Raw transfers.                                                           *)

Source == Copying!Source

LEMMA SourceType == Source \in Seq(Nat) /\ Len(Source) = SourceLen /\ SourceLen \in Nat
<1>1. SourceLen \in Nat
  BY TransferAssumption
<1>2. QED
  BY <1>1 DEF Source, Copying!Source

TransferTyped ==
  /\ from \in [step : {"idle", "read", "write", "ok", "failed"}, chunk : Int, buf : Seq(Nat),
               written : Nat, rErr : {"nil", "EOF", "other"}, total : Nat]
  /\ to \in [step : {"idle", "copy", "ok", "failed"}, total : Nat]
  /\ used \in 0..SourceLen
  /\ taken \in Nat
  /\ fin \in BOOLEAN

\* The stream carries what WriteFrom has counted.
Wired == from.total <= used /\ wire = SubSeq(Source, 1, from.total)

\* Between chunks all that was read is written; inside one, all but the rest of it.
Chunked ==
  /\ from.step \in {"idle", "read", "ok"} => from.total = used
  /\ from.step = "ok" => used = SourceLen
  /\ from.step = "write" =>
       /\ Len(from.buf) <= used /\ from.written <= Len(from.buf)
       /\ from.buf = SubSeq(Source, used - Len(from.buf) + 1, used)
       /\ from.total = used - Len(from.buf) + from.written
       /\ from.rErr = "EOF" => used = SourceLen

\* The writer holds what ReadTo has counted, which is all that was taken off the stream
\* unless the writer failed.
Copied ==
  /\ to.total <= taken /\ taken <= from.total
  /\ dest = SubSeq(Source, 1, to.total)
  /\ to.step # "failed" => to.total = taken

\* ReadTo succeeds at the end of the stream, which WriteFrom's caller sets afterwards.
Ended ==
  /\ fin => from.step \in {"ok", "failed"}
  /\ to.step = "ok" => fin /\ taken = from.total

TransferInv == TransferTyped /\ Wired /\ Chunked /\ Copied /\ Ended

LEMMA TransferInit == ASSUME Init PROVE TransferInv
<1> USE DEF Init, Copying!Init, Copying!QuicInit, Framing!Init, Framing!QuicInit
<1>1. SourceLen \in Nat /\ SubSeq(Source, 1, 0) = <<>>
  BY SourceType, SubSeqEmpty
<1>2. TransferTyped
  <2>1. /\ from \in [step : {"idle", "read", "write", "ok", "failed"}, chunk : Int, buf : Seq(Nat),
                      written : Nat, rErr : {"nil", "EOF", "other"}, total : Nat]
    OBVIOUS
  <2>2. to \in [step : {"idle", "copy", "ok", "failed"}, total : Nat]
    OBVIOUS
  <2>3. used \in 0..SourceLen
    BY <1>1
  <2>5. taken \in Nat
    OBVIOUS
  <2>6. fin \in BOOLEAN
    BY Zenon
  <2>4. QED
    BY <2>1, <2>2, <2>3, <2>5, <2>6 DEF TransferTyped
<1>3. Wired /\ Chunked /\ Copied /\ Ended
  BY <1>1 DEF Wired, Chunked, Copied, Ended
<1>4. QED
  BY <1>2, <1>3 DEF TransferInv

LEMMA WriteFromStep ==
  ASSUME TransferInv, NEW size \in ChunkSizes, Copying!WriteFrom(size)
  PROVE  TransferInv'
<1> USE DEF Copying!WriteFrom, Copying!quicVars
<1>1. PICK chunk \in Int : chunk = IF size <= 0 THEN DefaultChunkSize ELSE size
  BY TransferAssumption
<1>2. from' = [from EXCEPT !.step = "read", !.chunk = chunk] /\ from.step = "idle"
  BY <1>1
<1>3. TransferTyped'
  BY <1>2 DEF TransferInv, TransferTyped
<1>4. from'.step = "read" /\ from'.total = from.total
  BY <1>2 DEF TransferInv, TransferTyped
<1>5. UNCHANGED <<wire, taken, fin, to, used, dest>>
  OBVIOUS
<1>6. Wired' /\ Copied'
  BY <1>4, <1>5 DEF TransferInv, Wired, Copied
<1>7. Chunked' /\ Ended'
  BY <1>2, <1>4, <1>5 DEF TransferInv, Chunked, Ended
<1>8. QED
  BY <1>3, <1>6, <1>7 DEF TransferInv

LEMMA ReadSourceStep == ASSUME TransferInv, Copying!ReadSource PROVE TransferInv'
<1> USE DEF Copying!quicVars
<1>1. PICK n \in 0..from.chunk, rErr \in {"nil", "EOF", "other"} :
        /\ Copying!Handed(n, rErr)
        /\ used' = used + n
        /\ from' = [from EXCEPT !.buf = SubSeq(Source, used + 1, used + n), !.written = 0,
                                !.rErr = rErr,
                                !.step = IF n > 0 THEN "write" ELSE Copying!AfterChunk(rErr)]
  BY DEF Copying!ReadSource, Source
<1>2. from.step = "read" /\ UNCHANGED <<wire, taken, fin, to, dest>>
  BY DEF Copying!ReadSource
<1>3. n \in Nat /\ used \in Nat /\ n <= SourceLen - used /\ (rErr = "EOF" => used + n = SourceLen)
  BY <1>1, SourceType DEF Copying!Handed, TransferInv, TransferTyped
<1>4. PICK buf \in Seq(Nat) : buf = SubSeq(Source, used + 1, used + n) /\ Len(buf) = n
  <2>1. used + 1 \in 1..Len(Source) + 1 /\ used + n \in used + 1 - 1..Len(Source)
    BY <1>3, SourceType
  <2>2. (used + n) - (used + 1) + 1 = n
    BY <1>3
  <2>3. PICK i \in 1..Len(Source) + 1 : i = used + 1
    BY <2>1
  <2>6. PICK j \in i - 1..Len(Source) : j = used + n
    BY <1>3, <2>1, <2>3
  <2>4. SubSeq(Source, i, j) \in Seq(Nat) /\ Len(SubSeq(Source, i, j)) = j - i + 1
    BY SourceType, SliceProperties
  <2>5. QED
    BY <2>2, <2>3, <2>4, <2>6
<1>5. PICK step \in {"read", "write", "ok", "failed"} :
        /\ step = IF n > 0 THEN "write" ELSE Copying!AfterChunk(rErr)
        /\ step = "write" => n > 0
        /\ step = "ok" => n = 0 /\ rErr = "EOF"
        /\ step = "read" => n = 0
  BY <1>1, <1>3 DEF Copying!AfterChunk
<1>6. from' = [from EXCEPT !.buf = buf, !.written = 0, !.rErr = rErr, !.step = step]
  BY <1>1, <1>4, <1>5
<1>7. used' = used + n /\ used' \in 0..SourceLen
  BY <1>1, <1>3, SourceType
<1>8. from' \in [step : {"idle", "read", "write", "ok", "failed"}, chunk : Int, buf : Seq(Nat),
                 written : Nat, rErr : {"nil", "EOF", "other"}, total : Nat]
  BY <1>6 DEF TransferInv, TransferTyped
<1>9. TransferTyped'
  BY <1>2, <1>7, <1>8 DEF TransferInv, TransferTyped
<1>10. /\ from'.step = step /\ from'.buf = buf /\ from'.written = 0 /\ from'.rErr = rErr
       /\ from'.total = from.total
  BY <1>6 DEF TransferInv, TransferTyped
<1>11. from.total = used
  BY <1>2 DEF TransferInv, Chunked
<1>12. Wired' /\ Copied'
  BY <1>2, <1>3, <1>7, <1>10, <1>11 DEF TransferInv, Wired, Copied
<1>13. Chunked'
  <2>1. used' - Len(buf) + 1 = used + 1 /\ used' - Len(buf) + 0 = used /\ Len(buf) <= used'
    BY <1>3, <1>4, <1>7
  <2>2. from'.step = "write" =>
          /\ Len(from'.buf) <= used' /\ from'.written <= Len(from'.buf)
          /\ from'.buf = SubSeq(Source, used' - Len(from'.buf) + 1, used')
          /\ from'.total = used' - Len(from'.buf) + from'.written
          /\ from'.rErr = "EOF" => used' = SourceLen
    BY <1>3, <1>4, <1>7, <1>10, <1>11, <2>1
  <2>3. from'.step \in {"idle", "read", "ok"} => from'.total = used'
    BY <1>3, <1>5, <1>7, <1>10, <1>11
  <2>4. from'.step = "ok" => used' = SourceLen
    BY <1>3, <1>5, <1>7, <1>10
  <2>5. QED
    BY <2>2, <2>3, <2>4 DEF Chunked, Source, Copying!Source
<1>14. Ended'
  <2>1. ~fin
    BY <1>2 DEF TransferInv, Ended
  <2>2. QED
    BY <1>2, <2>1 DEF TransferInv, Ended
<1>15. QED
  BY <1>9, <1>12, <1>13, <1>14 DEF TransferInv

LEMMA WriteChunkStep == ASSUME TransferInv, Copying!WriteChunk PROVE TransferInv'
<1> DEFINE rest == SubSeq(from.buf, from.written + 1, Len(from.buf))
<1>0. PICK n \in 0..Len(rest), err \in BOOLEAN :
        /\ Copying!Write(rest, n, err)
        /\ from' = [from EXCEPT !.total = @ + n, !.written = @ + n,
                                !.step = IF err \/ n = 0 THEN "failed"
                                         ELSE IF n = Len(rest) THEN Copying!AfterChunk(from.rErr)
                                         ELSE "write"]
  BY DEF Copying!WriteChunk
<1>1. /\ from.step = "write" /\ UNCHANGED <<taken, fin, to, used, dest>>
      /\ wire' = wire \o SubSeq(rest, 1, n)
  BY <1>0 DEF Copying!WriteChunk, Copying!Write
<1>2. PICK size \in Nat, written \in Nat, total \in Nat :
        size = Len(from.buf) /\ written = from.written /\ total = from.total
  BY DEF TransferInv, TransferTyped
<1>3. /\ size <= used /\ written <= size /\ total = used - size + written
      /\ from.buf = SubSeq(Source, used - size + 1, used)
      /\ from.rErr = "EOF" => used = SourceLen
      /\ used \in Nat /\ used <= SourceLen
  BY <1>1, <1>2, SourceType DEF TransferInv, TransferTyped, Chunked
<1>4. rest = SubSeq(Source, total + 1, used)
  <2>1. /\ used - size + 1 \in 1..Len(Source) + 1
        /\ used \in (used - size + 1) - 1..Len(Source)
        /\ written + 1 \in 1..used - (used - size + 1) + 2
        /\ size \in (written + 1) - 1..used - (used - size + 1) + 1
    BY <1>3, SourceType
  <2>2. /\ (used - size + 1) + (written + 1) - 1 = total + 1
        /\ (used - size + 1) + size - 1 = used
    BY <1>3
  <2>3. PICK i \in 1..Len(Source) + 1 : i = used - size + 1
    BY <2>1
  <2>6. PICK j \in i - 1..Len(Source) : j = used
    BY <2>1, <2>3
  <2>7. PICK m \in 1..j - i + 2 : m = written + 1
    BY <2>1, <2>3, <2>6
  <2>8. PICK k \in m - 1..j - i + 1 : k = size
    BY <2>1, <2>3, <2>6, <2>7
  <2>4. SubSeq(SubSeq(Source, i, j), m, k) = SubSeq(Source, i + m - 1, i + k - 1)
    BY SourceType, SliceOfSlice
  <2>5. QED
    BY <1>2, <1>3, <2>2, <2>3, <2>4, <2>6, <2>7, <2>8
<1> HIDE DEF rest
<1>5. Len(rest) = used - total /\ n \in Nat /\ total + n <= used /\ total <= used
  <2>1. total + 1 \in 1..Len(Source) + 1 /\ used \in total + 1 - 1..Len(Source)
    BY <1>3, SourceType
  <2>2. Len(rest) = used - (total + 1) + 1
    BY <1>4, <2>1, SourceType, SliceProperties
  <2>3. total <= used
    BY <1>3
  <2>4. PICK l \in Nat : l = used - total /\ Len(rest) = l
    BY <1>3, <2>2, <2>3
  <2>5. n \in Nat /\ n <= l
    BY <2>4
  <2>6. QED
    BY <1>3, <2>3, <2>4, <2>5
<1>6. SubSeq(rest, 1, n) = SubSeq(Source, total + 1, total + n)
  <2>1. /\ total + 1 \in 1..Len(Source) + 1 /\ used \in total + 1 - 1..Len(Source)
        /\ 1 \in 1..used - (total + 1) + 2 /\ n \in 1 - 1..used - (total + 1) + 1
    BY <1>3, <1>5, SourceType
  <2>2. (total + 1) + 1 - 1 = total + 1 /\ (total + 1) + n - 1 = total + n
    BY <1>5
  <2>3. QED
    BY <1>4, <2>1, <2>2, SourceType, SliceOfSlice
<1>7. wire' = SubSeq(Source, 1, total + n)
  <2>1. 1 \in 1..Len(Source) + 1 /\ total \in 1 - 1..Len(Source) /\ total + n \in total..Len(Source)
    BY <1>3, <1>5, SourceType
  <2>2. wire = SubSeq(Source, 1, total)
    BY <1>2 DEF TransferInv, Wired
  <2>3. SubSeq(Source, 1, total) \o SubSeq(Source, total + 1, total + n)
          = SubSeq(Source, 1, total + n)
    BY <2>1, SourceType, ConcatAdjacentSubSeq
  <2>4. QED
    BY <1>1, <1>6, <2>2, <2>3
<1>8. PICK step \in {"read", "write", "ok", "failed"}, sum \in Nat, done \in Nat :
        /\ sum = total + n /\ done = written + n
        /\ step = IF err \/ n = 0 THEN "failed"
                  ELSE IF n = Len(rest) THEN Copying!AfterChunk(from.rErr) ELSE "write"
        /\ step \in {"read", "ok"} => sum = used
        /\ step = "ok" => from.rErr = "EOF"
  <2>1. from.rErr \in {"nil", "EOF", "other"}
    BY DEF TransferInv, TransferTyped
  <2>2. QED
    BY <1>3, <1>5, <2>1 DEF Copying!AfterChunk
<1>9. from' = [from EXCEPT !.total = sum, !.written = done, !.step = step]
  BY <1>0, <1>2, <1>8
<1>10. from' \in [step : {"idle", "read", "write", "ok", "failed"}, chunk : Int, buf : Seq(Nat),
                  written : Nat, rErr : {"nil", "EOF", "other"}, total : Nat]
  BY <1>9 DEF TransferInv, TransferTyped
<1>11. TransferTyped'
  BY <1>1, <1>10 DEF TransferInv, TransferTyped
<1>12. /\ from'.step = step /\ from'.buf = from.buf /\ from'.written = done
       /\ from'.rErr = from.rErr /\ from'.total = sum
  BY <1>9 DEF TransferInv, TransferTyped
<1>13. Source' = Source
  BY DEF Source, Copying!Source
<1>14. Wired'
  BY <1>1, <1>5, <1>7, <1>8, <1>12, <1>13 DEF Wired
<1>15. Copied'
  <2>1. taken \in Nat /\ total <= sum
    BY <1>5, <1>8 DEF TransferInv, TransferTyped
  <2>2. QED
    BY <1>1, <1>2, <1>12, <1>13, <2>1 DEF TransferInv, Copied
<1>16. Chunked'
  <2>1. done <= size /\ sum = used - size + done
    BY <1>3, <1>5, <1>8
  <2>2. from'.step = "write" =>
          /\ Len(from'.buf) <= used' /\ from'.written <= Len(from'.buf)
          /\ from'.buf = SubSeq(Source, used' - Len(from'.buf) + 1, used')
          /\ from'.total = used' - Len(from'.buf) + from'.written
          /\ from'.rErr = "EOF" => used' = SourceLen
    BY <1>1, <1>2, <1>3, <1>12, <2>1
  <2>3. from'.step \in {"idle", "read", "ok"} => from'.total = used'
    BY <1>1, <1>8, <1>12
  <2>4. from'.step = "ok" => used' = SourceLen
    BY <1>1, <1>3, <1>8, <1>12
  <2>5. QED
    BY <1>13, <2>2, <2>3, <2>4 DEF Chunked
<1>17. Ended'
  BY <1>1 DEF TransferInv, Ended
<1>18. QED
  BY <1>11, <1>14, <1>15, <1>16, <1>17 DEF TransferInv

LEMMA CloseStep == ASSUME TransferInv, Copying!Close PROVE TransferInv'
BY DEF Copying!Close, Copying!CloseWrite, TransferInv, TransferTyped, Wired, Chunked, Copied, Ended

LEMMA ReadToStep == ASSUME TransferInv, Copying!ReadTo PROVE TransferInv'
<1>1. to' = [to EXCEPT !.step = "copy"] /\ to.step = "idle"
      /\ UNCHANGED <<wire, taken, fin, from, used, dest>>
  BY DEF Copying!ReadTo, Copying!quicVars
<1>2. to' \in [step : {"idle", "copy", "ok", "failed"}, total : Nat]
  BY <1>1 DEF TransferInv, TransferTyped
<1>3. to'.step = "copy" /\ to'.total = to.total
  BY <1>1 DEF TransferInv, TransferTyped
<1>4. TransferTyped'
  BY <1>1, <1>2 DEF TransferInv, TransferTyped
<1>5. Wired' /\ Chunked'
  BY <1>1 DEF TransferInv, Wired, Chunked
<1>6. Copied' /\ Ended'
  BY <1>1, <1>3 DEF TransferInv, Copied, Ended
<1>7. QED
  BY <1>4, <1>5, <1>6 DEF TransferInv

LEMMA CopyChunkStep == ASSUME TransferInv, Copying!CopyChunk PROVE TransferInv'
<1>1. PICK k \in 1..DefaultChunkSize, j \in 0..DefaultChunkSize, step \in {"copy", "failed"} :
        /\ Copying!Read(DefaultChunkSize, k)
        /\ j <= k
        /\ step = "copy" => j = k
        /\ dest' = dest \o Copying!Upcoming(j)
        /\ to' = [step |-> step, total |-> to.total + j]
  BY DEF Copying!CopyChunk
<1>2. /\ to.step = "copy" /\ UNCHANGED <<wire, fin, from, used>>
      /\ taken' = taken + k /\ taken + k <= Len(wire)
  BY <1>1 DEF Copying!CopyChunk, Copying!Read
<1>3. /\ DefaultChunkSize \in Nat /\ k \in Nat /\ j \in Nat /\ taken \in Nat /\ from.total \in Nat
      /\ from.total <= used /\ used <= SourceLen /\ used \in Nat
      /\ wire = SubSeq(Source, 1, from.total) /\ to.total = taken
      /\ dest = SubSeq(Source, 1, taken)
  BY <1>2, TransferAssumption DEF TransferInv, TransferTyped, Wired, Copied
<1>4. PICK total \in Nat : total = from.total /\ total <= Len(Source)
  BY <1>3, SourceType
<1>5. Len(wire) = total
  <2>1. 1 \in 1..Len(Source) + 1 /\ total \in 1 - 1..Len(Source)
    BY <1>4, SourceType
  <2>2. QED
    BY <1>3, <1>4, <2>1, SourceType, SliceProperties
<1>6. SubSeq(wire, taken + 1, taken + j) = SubSeq(Source, taken + 1, taken + j)
  <2>1. /\ 1 \in 1..Len(Source) + 1 /\ total \in 1 - 1..Len(Source)
        /\ taken + 1 \in 1..total - 1 + 2 /\ taken + j \in taken + 1 - 1..total - 1 + 1
    <3>1. taken + j <= total
      BY <1>1, <1>2, <1>3, <1>4, <1>5
    <3>2. QED
      BY <1>3, <1>4, <3>1, SourceType
  <2>2. 1 + (taken + 1) - 1 = taken + 1 /\ 1 + (taken + j) - 1 = taken + j
    BY <1>3
  <2>3. QED
    BY <1>3, <1>4, <2>1, <2>2, SourceType, SliceOfSlice
<1>7. dest' = SubSeq(Source, 1, taken + j)
  <2>1. 1 \in 1..Len(Source) + 1 /\ taken \in 1 - 1..Len(Source) /\ taken + j \in taken..Len(Source)
    BY <1>1, <1>2, <1>3, <1>4, <1>5, SourceType
  <2>2. SubSeq(Source, 1, taken) \o SubSeq(Source, taken + 1, taken + j)
          = SubSeq(Source, 1, taken + j)
    BY <2>1, SourceType, ConcatAdjacentSubSeq
  <2>3. QED
    BY <1>1, <1>3, <1>6, <2>2 DEF Copying!Upcoming
<1>8. /\ to' \in [step : {"idle", "copy", "ok", "failed"}, total : Nat]
      /\ to'.step \in {"copy", "failed"} /\ (to'.step = "copy" => j = k)
      /\ to'.total = taken + j
  BY <1>1, <1>3
<1>9. TransferTyped'
  BY <1>2, <1>3, <1>8 DEF TransferInv, TransferTyped
<1>10. Source' = Source
  BY DEF Source, Copying!Source
<1>11. Wired' /\ Chunked'
  BY <1>2, <1>10 DEF TransferInv, Wired, Chunked
<1>12. Copied'
  <2>1. taken + j <= taken + k /\ taken + k <= from.total
    BY <1>1, <1>2, <1>3, <1>4, <1>5
  <2>2. to'.step # "failed" => taken + j = taken + k
    BY <1>3, <1>8
  <2>3. QED
    BY <1>2, <1>7, <1>8, <1>10, <2>1, <2>2 DEF Copied
<1>13. Ended'
  BY <1>2, <1>8 DEF TransferInv, Ended
<1>14. QED
  BY <1>9, <1>11, <1>12, <1>13 DEF TransferInv

LEMMA CopyEndsStep == ASSUME TransferInv, Copying!CopyEnds PROVE TransferInv'
<1>1. PICK step \in {"ok", "failed"} :
        (step = "ok" => fin /\ taken = Len(wire)) /\ to' = [to EXCEPT !.step = step]
  BY DEF Copying!CopyEnds, Copying!AtEOF
<1>2. to.step = "copy" /\ UNCHANGED <<wire, taken, fin, from, used, dest>>
  BY DEF Copying!CopyEnds, Copying!ReadFails, Copying!quicVars
<1>3. to' \in [step : {"idle", "copy", "ok", "failed"}, total : Nat]
  BY <1>1 DEF TransferInv, TransferTyped
<1>4. to'.step = step /\ to'.total = to.total
  BY <1>1 DEF TransferInv, TransferTyped
<1>5. Len(wire) = from.total
  <2>1. PICK total \in Nat : total = from.total /\ total <= SourceLen
    BY SourceType DEF TransferInv, TransferTyped, Wired
  <2>2. 1 \in 1..Len(Source) + 1 /\ total \in 1 - 1..Len(Source)
    BY <2>1, SourceType
  <2>3. QED
    BY <2>1, <2>2, SourceType, SliceProperties DEF TransferInv, Wired
<1>6. TransferTyped'
  BY <1>2, <1>3 DEF TransferInv, TransferTyped
<1>7. Wired' /\ Chunked'
  BY <1>2 DEF TransferInv, Wired, Chunked
<1>8. Copied'
  BY <1>2, <1>4 DEF TransferInv, Copied
<1>9. Ended'
  BY <1>1, <1>2, <1>4, <1>5 DEF TransferInv, Ended
<1>10. QED
  BY <1>6, <1>7, <1>8, <1>9 DEF TransferInv

LEMMA TransferInvariant == Spec => [](use = "transfer" => TransferInv)
<1>1. Init => (use = "transfer" => TransferInv)
  BY TransferInit
<1>2. (use = "transfer" => TransferInv) /\ [Next]_vars => (use = "transfer" => TransferInv)'
  <2> SUFFICES ASSUME use = "transfer" => TransferInv, [Next]_vars, use' = "transfer"
               PROVE  TransferInv'
    OBVIOUS
  <2>1. use = "transfer" /\ TransferInv
    BY DEF Next, CarriesFrames, CarriesTransfer, CarriesUpdates, vars
  <2>2. CASE UNCHANGED vars
    BY <2>1, <2>2 DEF vars, quic, copying, TransferInv, TransferTyped, Wired, Chunked, Copied, Ended
  <2>3. CASE Copying!Next
    BY <2>1, <2>3, WriteFromStep, ReadSourceStep, WriteChunkStep, CloseStep, ReadToStep,
       CopyChunkStep, CopyEndsStep DEF Copying!Next
  <2>4. QED
    BY <2>1, <2>2, <2>3 DEF Next, CarriesFrames, CarriesUpdates
<1>3. QED
  BY <1>1, <1>2, PTL DEF Spec

\* The stream carries, and ReadTo's writer holds, exactly as much of the source as
\* WriteFrom and ReadTo count, whatever fails and however the bytes are cut (stream.go).
THEOREM TotalsTheorem == Spec => []TotalsAreTrue
<1>1. (use = "transfer" => TransferInv) => TotalsAreTrue
  BY DEF TransferInv, Wired, Copied, TotalsAreTrue, Copying!TotalsAreTrue, Source
<1>2. QED
  BY <1>1, TransferInvariant, PTL

\* When WriteFrom and ReadTo both return nil the writer holds the whole source, the
\* bytes the reader returned together with io.EOF included (stream.go).
THEOREM TransferCompleteTheorem == Spec => []TransferComplete
<1>1. ASSUME TransferInv, from.step = "ok", to.step = "ok"
      PROVE  dest = Source
  <2>1. to.total = SourceLen
    BY <1>1 DEF TransferInv, Chunked, Copied, Ended
  <2>2. dest = SubSeq(Source, 1, Len(Source))
    BY <1>1, <2>1, SourceType DEF TransferInv, Copied
  <2>3. QED
    BY <2>2, SourceType, SubSeqFull
<1>2. (use = "transfer" => TransferInv) => TransferComplete
  BY <1>1 DEF TransferComplete, Copying!TransferComplete, Source
<1>3. QED
  BY <1>2, TransferInvariant, PTL

-----------------------------------------------------------------------------
(* The updates of a route.  Every step of the stream is one of UpdateStreams *)
(* for this one stream, or leaves its variables alone.                      *)

LEMMA ImplementsUpdateStreams == Spec => UpdateProofs!Spec
<1>1. /\ Updating!NewContext = UpdateProofs!NewContext
      /\ Updating!ClientFrames = UpdateProofs!ClientFrames
      /\ Updating!Response = UpdateProofs!Response
      /\ \A seq, end : Updating!Update(seq, end) = UpdateProofs!Update(seq, end)
      /\ \A s : Updating!Up(s) = UpdateProofs!Up(s) /\ Updating!Down(s) = UpdateProofs!Down(s)
  BY DEF Updating!NewContext, UpdateProofs!NewContext, Updating!ClientFrames,
         UpdateProofs!ClientFrames, Updating!Response, UpdateProofs!Response, Updating!Update,
         UpdateProofs!Update, Updating!Garbled, UpdateProofs!Garbled, Updating!Up,
         UpdateProofs!Up, Updating!Down, UpdateProofs!Down
<1>2. \A ch, f : /\ Updating!Channel!Send(ch, f) <=> UpdateProofs!Channel!Send(ch, f)
                 /\ Updating!Channel!SendFails(ch, f) <=> UpdateProofs!Channel!SendFails(ch, f)
                 /\ Updating!Channel!Receive(ch) <=> UpdateProofs!Channel!Receive(ch)
  BY DEF Updating!Channel!Send, UpdateProofs!Channel!Send, Updating!Channel!SendFails,
         UpdateProofs!Channel!SendFails, Updating!Channel!Receive, UpdateProofs!Channel!Receive
<1>3. Updating!Init => UpdateProofs!Init
  BY <1>1 DEF Updating!Init, UpdateProofs!Init, Updating!Channel!Init, UpdateProofs!Channel!Init
<1>4. \A s, err : /\ Updating!Open(s) <=> UpdateProofs!Open(s)
                  /\ Updating!Return(s, err) <=> UpdateProofs!Return(s, err)
  BY <1>1, <1>2 DEF Updating!Open, UpdateProofs!Open, Updating!Return, UpdateProofs!Return,
         Updating!Back, UpdateProofs!Back, Updating!channelVars, UpdateProofs!channelVars
<1>5. \A s : Updating!SendResponse(s) <=> UpdateProofs!SendResponse(s)
  BY <1>1, <1>2 DEF Updating!SendResponse, UpdateProofs!SendResponse, Updating!Called,
         UpdateProofs!Called, Updating!Returns, UpdateProofs!Returns, Updating!channelVars,
         UpdateProofs!channelVars
<1>6. \A s, end : Updating!SendUpdate(s, end) <=> UpdateProofs!SendUpdate(s, end)
  BY <1>1, <1>2 DEF Updating!SendUpdate, UpdateProofs!SendUpdate, Updating!Called,
         UpdateProofs!Called, Updating!Returns, UpdateProofs!Returns, Updating!channelVars,
         UpdateProofs!channelVars
<1>7. \A s : Updating!WriteUpdate(s) <=> UpdateProofs!WriteUpdate(s)
  BY <1>1, <1>2 DEF Updating!WriteUpdate, UpdateProofs!WriteUpdate, Updating!Back,
         UpdateProofs!Back, Updating!channelVars, UpdateProofs!channelVars
<1>8. \A s : /\ Updating!NextUpdate(s) <=> UpdateProofs!NextUpdate(s)
             /\ Updating!ReadUpdateFails(s) <=> UpdateProofs!ReadUpdateFails(s)
  BY <1>1, <1>2 DEF Updating!NextUpdate, UpdateProofs!NextUpdate, Updating!ReadUpdateFails,
         UpdateProofs!ReadUpdateFails, Updating!Called, UpdateProofs!Called,
         Updating!Returns, UpdateProofs!Returns, Updating!Back, UpdateProofs!Back,
         Updating!channelVars, UpdateProofs!channelVars
<1>9. \A s : Updating!ReadUpdate(s) <=> UpdateProofs!ReadUpdate(s)
  BY <1>1, <1>2 DEF Updating!ReadUpdate, UpdateProofs!ReadUpdate, Updating!Back,
         UpdateProofs!Back, Updating!Last, UpdateProofs!Last
<1>10. \A s : Updating!Finish(s) <=> UpdateProofs!Finish(s)
  BY <1>1, <1>2 DEF Updating!Finish, UpdateProofs!Finish, Updating!channelVars,
         UpdateProofs!channelVars
<1>11. \A s, frame : Updating!ClientSends(s, frame) <=> UpdateProofs!ClientSends(s, frame)
  BY <1>1, <1>2 DEF Updating!ClientSends, UpdateProofs!ClientSends
<1>12. /\ Updating!Revoke <=> UpdateProofs!Revoke
       /\ Updating!Authenticate <=> UpdateProofs!Authenticate
  BY DEF Updating!Revoke, UpdateProofs!Revoke, Updating!Authenticate,
         UpdateProofs!Authenticate, Updating!InCall, UpdateProofs!InCall,
         Updating!channelVars, UpdateProofs!channelVars
<1>13. Updating!Next => UpdateProofs!Next
  BY <1>1, <1>4, <1>5, <1>6, <1>7, <1>8, <1>9, <1>10, <1>11, <1>12 DEF Updating!Next,
         UpdateProofs!Next, Updating!ServerStreams, UpdateProofs!ServerStreams,
         Updating!ClientStreams, UpdateProofs!ClientStreams
<1>14. [Next]_vars => [UpdateProofs!Next]_UpdateProofs!vars
  BY <1>13 DEF Next, vars, updating, CarriesFrames, CarriesTransfer, UpdateProofs!vars,
         UpdateProofs!channelVars
<1>15. QED
  BY <1>3, <1>14, PTL DEF Spec, Init, UpdateProofs!Spec

\* The updates of a stream are numbered without gaps or repetitions and stop at the end,
\* in either direction (ServerUpdatesContext.SendUpdate, ClientUpdatesContext.NextUpdate).
THEOREM StreamUpdatesTheorem == Spec => []UpdatesInOrder
<1>1. UpdateProofs!UpdatesInOrder => UpdatesInOrder
  BY DEF UpdatesInOrder, Updating!UpdatesInOrder, UpdateProofs!UpdatesInOrder,
         Updating!ServerStreams, UpdateProofs!ServerStreams, Updating!ClientStreams,
         UpdateProofs!ClientStreams, Updating!InOrder, UpdateProofs!InOrder,
         Updating!UpdatesIn, UpdateProofs!UpdatesIn, Updating!Down, UpdateProofs!Down,
         Updating!Cardinality, UpdateProofs!Cardinality
<1>2. QED
  BY <1>1, ImplementsUpdateStreams, UpdateProofs!UpdatesInOrderTheorem, PTL

\* While its session is revoked an update crosses the stream only in a call that was
\* under way when the session was revoked (BaseContext.SendUpdate, ReadUpdate).
THEOREM StreamInFlightTheorem == Spec => RevokedUpdatesWereInFlight
<1>1. \A s : /\ Updating!Crossed(s) = UpdateProofs!Crossed(s)
             /\ Updating!Crossed(s)' = UpdateProofs!Crossed(s)'
  BY DEF Updating!Crossed, UpdateProofs!Crossed, Updating!UpdatesIn, UpdateProofs!UpdatesIn,
         Updating!Down, UpdateProofs!Down, Updating!Cardinality, UpdateProofs!Cardinality
<1>2. UpdateProofs!vars = Updating!vars /\ UpdateProofs!vars' = Updating!vars'
  BY DEF Updating!vars, UpdateProofs!vars, Updating!channelVars, UpdateProofs!channelVars
<1>3. [\A s \in {UpdateStream} :
         revoked /\ UpdateProofs!Crossed(s)' > UpdateProofs!Crossed(s)
           => s \in inFlight]_UpdateProofs!vars
      => [\A s \in {UpdateStream} :
            revoked /\ Updating!Crossed(s)' > Updating!Crossed(s) => s \in inFlight]_Updating!vars
  BY <1>1, <1>2
<1>4. QED
  BY <1>3, ImplementsUpdateStreams, UpdateProofs!InFlightTheorem, PTL DEF
     RevokedUpdatesWereInFlight, Updating!RevokedUpdatesWereInFlight,
     UpdateProofs!RevokedUpdatesWereInFlight

-----------------------------------------------------------------------------
(* Frames: the four bytes of a length.                                      *)

LEMMA Digit ==
  ASSUME NEW n \in Nat
  PROVE  /\ n \div Base \in Nat /\ n % Base \in Nat
         /\ n = (n \div Base) * Base + (n % Base)
BY BaseAssumption

LEMMA Quotient ==
  ASSUME NEW m \in Nat, NEW q \in Nat, NEW d \in Nat, q * Base + d < Base * m
  PROVE  q < m
<1>1. SUFFICES ASSUME q >= m PROVE FALSE
  OBVIOUS
<1>2. q * Base >= m * Base
  BY <1>1, BaseAssumption
<1>3. m * Base = Base * m
  BY BaseAssumption
<1>4. QED
  BY <1>2, <1>3, BaseAssumption

\* Uint32 undoes PutUint32 for every length that WriteFrame lets through.
LEMMA LengthCodec ==
  ASSUME NEW n \in Nat, n <= Framing!MaxLength
  PROVE  \E b1, b2, b3, b4 \in Nat :
           /\ Framing!PutUint32(n) = <<b1, b2, b3, b4>>
           /\ ((b1 * Base + b2) * Base + b3) * Base + b4 = n
<1>1. PICK s1 \in Nat : s1 = n \div Base
  BY Digit
<1>2. PICK s2 \in Nat : s2 = s1 \div Base
  BY Digit
<1>3. PICK s3 \in Nat : s3 = s2 \div Base
  BY Digit
<1>4. PICK d4 \in Nat : d4 = n % Base /\ n = s1 * Base + d4
  BY <1>1, Digit
<1>5. PICK d3 \in Nat : d3 = s1 % Base /\ s1 = s2 * Base + d3
  BY <1>2, Digit
<1>6. PICK d2 \in Nat : d2 = s2 % Base /\ s2 = s3 * Base + d2
  BY <1>3, Digit
<1>7. PICK b2 \in Nat : b2 = Base * Base
  BY BaseAssumption
<1>8. PICK b3 \in Nat : b3 = Base * b2
  BY BaseAssumption
<1>9. n < Base * b3
  <2>1. Base * Base * Base * Base = Base * (Base * (Base * Base))
    BY BaseAssumption
  <2>2. n < Base * Base * Base * Base
    BY BaseAssumption DEF Framing!MaxLength
  <2>3. QED
    BY <1>7, <1>8, <2>1, <2>2
<1>10. s1 < b3
  BY <1>4, <1>9, Quotient
<1>11. s2 < b2
  BY <1>5, <1>8, <1>10, Quotient
<1>12. s3 < Base
  BY <1>6, <1>7, <1>11, Quotient, BaseAssumption
<1>13. s3 % Base = s3
  BY <1>12, BaseAssumption
<1>14. Framing!PutUint32(n) = <<s3, d2, d3, d4>>
  BY <1>1, <1>2, <1>3, <1>4, <1>5, <1>6, <1>13 DEF Framing!PutUint32, Framing!Shifted
<1>15. ((s3 * Base + d2) * Base + d3) * Base + d4 = n
  BY <1>4, <1>5, <1>6
<1>16. QED
  BY <1>14, <1>15

-----------------------------------------------------------------------------
(* Frames: the bytes of one.                                                *)

Byte == Types \cup Nat

\* The frames WriteFrame does not refuse.
Sendable == {f \in Framing!Frames : Len(f.payload) <= Framing!MaxLength}

Size(f) == 5 + Len(f.payload)

Bytes(f) == Framing!Header(f) \o f.payload

LEMMA PayloadType ==
  ASSUME NEW f \in Framing!Frames
  PROVE  /\ f.type \in Types /\ f.payload \in Seq(Byte) /\ Len(f.payload) \in Nat
         /\ f = [type |-> f.type, payload |-> f.payload]
<1>1. PICK n \in Lengths : f.payload = Framing!Payload(n)
  BY DEF Framing!Frames
<1>2. n \in Nat
  BY FramesAssumption
<1>3. \A i \in 1..n : i % Base \in Byte
  BY <1>2, BaseAssumption DEF Byte
<1>4. Framing!Payload(n) \in Seq(Byte)
  BY <1>2, <1>3 DEF Framing!Payload
<1>5. f.type \in Types /\ f = [type |-> f.type, payload |-> f.payload]
  BY DEF Framing!Frames
<1>6. QED
  BY <1>1, <1>4, <1>5

LEMMA HeaderType ==
  ASSUME NEW f \in Sendable
  PROVE  /\ Framing!Header(f) \in Seq(Byte) /\ Len(Framing!Header(f)) = 5
         /\ Framing!Header(f)[1] = f.type
         /\ \A i \in 1..4 : Framing!Header(f)[i + 1] = Framing!PutUint32(Len(f.payload))[i]
<1>1. f \in Framing!Frames /\ Len(f.payload) <= Framing!MaxLength
  BY DEF Sendable
<1>2. f.type \in Byte /\ Len(f.payload) \in Nat
  BY <1>1, PayloadType DEF Byte
<1>3. PICK b1, b2, b3, b4 \in Nat : Framing!PutUint32(Len(f.payload)) = <<b1, b2, b3, b4>>
  BY <1>1, <1>2, LengthCodec
<1>4. <<b1, b2, b3, b4>> \in Seq(Byte) /\ Len(<<b1, b2, b3, b4>>) = 4
  <2>1. b1 \in Byte /\ b2 \in Byte /\ b3 \in Byte /\ b4 \in Byte
    BY DEF Byte
  <2>2. QED
    BY <2>1
<1>5. PICK q \in Seq(Byte) : q = <<b1, b2, b3, b4>> /\ Len(q) = 4
  BY <1>4
<1>6. PICK t \in Seq(Byte) : t = <<f.type>> /\ Len(t) = 1 /\ t[1] = f.type
  <2>1. <<f.type>> \in Seq(Byte) /\ Len(<<f.type>>) = 1 /\ <<f.type>>[1] = f.type
    BY <1>2
  <2>2. QED
    BY <2>1, Zenon
<1>7. Framing!Header(f) = t \o q
  BY <1>3, <1>5, <1>6 DEF Framing!Header
<1>8. /\ t \o q \in Seq(Byte) /\ Len(t \o q) = 5
      /\ (t \o q)[1] = t[1] /\ \A i \in 1..4 : (t \o q)[i + 1] = q[i]
  BY <1>5, <1>6, ConcatProperties
<1>9. QED
  BY <1>3, <1>5, <1>6, <1>7, <1>8

LEMMA BytesOf ==
  ASSUME NEW f \in Sendable
  PROVE  /\ Len(f.payload) \in Nat /\ Size(f) \in Nat
         /\ \A i \in 1..5 : Bytes(f)[i] = Framing!Header(f)[i]
         /\ \A i \in 1..Len(f.payload) : Bytes(f)[5 + i] = f.payload[i]
<1>1. f \in Framing!Frames
  BY DEF Sendable
<1>2. PICK h \in Seq(Byte) : h = Framing!Header(f) /\ Len(h) = 5
  BY HeaderType
<1>3. PICK q \in Seq(Byte) : q = f.payload /\ Len(q) \in Nat
  BY <1>1, PayloadType
<1>4. /\ \A i \in 1..5 : (h \o q)[i] = h[i]
      /\ \A i \in 1..Len(q) : (h \o q)[5 + i] = q[i]
  <2>1. /\ \A i \in 1..Len(h) : (h \o q)[i] = h[i]
        /\ \A i \in 1..Len(q) : (h \o q)[Len(h) + i] = q[i]
    BY Joining
  <2>2. QED
    BY <1>2, <2>1
<1>5. Bytes(f) = h \o q
  BY <1>2, <1>3 DEF Bytes
<1>6. Len(f.payload) \in Nat /\ Size(f) \in Nat
  BY <1>3 DEF Size
<1>7. QED
  BY <1>2, <1>3, <1>4, <1>5, <1>6

\* Five bytes that are a header give back the type and the length.
LEMMA HeaderRead ==
  ASSUME NEW f \in Sendable, NEW buf \in Seq(Byte), Len(buf) = 5,
         \A i \in 1..5 : buf[i] = Bytes(f)[i]
  PROVE  buf[1] = f.type /\ Framing!Uint32(SubSeq(buf, 2, 5)) = Len(f.payload)
<1>1. \A i \in 1..5 : buf[i] = Framing!Header(f)[i]
  BY BytesOf
<1>2. Len(f.payload) \in Nat /\ Len(f.payload) <= Framing!MaxLength
  BY BytesOf DEF Sendable
<1>3. PICK b1, b2, b3, b4 \in Nat :
        /\ Framing!PutUint32(Len(f.payload)) = <<b1, b2, b3, b4>>
        /\ ((b1 * Base + b2) * Base + b3) * Base + b4 = Len(f.payload)
  BY <1>2, LengthCodec
<1>4. \A k \in 1..4 : SubSeq(buf, 2, 5)[k] = buf[k + 1]
  <2>1. 2 \in 1..Len(buf) + 1 /\ 5 \in 2 - 1..Len(buf)
    OBVIOUS
  <2>2. \A k \in 1..5 - 2 + 1 : SubSeq(buf, 2, 5)[k] = buf[2 + k - 1]
    BY <2>1, SliceProperties
  <2>3. QED
    BY <2>2
<1>5. /\ SubSeq(buf, 2, 5)[1] = b1 /\ SubSeq(buf, 2, 5)[2] = b2
      /\ SubSeq(buf, 2, 5)[3] = b3 /\ SubSeq(buf, 2, 5)[4] = b4
  <2>1. \A k \in 1..4 : SubSeq(buf, 2, 5)[k] = <<b1, b2, b3, b4>>[k]
    <3>1. TAKE k \in 1..4
    <3>2. buf[k + 1] = Framing!Header(f)[k + 1]
      BY <1>1
    <3>3. Framing!Header(f)[k + 1] = <<b1, b2, b3, b4>>[k]
      BY <1>3, HeaderType
    <3>4. QED
      BY <1>4, <3>2, <3>3
  <2>2. QED
    BY <2>1
<1>6. Framing!Uint32(SubSeq(buf, 2, 5)) = ((b1 * Base + b2) * Base + b3) * Base + b4
  BY <1>5 DEF Framing!Uint32
<1>7. QED
  BY <1>1, <1>3, <1>6, HeaderType

-----------------------------------------------------------------------------
(* Frames: what a step is to the channel.                                   *)

Steps == [Framing!Channel!Next]_(Framing!Channel!channelVars)

LEMMA ChannelStutters ==
  ASSUME UNCHANGED <<framesSent, framesRead, dead>>
  PROVE  Steps
BY DEF Steps, Framing!Channel!channelVars

LEMMA ChannelSends ==
  ASSUME NEW f \in Framing!Frames, ~dead, framesSent' = Append(framesSent, f),
         UNCHANGED <<framesRead, dead>>
  PROVE  Steps
<1>1. Framing!Channel!Send(1, f)
  BY DEF Framing!Channel!Send
<1>2. QED
  BY <1>1 DEF Steps, Framing!Channel!Next

LEMMA ChannelFails ==
  ASSUME NEW f \in Framing!Frames, dead' = TRUE, UNCHANGED framesRead,
         framesSent' = framesSent \/ (~dead /\ framesSent' = Append(framesSent, f))
  PROVE  Steps
<1>1. Framing!Channel!SendFails(1, f)
  <2>1. [s \in {1} |-> dead'] = [[s \in {1} |-> dead] EXCEPT ![1] = TRUE]
    OBVIOUS
  <2>2. CASE framesSent' = framesSent
    BY <2>1, <2>2 DEF Framing!Channel!SendFails
  <2>3. CASE ~dead /\ framesSent' = Append(framesSent, f)
    <3>1. [s \in {1} |-> framesSent'] = [[s \in {1} |-> framesSent] EXCEPT ![1] = Append(@, f)]
      BY <2>3
    <3>2. QED
      BY <2>1, <2>3, <3>1 DEF Framing!Channel!SendFails
  <2>4. QED
    BY <2>2, <2>3
<1>2. QED
  BY <1>1 DEF Steps, Framing!Channel!Next

LEMMA ChannelReceives ==
  ASSUME Len(framesRead) < Len(framesSent),
         framesRead' = Append(framesRead, framesSent[Len(framesRead) + 1]),
         UNCHANGED <<framesSent, dead>>
  PROVE  Steps
<1>1. Framing!Channel!Receive(1)
  BY DEF Framing!Channel!Receive
<1>2. QED
  BY <1>1 DEF Steps, Framing!Channel!Next

-----------------------------------------------------------------------------
(* Frames: the bytes on the wire are those of the frames fs, the last of    *)
(* which may be under way or torn; frame k ends at byte b[k].               *)

Layout(fs, b) ==
  /\ fs \in Seq(Sendable)
  /\ b \in [0..Len(fs) -> Nat] /\ b[0] = 0
  /\ \A k \in 1..Len(fs) : b[k] = b[k - 1] + Size(fs[k])
  /\ \A j, k \in 0..Len(fs) : j <= k => b[j] <= b[k]

Shows(v, fs, b) ==
  /\ v \in Seq(Byte) /\ Len(v) <= b[Len(fs)]
  /\ \A k \in 1..Len(fs) : \A i \in 1..Size(fs[k]) :
       b[k - 1] + i <= Len(v) => v[b[k - 1] + i] = Bytes(fs[k])[i]

WireInv(fs, b) == Shows(wire, fs, b)

\* A frame counts as sent when all of it is on the wire.
SentInv(fs, b) ==
  /\ framesSent \in Seq(Sendable)
  /\ Len(fs) = Len(framesSent) \/ (Len(fs) = Len(framesSent) + 1 /\ Len(wire) < b[Len(fs)])
  /\ \A k \in 1..Len(framesSent) : framesSent[k] = fs[k]

\* Between calls the wire ends with a frame, unless a write has failed.
WriterInv(fs, b) ==
  /\ dead \in BOOLEAN
  /\ w.step \in {"idle", "header", "payload"}
  /\ w.step # "idle" =>
       w \in [step : {"header", "payload"}, frame : Sendable, written : {0}]
  /\ w.step # "payload" /\ ~dead => Len(fs) = Len(framesSent) /\ Len(wire) = b[Len(fs)]
  /\ w.step = "payload" =>
       /\ ~dead /\ w.frame.payload # <<>>
       /\ Len(fs) = Len(framesSent) + 1 /\ fs[Len(fs)] = w.frame
       /\ Len(wire) = b[Len(framesSent)] + 5

\* The reader is inside the frame after the last one it returned.
ReaderInv(fs, b) ==
  /\ r \in [step : {"idle", "header", "payload", "failed"}, buf : Seq(Byte), type : Byte, length : Nat]
  /\ taken \in Nat /\ taken <= Len(wire)
  /\ framesRead \in Seq(Sendable) /\ Len(framesRead) <= Len(framesSent)
  /\ r.step = "idle" => taken = b[Len(framesRead)]
  /\ r.step = "header" =>
       /\ Len(r.buf) < 5 /\ taken = b[Len(framesRead)] + Len(r.buf)
       /\ \A i \in 1..Len(r.buf) : r.buf[i] = wire[b[Len(framesRead)] + i]
  /\ r.step = "payload" =>
       /\ Len(framesRead) < Len(fs)
       /\ r.type = fs[Len(framesRead) + 1].type
       /\ r.length = Len(fs[Len(framesRead) + 1].payload)
       /\ Len(r.buf) < r.length /\ taken = b[Len(framesRead)] + 5 + Len(r.buf)
       /\ \A i \in 1..Len(r.buf) : r.buf[i] = wire[b[Len(framesRead)] + 5 + i]

FrameState(fs, b) ==
  Layout(fs, b) /\ WireInv(fs, b) /\ SentInv(fs, b) /\ WriterInv(fs, b) /\ ReaderInv(fs, b)

FrameInv == \E fs, b : FrameState(fs, b)

LEMMA FrameInit == ASSUME Init PROVE FrameInv
<1> USE DEF Init, Framing!Init, Framing!QuicInit
<1>1. PICK fs : fs = <<>>
  OBVIOUS
<1>2. PICK b : b = [k \in {0} |-> 0]
  OBVIOUS
<1>3. fs \in Seq(Sendable) /\ Len(fs) = 0 /\ 0..Len(fs) = {0} /\ 1..Len(fs) = {}
  BY <1>1
<1>4. b \in [0..Len(fs) -> Nat] /\ b[0] = 0
  BY <1>2, <1>3
<1>5. Layout(fs, b)
  BY <1>3, <1>4 DEF Layout
<1>6. wire \in Seq(Byte) /\ Len(wire) = 0 /\ framesSent \in Seq(Sendable) /\ Len(framesSent) = 0
      /\ framesRead \in Seq(Sendable) /\ Len(framesRead) = 0
  OBVIOUS
<1>7. WireInv(fs, b) /\ SentInv(fs, b)
  BY <1>3, <1>4, <1>6 DEF WireInv, Shows, SentInv
<1>8. WriterInv(fs, b)
  <2>1. w.step = "idle"
    BY DEF Framing!WriterIdle
  <2>2. dead \in BOOLEAN
    BY Zenon
  <2>3. QED
    BY <1>3, <1>4, <1>6, <2>1, <2>2 DEF WriterInv
<1>9. ReaderInv(fs, b)
  <2>1. r = Framing!ReaderIdle /\ taken = 0
    OBVIOUS
  <2>2. 0 \in Byte /\ <<>> \in Seq(Byte)
    BY DEF Byte
  <2>3. r \in [step : {"idle", "header", "payload", "failed"}, buf : Seq(Byte), type : Byte, length : Nat]
    BY <2>1, <2>2 DEF Framing!ReaderIdle
  <2>4. r.step = "idle"
    BY <2>1 DEF Framing!ReaderIdle
  <2>5. QED
    BY <1>3, <1>4, <1>6, <2>1, <2>3, <2>4 DEF ReaderInv
<1>10. QED
  BY <1>5, <1>7, <1>8, <1>9 DEF FrameInv, FrameState

LEMMA Inside ==
  ASSUME NEW a \in Nat, NEW c \in Nat, NEW l \in Nat, a + c <= l
  PROVE  \A i \in 1..c : a + i \in 1..l
OBVIOUS

\* v has become v2 by a write of n bytes of p.
Grown(v, v2, p, n) ==
  /\ v2 \in Seq(Byte) /\ Len(v2) = Len(v) + n /\ Len(v) \in Nat
  /\ \A i \in 1..Len(v) : v2[i] = v[i]
  /\ \A i \in 1..n : v2[Len(v) + i] = p[i]

LEMMA WireGrows ==
  ASSUME NEW v \in Seq(Byte), NEW p \in Seq(Byte), NEW n \in 0..Len(p)
  PROVE  Grown(v, v \o SubSeq(p, 1, n), p, n)
<1>1. PICK q : q = SubSeq(p, 1, n)
  OBVIOUS
<1>2. q \in Seq(Byte) /\ Len(q) = n /\ \A i \in 1..n : q[i] = p[i]
  <2>1. 1 \in 1..Len(p) + 1 /\ n \in 1 - 1..Len(p) /\ n - 1 + 1 = n
    OBVIOUS
  <2>2. /\ q \in Seq(Byte) /\ Len(q) = n - 1 + 1
        /\ \A i \in 1..n - 1 + 1 : q[i] = p[1 + i - 1]
    BY <1>1, <2>1, SliceProperties
  <2>3. QED
    BY <2>1, <2>2
<1>3. /\ v \o q \in Seq(Byte) /\ Len(v \o q) = Len(v) + Len(q)
      /\ \A i \in 1..Len(v) : (v \o q)[i] = v[i]
      /\ \A i \in 1..Len(q) : (v \o q)[Len(v) + i] = q[i]
  <2>1. q \in Seq(Byte)
    BY <1>2
  <2>2. QED
    BY <2>1, Joining
<1>4. PICK v2 : v2 = v \o q
  OBVIOUS
<1>5. Len(v) \in Nat
  OBVIOUS
<1>6. Grown(v, v2, p, n)
  BY <1>2, <1>3, <1>4, <1>5 DEF Grown
<1>7. QED
  BY <1>1, <1>4, <1>6

\* The frames and the wire only grow under the reader.
LEMMA ReaderKept ==
  ASSUME NEW fs, NEW b, Layout(fs, b), ReaderInv(fs, b), NEW fs2, NEW b2, Layout(fs2, b2),
         Len(framesSent) <= Len(fs), Len(fs) <= Len(fs2), framesSent \in Seq(Sendable),
         \A k \in 1..Len(fs) : fs2[k] = fs[k], \A k \in 0..Len(fs) : b2[k] = b[k],
         wire \in Seq(Byte), Len(wire') \in Nat, Len(wire) <= Len(wire'),
         \A i \in 1..Len(wire) : wire'[i] = wire[i],
         Len(framesSent') \in Nat, Len(framesSent) <= Len(framesSent'),
         UNCHANGED <<r, taken, framesRead>>
  PROVE  ReaderInv(fs2, b2)'
<1>1. PICK n \in Nat : n = Len(framesRead)
  BY DEF ReaderInv
<1>2. /\ Len(fs) \in Nat /\ Len(fs2) \in Nat /\ Len(framesSent) \in Nat /\ Len(wire) \in Nat
      /\ n <= Len(framesSent)
  <2>1. Len(fs) \in Nat /\ Len(fs2) \in Nat
    BY DEF Layout
  <2>2. Len(framesRead) <= Len(framesSent)
    BY DEF ReaderInv
  <2>3. QED
    BY <1>1, <2>1, <2>2
<1>3. n \in 0..Len(fs) /\ Len(framesRead') = n /\ n <= Len(framesSent')
  BY <1>1, <1>2
<1>4. b2[n] = b[n] /\ b[n] \in Nat
  BY <1>3 DEF Layout
<1>5. /\ r' \in [step : {"idle", "header", "payload", "failed"}, buf : Seq(Byte), type : Byte,
                 length : Nat]
      /\ taken' \in Nat /\ taken' <= Len(wire') /\ framesRead' \in Seq(Sendable)
  BY <1>2 DEF ReaderInv
<1>6. r.step = "idle" => taken' = b2[n]
  BY <1>1, <1>4 DEF ReaderInv
<1>7. ASSUME r.step = "header"
      PROVE  /\ Len(r.buf) < 5 /\ taken' = b2[n] + Len(r.buf)
             /\ \A i \in 1..Len(r.buf) : r.buf[i] = wire'[b2[n] + i]
  <2>1. /\ Len(r.buf) < 5 /\ taken = b[n] + Len(r.buf) /\ taken \in Nat /\ taken <= Len(wire)
        /\ \A i \in 1..Len(r.buf) : r.buf[i] = wire[b[n] + i]
    BY <1>1, <1>7 DEF ReaderInv
  <2>2. Len(r.buf) \in Nat
    BY DEF ReaderInv
  <2>3. \A i \in 1..Len(r.buf) : b[n] + i \in 1..Len(wire)
    <3>1. PICK a \in Nat : a = b[n]
      BY <1>4
    <3>2. PICK c \in Nat : c = Len(r.buf)
      BY <2>2
    <3>3. PICK l \in Nat : l = Len(wire)
      BY <1>2
    <3>4. a + c <= l
      BY <2>1, <3>1, <3>2, <3>3
    <3>5. QED
      BY <3>1, <3>2, <3>3, <3>4, Inside
  <2>4. QED
    BY <1>4, <2>1, <2>3
<1>8. ASSUME r.step = "payload"
      PROVE  /\ n < Len(fs2) /\ r.type = fs2[n + 1].type
             /\ r.length = Len(fs2[n + 1].payload)
             /\ Len(r.buf) < r.length /\ taken' = b2[n] + 5 + Len(r.buf)
             /\ \A i \in 1..Len(r.buf) : r.buf[i] = wire'[b2[n] + 5 + i]
  <2>1. /\ n < Len(fs) /\ r.type = fs[n + 1].type /\ r.length = Len(fs[n + 1].payload)
        /\ Len(r.buf) < r.length /\ taken = b[n] + 5 + Len(r.buf) /\ taken <= Len(wire)
        /\ \A i \in 1..Len(r.buf) : r.buf[i] = wire[b[n] + 5 + i]
    BY <1>1, <1>8 DEF ReaderInv
  <2>2. Len(r.buf) \in Nat
    BY DEF ReaderInv
  <2>3. \A i \in 1..Len(r.buf) : b[n] + 5 + i \in 1..Len(wire)
    <3>1. PICK a \in Nat : a = b[n] + 5
      BY <1>4
    <3>2. PICK c \in Nat : c = Len(r.buf)
      BY <2>2
    <3>3. PICK l \in Nat : l = Len(wire)
      BY <1>2
    <3>4. a + c <= l
      BY <2>1, <3>1, <3>2, <3>3
    <3>5. QED
      BY <3>1, <3>2, <3>3, <3>4, Inside
  <2>4. n + 1 \in 1..Len(fs) /\ n < Len(fs2)
    BY <1>2, <2>1
  <2>5. fs2[n + 1] = fs[n + 1]
    BY <2>4
  <2>6. \A i \in 1..Len(r.buf) : r.buf[i] = wire'[b2[n] + 5 + i]
    BY <1>4, <2>1, <2>3
  <2>7. QED
    BY <1>4, <2>1, <2>4, <2>5, <2>6
<1>9. QED
  BY <1>3, <1>5, <1>6, <1>7, <1>8 DEF ReaderInv

LEMMA StateKept ==
  ASSUME NEW fs, NEW b, FrameState(fs, b), UNCHANGED <<wire, framesSent, r, taken, framesRead>>
  PROVE  Layout(fs, b)' /\ WireInv(fs, b)' /\ SentInv(fs, b)' /\ ReaderInv(fs, b)'
BY DEF FrameState, Layout, WireInv, Shows, SentInv, ReaderInv

LEMMA WriteFrameStep == ASSUME FrameInv, Framing!WriteFrame PROVE FrameInv' /\ Steps
<1>1. PICK fs, b : FrameState(fs, b)
  BY DEF FrameInv
<1>2. UNCHANGED <<wire, taken, dead, fin, r, framesSent, framesRead>> /\ w.step = "idle"
  BY DEF Framing!WriteFrame, Framing!quicVars
<1>3. PICK f \in Framing!Frames :
        w' = IF Len(f.payload) > Framing!MaxLength THEN w
             ELSE [step |-> "header", frame |-> f, written |-> 0]
  BY DEF Framing!WriteFrame
<1>4. Layout(fs, b)' /\ WireInv(fs, b)' /\ SentInv(fs, b)' /\ ReaderInv(fs, b)'
  BY <1>1, <1>2 DEF FrameState, Layout, WireInv, Shows, SentInv, ReaderInv
<1>5. WriterInv(fs, b)'
  <2>1. CASE Len(f.payload) > Framing!MaxLength
    <3>1. w' = w
      BY <1>3, <2>1
    <3>2. QED
      BY <1>1, <1>2, <3>1, Zenon DEF FrameState, WriterInv
  <2>2. CASE ~(Len(f.payload) > Framing!MaxLength)
    <3>1. f \in Sendable
      <4>1. Len(f.payload) \in Nat
        BY PayloadType
      <4>2. Framing!MaxLength \in Int
        BY BaseAssumption DEF Framing!MaxLength
      <4>3. QED
        BY <2>2, <4>1, <4>2 DEF Sendable
    <3>2. w' = [step |-> "header", frame |-> f, written |-> 0]
      BY <1>3, <2>2
    <3>3. w' \in [step : {"header", "payload"}, frame : Sendable, written : {0}] /\ w'.step = "header"
      BY <3>1, <3>2
    <3>4. QED
      BY <1>1, <1>2, <3>3 DEF FrameState, WriterInv
  <2>3. QED
    BY <2>1, <2>2
<1>6. FrameInv'
  BY <1>4, <1>5 DEF FrameInv, FrameState
<1>7. QED
  BY <1>2, <1>6, ChannelStutters

\* fs2 and b2 are fs and b with one more frame.
Extended(fs, b, f, fs2, b2) ==
  /\ Layout(fs2, b2)
  /\ Len(fs) \in Nat /\ Len(fs2) = Len(fs) + 1 /\ fs2[Len(fs) + 1] = f
  /\ \A k \in 1..Len(fs) : fs2[k] = fs[k]
  /\ \A k \in 0..Len(fs) : b2[k] = b[k]
  /\ b2[Len(fs) + 1] = b[Len(fs)] + Size(f)

LEMMA LayoutExtends ==
  ASSUME NEW fs, NEW b, Layout(fs, b), NEW f \in Sendable
  PROVE  \E fs2, b2 : Extended(fs, b, f, fs2, b2)
<1>1. PICK n \in Nat : n = Len(fs) /\ fs \in Seq(Sendable)
  BY DEF Layout
<1>2. PICK fs2 : fs2 = Append(fs, f)
  OBVIOUS
<1>3. /\ fs2 \in Seq(Sendable) /\ Len(fs2) = n + 1 /\ fs2[n + 1] = f
      /\ \A k \in 1..n : fs2[k] = fs[k]
  BY <1>1, <1>2, AppendProperties
<1>4. PICK z \in Nat : z = b[n] + Size(f) /\ b[n] <= z
  <2>1. b[n] \in Nat
    BY <1>1 DEF Layout
  <2>2. Size(f) \in Nat
    BY BytesOf
  <2>3. QED
    BY <2>1, <2>2
<1>5. PICK b2 : b2 = [k \in 0..n + 1 |-> IF k = n + 1 THEN z ELSE b[k]]
  OBVIOUS
<1>6. b2[n + 1] = z /\ \A k \in 0..n : b2[k] = b[k] /\ b[k] \in Nat
  BY <1>1, <1>5 DEF Layout
<1>7. b2 \in [0..Len(fs2) -> Nat] /\ b2[0] = 0
  <2>1. b2 \in [0..n + 1 -> Nat]
    BY <1>1, <1>4, <1>5 DEF Layout
  <2>2. b2[0] = 0
    BY <1>1, <1>6 DEF Layout
  <2>3. QED
    BY <1>3, <2>1, <2>2
<1>8. \A k \in 1..Len(fs2) : b2[k] = b2[k - 1] + Size(fs2[k])
  <2>1. ASSUME NEW k \in 1..n
        PROVE  b2[k] = b2[k - 1] + Size(fs2[k])
    <3>1. k \in 0..n /\ k - 1 \in 0..n
      OBVIOUS
    <3>2. b2[k] = b[k] /\ b2[k - 1] = b[k - 1] /\ fs2[k] = fs[k]
      BY <1>3, <1>6, <3>1
    <3>3. b[k] = b[k - 1] + Size(fs[k])
      BY <1>1 DEF Layout
    <3>4. QED
      BY <3>2, <3>3
  <2>2. b2[n + 1] = b2[(n + 1) - 1] + Size(fs2[n + 1])
    <3>1. (n + 1) - 1 = n /\ n \in 0..n
      OBVIOUS
    <3>2. QED
      BY <1>3, <1>4, <1>6, <3>1
  <2>3. \A k \in 1..n + 1 : k \in 1..n \/ k = n + 1
    OBVIOUS
  <2>4. QED
    BY <1>3, <2>1, <2>2, <2>3
<1>9. \A j, k \in 0..Len(fs2) : j <= k => b2[j] <= b2[k]
  <2>1. \A k \in 0..n : b[k] <= b[n] /\ b[k] \in Nat
    BY <1>1 DEF Layout
  <2>2. ASSUME NEW j \in 0..n + 1, NEW k \in 0..n + 1, j <= k
        PROVE  b2[j] <= b2[k]
    <3>1. CASE k \in 0..n
      <4>1. j \in 0..n
        BY <2>2, <3>1
      <4>2. b[j] <= b[k]
        BY <1>1, <2>2, <3>1, <4>1 DEF Layout
      <4>3. QED
        BY <1>6, <3>1, <4>1, <4>2
    <3>2. CASE k = n + 1 /\ j \in 0..n
      <4>1. b[j] <= b[n] /\ b[j] \in Nat /\ b[n] \in Nat
        BY <2>1, <3>2
      <4>2. b2[j] = b[j] /\ b2[k] = z
        BY <1>6, <3>2
      <4>3. QED
        BY <1>4, <4>1, <4>2
    <3>3. CASE k = n + 1 /\ j = n + 1
      BY <1>4, <1>6, <3>3
    <3>4. (k \in 0..n \/ k = n + 1) /\ (j \in 0..n \/ j = n + 1)
      OBVIOUS
    <3>5. QED
      BY <3>1, <3>2, <3>3, <3>4
  <2>3. QED
    BY <1>3, <2>2
<1>10. Layout(fs2, b2)
  BY <1>3, <1>7, <1>8, <1>9 DEF Layout
<1>11. Extended(fs, b, f, fs2, b2)
  BY <1>1, <1>3, <1>4, <1>6, <1>10 DEF Extended
<1>12. QED
  BY <1>11

\* Every frame before the last is on the wire whole.
LEMMA EarlierFrames ==
  ASSUME NEW fs, NEW b, Layout(fs, b), NEW m \in 0..Len(fs), NEW k \in 1..m,
         NEW i \in 1..Size(fs[k])
  PROVE  b[k - 1] + i \in 1..b[m] /\ b[k - 1] \in Nat /\ b[m] \in Nat
<1>1. Len(fs) \in Nat /\ fs \in Seq(Sendable)
  BY DEF Layout
<1>2. k \in 1..Len(fs) /\ k - 1 \in 0..Len(fs) /\ k \in 0..Len(fs) /\ k <= m
  BY <1>1
<1>3. b[k] = b[k - 1] + Size(fs[k]) /\ b[k] <= b[m]
  BY <1>2 DEF Layout
<1>4. b[k - 1] \in Nat /\ b[k] \in Nat /\ b[m] \in Nat
  BY <1>2 DEF Layout
<1>5. Size(fs[k]) \in Nat
  <2>1. fs[k] \in Sendable
    BY <1>1, <1>2
  <2>2. QED
    BY <2>1, BytesOf
<1>6. QED
  BY <1>3, <1>4, <1>5

LEMMA HeaderShown ==
  ASSUME NEW fs, NEW b, Layout(fs, b), NEW v, Shows(v, fs, b), Len(v) = b[Len(fs)],
         NEW f \in Sendable, NEW fs2, NEW b2, Extended(fs, b, f, fs2, b2),
         NEW n \in 0..5, NEW v2, Grown(v, v2, Framing!Header(f), n)
  PROVE  Shows(v2, fs2, b2)
<1>1. PICK m \in Nat : m = Len(fs) /\ Len(fs2) = m + 1
  BY DEF Extended
<1>2. /\ fs2[m + 1] = f /\ \A k \in 1..m : fs2[k] = fs[k]
      /\ \A k \in 0..m : b2[k] = b[k]
      /\ b2[m + 1] = b[m] + Size(f)
  BY <1>1 DEF Extended
<1>3. PICK l \in Nat : l = Len(v) /\ l = b[m]
  BY <1>1 DEF Grown
<1>4. /\ v2 \in Seq(Byte) /\ Len(v2) = l + n /\ \A i \in 1..l : v2[i] = v[i]
      /\ \A i \in 1..n : v2[l + i] = Framing!Header(f)[i]
  BY <1>3 DEF Grown
<1>5. Len(f.payload) \in Nat /\ Size(f) = 5 + Len(f.payload)
  BY BytesOf DEF Size
<1>6. Len(v2) <= b2[Len(fs2)]
  <2>1. b2[Len(fs2)] = l + Size(f)
    BY <1>1, <1>2, <1>3
  <2>2. Size(f) \in Nat /\ n <= Size(f)
    BY <1>5
  <2>3. QED
    BY <1>4, <2>1, <2>2
<1>7. ASSUME NEW k \in 1..m, NEW i \in 1..Size(fs2[k])
      PROVE  v2[b2[k - 1] + i] = Bytes(fs2[k])[i]
  <2>1. k - 1 \in 0..m /\ m \in 0..Len(fs) /\ k \in 1..Len(fs)
    BY <1>1
  <2>2. fs2[k] = fs[k] /\ b2[k - 1] = b[k - 1]
    BY <1>2, <2>1
  <2>3. i \in 1..Size(fs[k])
    BY <2>2
  <2>4. b[k - 1] + i \in 1..l
    BY <1>3, <2>1, <2>3, EarlierFrames
  <2>5. v[b[k - 1] + i] = Bytes(fs[k])[i]
    BY <1>3, <2>1, <2>3, <2>4 DEF Shows
  <2>6. v2[b[k - 1] + i] = v[b[k - 1] + i]
    BY <1>4, <2>4
  <2>7. QED
    BY <2>2, <2>5, <2>6
<1>8. ASSUME NEW i \in 1..Size(f), b2[m] + i <= Len(v2)
      PROVE  v2[b2[m] + i] = Bytes(f)[i]
  <2>1. b2[m] = l
    BY <1>2, <1>3
  <2>2. i \in 1..n /\ i \in 1..5
    BY <1>4, <1>5, <1>8, <2>1
  <2>3. v2[l + i] = Framing!Header(f)[i]
    BY <1>4, <2>2
  <2>4. Bytes(f)[i] = Framing!Header(f)[i]
    BY <2>2, BytesOf
  <2>5. QED
    BY <2>1, <2>3, <2>4
<1>9. \A k \in 1..Len(fs2) : \A i \in 1..Size(fs2[k]) :
        b2[k - 1] + i <= Len(v2) => v2[b2[k - 1] + i] = Bytes(fs2[k])[i]
  <2>1. TAKE k \in 1..Len(fs2)
  <2>2. k \in 1..m \/ (k = m + 1 /\ k - 1 = m)
    BY <1>1
  <2>3. CASE k \in 1..m
    BY <1>7, <2>3
  <2>4. CASE k = m + 1 /\ k - 1 = m
    BY <1>2, <1>8, <2>4
  <2>5. QED
    BY <2>2, <2>3, <2>4
<1>10. QED
  BY <1>4, <1>6, <1>9 DEF Shows

LEMMA PastHeader ==
  ASSUME NEW x \in Nat, NEW l \in Nat, l = x + 5, NEW n \in Nat, NEW q \in Nat, n <= q,
         NEW i \in Nat, ~(i <= 5), x + i <= l + n
  PROVE  \E j \in 1..n : j \in 1..q /\ x + i = l + j /\ 5 + j = i
<1>1. PICK j \in Nat : j = i - 5
  OBVIOUS
<1>2. j \in 1..n /\ j \in 1..q
  BY <1>1
<1>3. x + i = l + j /\ 5 + j = i
  BY <1>1
<1>4. QED
  BY <1>2, <1>3

\* The last frame, number m + 1, has payload p, and its header is on the wire.
HeaderDone(v, fs, b, m, f, p) ==
  /\ Layout(fs, b) /\ Shows(v, fs, b)
  /\ m \in Nat /\ Len(fs) = m + 1 /\ f = fs[m + 1] /\ p = f.payload
  /\ Len(v) = b[m] + 5

PayloadDone(v, v2, fs, b, m, p) == Shows(v2, fs, b) /\ b[m + 1] = Len(v) + Len(p)

LEMMA PayloadShown ==
  ASSUME NEW v, NEW fs, NEW b, NEW m, NEW f, NEW p, HeaderDone(v, fs, b, m, f, p),
         NEW n \in 0..Len(p), NEW v2, Grown(v, v2, p, n)
  PROVE  PayloadDone(v, v2, fs, b, m, p)
<1> USE DEF HeaderDone
<1>1. f \in Sendable /\ m + 1 \in 1..Len(fs) /\ (m + 1) - 1 = m /\ m \in 0..Len(fs)
  BY DEF Layout
<1>2. Len(f.payload) \in Nat /\ Size(f) = 5 + Len(f.payload)
  BY <1>1, BytesOf DEF Size
<1>3. b[m] \in Nat /\ b[m + 1] = b[m] + Size(f)
  BY <1>1 DEF Layout
<1>4. PICK l \in Nat : l = Len(v) /\ l = b[m] + 5
  BY DEF Grown
<1>5. /\ v2 \in Seq(Byte) /\ Len(v2) = l + n /\ \A i \in 1..l : v2[i] = v[i]
      /\ \A i \in 1..n : v2[l + i] = f.payload[i]
  BY <1>4 DEF Grown
<1>6. b[m + 1] = l + Len(f.payload) /\ Len(v2) <= b[Len(fs)]
  <2>1. b[m + 1] = l + Len(f.payload)
    BY <1>2, <1>3, <1>4
  <2>2. n <= Len(f.payload)
    BY <1>2
  <2>3. QED
    BY <1>2, <1>5, <2>1, <2>2
<1>7. ASSUME NEW k \in 1..m, NEW i \in 1..Size(fs[k])
      PROVE  v2[b[k - 1] + i] = Bytes(fs[k])[i]
  <2>0. k \in 1..Len(fs)
    OBVIOUS
  <2>1. b[k - 1] + i \in 1..b[m]
    <3>1. m \in 0..Len(fs)
      BY <1>1
    <3>2. QED
      BY <3>1, EarlierFrames
  <2>2. b[k - 1] + i \in 1..l
    BY <1>3, <1>4, <2>1
  <2>3. v[b[k - 1] + i] = Bytes(fs[k])[i]
    BY <1>4, <2>0, <2>2 DEF Shows
  <2>4. QED
    BY <1>5, <2>2, <2>3
<1>8. ASSUME NEW i \in 1..Size(f), b[m] + i <= Len(v2)
      PROVE  v2[b[m] + i] = Bytes(f)[i]
  <2>1. CASE i <= 5
    <3>1. b[m] + i \in 1..l
      BY <1>2, <1>3, <1>4, <2>1
    <3>2. v[b[m] + i] = Bytes(f)[i]
      BY <1>1, <1>4, <3>1 DEF Shows
    <3>3. QED
      BY <1>5, <3>1, <3>2
  <2>2. CASE ~(i <= 5)
    <3>1. PICK x \in Nat : x = b[m]
      BY <1>3
    <3>2. PICK q \in Nat : q = Len(f.payload) /\ n \in Nat /\ n <= q
      BY <1>2
    <3>3. i \in Nat /\ x + i <= l + n /\ l = x + 5
      BY <1>2, <1>4, <1>5, <1>8, <3>1
    <3>4. PICK j \in 1..n : j \in 1..q /\ x + i = l + j /\ 5 + j = i
      BY <2>2, <3>2, <3>3, PastHeader
    <3>5. v2[l + j] = f.payload[j]
      BY <1>5
    <3>6. Bytes(f)[5 + j] = f.payload[j]
      BY <1>1, <3>2, <3>4, BytesOf
    <3>7. QED
      BY <3>1, <3>4, <3>5, <3>6
  <2>3. QED
    BY <2>1, <2>2
<1>9. \A k \in 1..Len(fs) : \A i \in 1..Size(fs[k]) :
        b[k - 1] + i <= Len(v2) => v2[b[k - 1] + i] = Bytes(fs[k])[i]
  <2>1. TAKE k \in 1..Len(fs)
  <2>2. k \in 1..m \/ (k = m + 1 /\ k - 1 = m)
    OBVIOUS
  <2>3. CASE k \in 1..m
    BY <1>7, <2>3
  <2>4. CASE k = m + 1 /\ k - 1 = m
    BY <1>8, <2>4
  <2>5. QED
    BY <2>2, <2>3, <2>4
<1>10. QED
  BY <1>4, <1>5, <1>6, <1>9 DEF Shows, PayloadDone

LEMMA WriteHeaderStep == ASSUME FrameInv, Framing!WriteHeader PROVE FrameInv' /\ Steps
<1>1. PICK fs, b : FrameState(fs, b)
  BY DEF FrameInv
<1>2. w.step = "header" /\ UNCHANGED <<r, framesRead>>
  BY DEF Framing!WriteHeader
<1>3. PICK f \in Sendable : f = w.frame
  BY <1>1, <1>2 DEF FrameState, WriterInv
<1>4. PICK p \in Seq(Byte) : p = Framing!Header(f) /\ Len(p) = 5
  BY HeaderType
<1>5. PICK n \in 0..5, err \in BOOLEAN :
        /\ Framing!Write(p, n, err)
        /\ w' = IF err \/ f.payload = <<>> THEN Framing!WriterIdle ELSE [w EXCEPT !.step = "payload"]
        /\ framesSent' = IF n = 5 /\ f.payload = <<>> THEN Append(framesSent, f) ELSE framesSent
  BY <1>3, <1>4 DEF Framing!WriteHeader, Framing!frameHeaderSize
<1>6. /\ wire' = wire \o SubSeq(p, 1, n) /\ dead' = (dead \/ err) /\ taken' = taken
      /\ dead => n = 0 /\ err
      /\ ~err => n = 5
  BY <1>4, <1>5, Zenon DEF Framing!Write
<1>7. wire \in Seq(Byte) /\ Grown(wire, wire', p, n)
  <2>1. wire \in Seq(Byte) /\ n \in 0..Len(p)
    BY <1>1, <1>4 DEF FrameState, WireInv, Shows
  <2>2. QED
    BY <1>6, <2>1, WireGrows
<1>8. f \in Framing!Frames /\ dead \in BOOLEAN /\ dead' \in BOOLEAN /\ framesSent \in Seq(Sendable)
      /\ Framing!WriterIdle.step = "idle" /\ Len(f.payload) \in Nat
  <2>1. f \in Framing!Frames /\ Len(f.payload) \in Nat
    BY BytesOf DEF Sendable
  <2>2. dead \in BOOLEAN /\ framesSent \in Seq(Sendable)
    BY <1>1, Zenon DEF FrameState, WriterInv, SentInv
  <2>3. dead' \in BOOLEAN
    BY <1>6, Zenon
  <2>4. QED
    BY <2>1, <2>2, <2>3 DEF Framing!WriterIdle
<1>9. CASE dead
  <2>1. n = 0 /\ err /\ dead' = TRUE
    BY <1>6, <1>9, Zenon
  <2>2. wire' = wire
    <3>1. Len(wire') = Len(wire) /\ wire' \in Seq(Byte) /\ \A i \in 1..Len(wire) : wire'[i] = wire[i]
      BY <1>7, <2>1 DEF Grown
    <3>2. QED
      BY <1>7, <3>1, SeqEqual
  <2>3. framesSent' = framesSent
    BY <1>5, <2>1
  <2>4. w'.step = "idle"
    BY <1>5, <1>8, <2>1
  <2>5. Layout(fs, b)' /\ WireInv(fs, b)' /\ SentInv(fs, b)' /\ ReaderInv(fs, b)'
    <3>1. UNCHANGED <<wire, framesSent, r, taken, framesRead>>
      BY <1>2, <1>6, <2>2, <2>3
    <3>2. QED
      BY <1>1, <3>1, StateKept
  <2>6. WriterInv(fs, b)'
    BY <1>8, <2>1, <2>4 DEF WriterInv
  <2>7. FrameInv'
    BY <2>5, <2>6 DEF FrameInv, FrameState
  <2>8. QED
    BY <1>2, <1>8, <2>1, <2>3, <2>7, ChannelFails
<1>10. CASE ~dead
  <2>1. PICK m \in Nat : m = Len(fs) /\ Len(framesSent) = m /\ Len(wire) = b[m]
    <3>1. Len(fs) \in Nat
      BY <1>1 DEF FrameState, Layout
    <3>2. Len(framesSent) = Len(fs) /\ Len(wire) = b[Len(fs)]
      BY <1>1, <1>2, <1>10 DEF FrameState, WriterInv
    <3>3. QED
      BY <3>1, <3>2
  <2>2. Layout(fs, b) /\ Shows(wire, fs, b)
    BY <1>1 DEF FrameState, WireInv
  <2>3. PICK fs2, b2 : Extended(fs, b, f, fs2, b2)
    BY <2>2, LayoutExtends
  <2>4. Layout(fs2, b2) /\ Layout(fs2, b2)'
    BY <2>3 DEF Extended, Layout
  <2>5. /\ Len(fs2) = m + 1 /\ fs2[m + 1] = f /\ \A k \in 1..m : fs2[k] = fs[k]
        /\ \A k \in 0..m : b2[k] = b[k]
        /\ b2[m + 1] = b[m] + Size(f)
    BY <2>1, <2>3 DEF Extended
  <2>6. Shows(wire', fs2, b2)
    <3>1. Grown(wire, wire', Framing!Header(f), n)
      BY <1>4, <1>7
    <3>2. PICK v, v2 : v = wire /\ v2 = wire'
      OBVIOUS
    <3>3. Shows(v, fs, b) /\ Len(v) = b[Len(fs)] /\ Grown(v, v2, Framing!Header(f), n)
      BY <2>1, <2>2, <3>1, <3>2
    <3>4. Shows(v2, fs2, b2)
      BY <2>2, <2>3, <3>3, HeaderShown
    <3>5. QED
      BY <3>2, <3>4
  <2>7. WireInv(fs2, b2)'
    BY <2>6 DEF WireInv, Shows
  <2>8. /\ wire' \in Seq(Byte) /\ Len(wire') = b[m] + n /\ Len(wire) \in Nat /\ Len(wire') \in Nat
        /\ Len(wire) <= Len(wire') /\ \A i \in 1..Len(wire) : wire'[i] = wire[i]
    BY <1>7, <2>1 DEF Grown
  <2>9. Size(f) = 5 + Len(f.payload) /\ b[m] \in Nat
    <3>1. b[m] \in Nat
      BY <2>1, <2>8
    <3>2. QED
      BY <3>1 DEF Size
  <2>10. CASE n = 5 /\ f.payload = <<>>
    <3>1. framesSent' = Append(framesSent, f)
      BY <1>5, <2>10
    <3>2. /\ framesSent' \in Seq(Sendable) /\ Len(framesSent') = m + 1 /\ framesSent'[m + 1] = f
          /\ \A k \in 1..m : framesSent'[k] = framesSent[k]
      BY <1>8, <2>1, <3>1, AppendProperties
    <3>3. \A k \in 1..m : framesSent[k] = fs[k]
      BY <1>1, <2>1 DEF FrameState, SentInv
    <3>4. \A k \in 1..m + 1 : framesSent'[k] = fs2[k]
      <4>1. \A k \in 1..m + 1 : k \in 1..m \/ k = m + 1
        OBVIOUS
      <4>2. QED
        BY <2>5, <3>2, <3>3, <4>1
    <3>5. SentInv(fs2, b2)'
      BY <2>5, <3>2, <3>4 DEF SentInv
    <3>6. w'.step = "idle"
      BY <1>5, <1>8, <2>10
    <3>7. Len(wire') = b2[m + 1]
      <4>1. Len(f.payload) = 0
        BY <2>10
      <4>2. QED
        BY <2>5, <2>8, <2>9, <2>10, <4>1
    <3>8. WriterInv(fs2, b2)'
      BY <1>8, <2>5, <3>2, <3>6, <3>7 DEF WriterInv
    <3>9. ReaderInv(fs2, b2)'
      <4>1. /\ ReaderInv(fs, b) /\ framesSent \in Seq(Sendable) /\ Layout(fs2, b2) /\ Layout(fs, b)
            /\ UNCHANGED <<r, taken, framesRead>> /\ wire \in Seq(Byte)
        BY <1>1, <1>2, <1>6, <1>7, <1>8, <2>2, <2>4 DEF FrameState
      <4>2. /\ Len(framesSent) <= Len(fs) /\ Len(fs) <= Len(fs2) /\ Len(framesSent') \in Nat
            /\ Len(framesSent) <= Len(framesSent')
            /\ \A k \in 1..Len(fs) : fs2[k] = fs[k]
            /\ \A k \in 0..Len(fs) : b2[k] = b[k]
        BY <2>1, <2>5, <3>2
      <4>3. QED
        BY <2>8, <4>1, <4>2, ReaderKept
    <3>10. FrameInv'
      BY <2>4, <2>7, <3>5, <3>8, <3>9 DEF FrameInv, FrameState
    <3>11. Steps
      <4>1. CASE err
        <5>1. dead' = TRUE
          BY <1>6, <4>1, Zenon
        <5>2. QED
          BY <1>2, <1>8, <1>10, <3>1, <5>1, ChannelFails
      <4>2. CASE ~err
        <5>1. dead' = dead
          BY <1>5, <1>6, <1>8, <1>10, <4>2, Zenon
        <5>2. QED
          BY <1>2, <1>8, <1>10, <3>1, <5>1, ChannelSends
      <4>3. QED
        BY <4>1, <4>2
    <3>12. QED
      BY <3>10, <3>11
  <2>11. CASE ~(n = 5 /\ f.payload = <<>>)
    <3>1. framesSent' = framesSent
      BY <1>5, <2>11
    <3>2. Len(wire') < b2[m + 1]
      <4>1. PICK l \in Nat : l = Len(f.payload)
        BY <1>8
      <4>2. n # 5 \/ l # 0
        <5>1. f.payload \in Seq(Byte)
          BY <1>8, PayloadType
        <5>2. l = 0 => f.payload = <<>>
          BY <4>1, <5>1, EmptySeq
        <5>3. QED
          BY <2>11, <5>2
      <4>3. PICK x \in Nat : x = b[m]
        BY <2>9
      <4>4. Len(wire') = x + n /\ b2[m + 1] = x + (5 + l)
        BY <2>5, <2>8, <2>9, <4>1, <4>3
      <4>5. x + n < x + (5 + l)
        BY <4>2
      <4>6. QED
        BY <4>4, <4>5
    <3>3. \A k \in 1..m : framesSent[k] = fs2[k]
      BY <1>1, <2>1, <2>5 DEF FrameState, SentInv
    <3>4. SentInv(fs2, b2)'
      BY <1>8, <2>1, <2>5, <3>1, <3>2, <3>3 DEF SentInv
    <3>5. ReaderInv(fs2, b2)'
      <4>1. /\ ReaderInv(fs, b) /\ framesSent \in Seq(Sendable) /\ Layout(fs2, b2) /\ Layout(fs, b)
            /\ UNCHANGED <<r, taken, framesRead>> /\ wire \in Seq(Byte)
        BY <1>1, <1>2, <1>6, <1>7, <1>8, <2>2, <2>4 DEF FrameState
      <4>2. /\ Len(framesSent) <= Len(fs) /\ Len(fs) <= Len(fs2) /\ Len(framesSent') \in Nat
            /\ Len(framesSent) <= Len(framesSent')
            /\ \A k \in 1..Len(fs) : fs2[k] = fs[k]
            /\ \A k \in 0..Len(fs) : b2[k] = b[k]
        BY <2>1, <2>5, <3>1
      <4>3. QED
        BY <2>8, <4>1, <4>2, ReaderKept
    <3>6. CASE err
      <4>1. dead' = TRUE /\ w'.step = "idle"
        <5>1. dead' = TRUE
          BY <1>6, <3>6, Zenon
        <5>2. QED
          BY <1>5, <1>8, <3>6, <5>1
      <4>2. WriterInv(fs2, b2)'
        BY <1>8, <4>1 DEF WriterInv
      <4>3. FrameInv'
        BY <2>4, <2>7, <3>4, <3>5, <4>2 DEF FrameInv, FrameState
      <4>4. QED
        BY <1>2, <1>8, <3>1, <4>1, <4>3, ChannelFails
    <3>7. CASE ~err
      <4>1. n = 5 /\ f.payload # <<>>
        BY <1>6, <2>11, <3>7
      <4>2. dead' = dead
        BY <1>5, <1>6, <1>8, <1>10, <3>7, Zenon
      <4>3. w' = [w EXCEPT !.step = "payload"]
        BY <1>5, <3>7, <4>1
      <4>4. w \in [step : {"header", "payload"}, frame : Sendable, written : {0}]
        BY <1>1, <1>2 DEF FrameState, WriterInv
      <4>5. /\ w' \in [step : {"header", "payload"}, frame : Sendable, written : {0}]
            /\ w'.step = "payload" /\ w'.frame = f
        BY <1>3, <4>3, <4>4
      <4>6. Len(wire') = b2[m] + 5
        BY <2>5, <2>8, <4>1
      <4>7. WriterInv(fs2, b2)'
        BY <1>8, <1>10, <2>1, <2>5, <3>1, <4>1, <4>2, <4>5, <4>6 DEF WriterInv
      <4>8. FrameInv'
        BY <2>4, <2>7, <3>4, <3>5, <4>7 DEF FrameInv, FrameState
      <4>9. QED
        BY <1>2, <3>1, <4>2, <4>8, ChannelStutters
    <3>8. QED
      BY <3>6, <3>7
  <2>12. QED
    BY <2>10, <2>11
<1>11. QED
  BY <1>9, <1>10

LEMMA WritePayloadStep == ASSUME FrameInv, Framing!WritePayload PROVE FrameInv' /\ Steps
<1>1. PICK fs, b : FrameState(fs, b)
  BY DEF FrameInv
<1>2. w.step = "payload" /\ UNCHANGED <<r, framesRead>>
  BY DEF Framing!WritePayload
<1>3. w \in [step : {"header", "payload"}, frame : Sendable, written : {0}]
  BY <1>1, <1>2 DEF FrameState, WriterInv
<1>4. PICK f \in Sendable : f = w.frame /\ w.written = 0
  BY <1>3
<1>5. f \in Framing!Frames /\ f.payload \in Seq(Byte) /\ Len(f.payload) \in Nat
  BY PayloadType DEF Sendable
<1>6. PICK p \in Seq(Byte) : p = f.payload
  BY <1>5
<1>7. SubSeq(w.frame.payload, w.written + 1, Len(w.frame.payload)) = p
  <2>1. 0 + 1 = 1
    OBVIOUS
  <2>2. SubSeq(p, 1, Len(p)) = p
    BY SubSeqFull
  <2>3. QED
    BY <1>4, <1>6, <2>1, <2>2
<1>8. PICK n \in 0..Len(p), err \in BOOLEAN :
        /\ Framing!Write(p, n, err)
        /\ w' = IF err \/ n = 0 \/ n = Len(p) THEN Framing!WriterIdle
                ELSE [w EXCEPT !.written = @ + n]
        /\ framesSent' = IF n = Len(p) THEN Append(framesSent, f) ELSE framesSent
  BY <1>4, <1>7 DEF Framing!WritePayload
<1>9. dead = FALSE
  <2>1. dead \in BOOLEAN /\ ~dead
    BY <1>1, <1>2 DEF FrameState, WriterInv
  <2>2. QED
    BY <2>1, Zenon
<1>10. /\ wire' = wire \o SubSeq(p, 1, n) /\ dead' = (dead \/ err) /\ taken' = taken
       /\ ~err => n = Len(p)
  BY <1>8, <1>9, Zenon DEF Framing!Write
<1>11. wire \in Seq(Byte) /\ Grown(wire, wire', p, n)
  <2>1. wire \in Seq(Byte)
    BY <1>1 DEF FrameState, WireInv, Shows
  <2>2. QED
    BY <1>6, <1>10, <2>1, WireGrows
<1>12. dead' \in BOOLEAN /\ framesSent \in Seq(Sendable) /\ w'.step = "idle"
  <2>1. dead' \in BOOLEAN
    BY <1>9, <1>10, Zenon
  <2>2. framesSent \in Seq(Sendable)
    BY <1>1 DEF FrameState, SentInv
  <2>3. w' = Framing!WriterIdle
    BY <1>8, <1>10
  <2>4. QED
    BY <2>1, <2>2, <2>3 DEF Framing!WriterIdle
<1>13. PICK m \in Nat : m = Len(framesSent)
  BY <1>12
<1>14. Len(fs) = m + 1 /\ fs[m + 1] = f /\ Len(wire) = b[m] + 5
  BY <1>1, <1>2, <1>4, <1>13 DEF FrameState, WriterInv
<1>15. Layout(fs, b) /\ Shows(wire, fs, b) /\ ReaderInv(fs, b)
  BY <1>1 DEF FrameState, WireInv
<1>16. Shows(wire', fs, b) /\ b[m + 1] = Len(wire) + Len(p)
  <2>1. PICK v, v2 : v = wire /\ v2 = wire'
    OBVIOUS
  <2>2. HeaderDone(v, fs, b, m, f, p) /\ Grown(v, v2, p, n)
    BY <1>6, <1>11, <1>14, <1>15, <2>1 DEF HeaderDone
  <2>3. PayloadDone(v, v2, fs, b, m, p)
    BY <2>2, PayloadShown
  <2>4. QED
    BY <2>1, <2>3 DEF PayloadDone
<1>17. Layout(fs, b)' /\ WireInv(fs, b)'
  BY <1>15, <1>16 DEF WireInv, Shows, Layout
<1>18. /\ wire' \in Seq(Byte) /\ Len(wire') = Len(wire) + n /\ Len(wire) \in Nat
       /\ Len(wire') \in Nat /\ Len(wire) <= Len(wire')
       /\ \A i \in 1..Len(wire) : wire'[i] = wire[i]
  BY <1>11 DEF Grown
<1>19. \A k \in 1..m : framesSent[k] = fs[k]
  BY <1>1, <1>13 DEF FrameState, SentInv
<1>20. ASSUME Len(framesSent') \in Nat, Len(framesSent) <= Len(framesSent')
       PROVE  ReaderInv(fs, b)'
  <2>1. UNCHANGED <<r, taken, framesRead>>
    BY <1>2, <1>10
  <2>2. Len(framesSent) <= Len(fs) /\ Len(fs) <= Len(fs)
    BY <1>13, <1>14
  <2>3. QED
    BY <1>11, <1>12, <1>15, <1>18, <1>20, <2>1, <2>2, ReaderKept
<1>21. CASE n = Len(p)
  <2>1. framesSent' = Append(framesSent, f)
    BY <1>8, <1>21
  <2>2. /\ framesSent' \in Seq(Sendable) /\ Len(framesSent') = m + 1 /\ framesSent'[m + 1] = f
        /\ \A k \in 1..m : framesSent'[k] = framesSent[k]
    BY <1>12, <1>13, <2>1, AppendProperties
  <2>3. \A k \in 1..m + 1 : framesSent'[k] = fs[k]
    <3>1. \A k \in 1..m + 1 : k \in 1..m \/ k = m + 1
      OBVIOUS
    <3>2. QED
      BY <1>14, <1>19, <2>2, <3>1
  <2>4. SentInv(fs, b)'
    BY <1>14, <2>2, <2>3 DEF SentInv
  <2>5. WriterInv(fs, b)'
    <3>1. Len(wire') = b[Len(fs)]
      BY <1>14, <1>16, <1>18, <1>21
    <3>2. QED
      BY <1>12, <1>14, <2>2, <3>1 DEF WriterInv
  <2>6. FrameInv'
    BY <1>13, <1>17, <1>20, <2>2, <2>4, <2>5 DEF FrameInv, FrameState
  <2>7. CASE err
    <3>1. dead' = TRUE
      BY <1>10, <2>7, Zenon
    <3>2. QED
      BY <1>2, <1>5, <1>9, <2>1, <2>6, <3>1, ChannelFails
  <2>8. CASE ~err
    <3>1. dead' = dead
      BY <1>9, <1>10, <2>8, Zenon
    <3>2. QED
      BY <1>2, <1>5, <1>9, <2>1, <2>6, <3>1, ChannelSends
  <2>9. QED
    BY <2>7, <2>8
<1>22. CASE n # Len(p)
  <2>1. framesSent' = framesSent
    BY <1>8, <1>22
  <2>2. dead' = TRUE
    BY <1>10, <1>22, Zenon
  <2>3. SentInv(fs, b)'
    <3>1. Len(wire') < b[Len(fs)]
      <4>1. n < Len(p)
        BY <1>22
      <4>2. QED
        BY <1>14, <1>16, <1>18, <4>1
    <3>2. QED
      BY <1>12, <1>13, <1>14, <1>19, <2>1, <3>1 DEF SentInv
  <2>4. WriterInv(fs, b)'
    BY <1>12, <2>2 DEF WriterInv
  <2>5. FrameInv'
    BY <1>13, <1>17, <1>20, <2>1, <2>3, <2>4 DEF FrameInv, FrameState
  <2>6. QED
    BY <1>2, <1>5, <2>1, <2>2, <2>5, ChannelFails
<1>23. QED
  BY <1>21, <1>22

LEMMA FrameCloseStep == ASSUME FrameInv, Framing!Close PROVE FrameInv' /\ Steps
<1>1. PICK fs, b : FrameState(fs, b)
  BY DEF FrameInv
<1>2. UNCHANGED <<wire, taken, dead, w, r, framesSent, framesRead>>
  BY DEF Framing!Close, Framing!CloseWrite
<1>3. Layout(fs, b)' /\ WireInv(fs, b)' /\ SentInv(fs, b)' /\ ReaderInv(fs, b)'
  BY <1>1, <1>2, StateKept
<1>4. WriterInv(fs, b)'
  BY <1>1, <1>2, Zenon DEF FrameState, WriterInv
<1>5. QED
  BY <1>2, <1>3, <1>4, ChannelStutters DEF FrameInv, FrameState

-----------------------------------------------------------------------------
(* Frames: the reader.                                                      *)

LEMMA WriterKept ==
  ASSUME NEW fs, NEW b, FrameState(fs, b), UNCHANGED <<wire, dead, w, framesSent>>
  PROVE  Layout(fs, b)' /\ WireInv(fs, b)' /\ SentInv(fs, b)' /\ WriterInv(fs, b)'
<1>1. Layout(fs, b)' /\ WireInv(fs, b)' /\ SentInv(fs, b)'
  BY DEF FrameState, Layout, WireInv, Shows, SentInv
<1>2. WriterInv(fs, b)'
  BY Zenon DEF FrameState, WriterInv
<1>3. QED
  BY <1>1, <1>2

\* q holds the bytes of v after byte a.
Taken(q, v, a) == q \in Seq(Byte) /\ \A i \in 1..Len(q) : q[i] = v[a + i]

LEMMA Beyond ==
  ASSUME NEW a \in Nat, NEW c \in Nat, NEW k \in Nat, NEW t, t = a + c,
         NEW i \in 1..c + k, ~(i <= c)
  PROVE  \E j \in 1..k : c + j = i /\ t + j = a + i
<1>1. PICK j \in Nat : j = i - c
  OBVIOUS
<1>2. j \in 1..k /\ c + j = i
  BY <1>1
<1>3. t + j = a + i
  BY <1>2
<1>4. QED
  BY <1>2, <1>3

\* A reader at byte t has q and reads k more bytes, which makes it q2.
ReadMore(q, q2, v, a, t, k) ==
  /\ v \in Seq(Byte) /\ a \in Nat /\ t \in Nat /\ k \in Nat
  /\ Taken(q, v, a) /\ t = a + Len(q) /\ t + k <= Len(v)
  /\ q2 = q \o SubSeq(v, t + 1, t + k)

HasMore(q, q2, v, a, k) == Taken(q2, v, a) /\ Len(q2) = Len(q) + k

LEMMA TakeMore ==
  ASSUME NEW q, NEW q2, NEW v, NEW a, NEW t, NEW k, ReadMore(q, q2, v, a, t, k)
  PROVE  HasMore(q, q2, v, a, k)
<1> USE DEF ReadMore
<1>1. PICK c \in Nat : c = Len(q) /\ q \in Seq(Byte) /\ \A i \in 1..c : q[i] = v[a + i]
  BY DEF Taken
<1>2. PICK s : s = SubSeq(v, t + 1, t + k)
  OBVIOUS
<1>3. s \in Seq(Byte) /\ Len(s) = k /\ \A i \in 1..k : s[i] = v[t + i]
  <2>1. PICK x, y \in Nat : x = t + 1 /\ y = t + k
    OBVIOUS
  <2>2. x \in 1..Len(v) + 1 /\ y \in x - 1..Len(v) /\ y - x + 1 = k
    BY <2>1
  <2>3. \A i \in 1..k : x + i - 1 = t + i
    BY <2>1
  <2>4. /\ SubSeq(v, x, y) \in Seq(Byte) /\ Len(SubSeq(v, x, y)) = y - x + 1
        /\ \A i \in 1..y - x + 1 : SubSeq(v, x, y)[i] = v[x + i - 1]
    BY <2>2, SliceProperties
  <2>5. SubSeq(v, x, y) = s
    BY <1>2, <2>1
  <2>6. QED
    BY <2>2, <2>3, <2>4, <2>5
<1>4. /\ q2 \in Seq(Byte) /\ Len(q2) = c + k
      /\ \A i \in 1..c : q2[i] = q[i]
      /\ \A i \in 1..k : q2[c + i] = s[i]
  <2>1. q \in Seq(Byte) /\ s \in Seq(Byte)
    BY <1>1, <1>3
  <2>2. /\ q \o s \in Seq(Byte) /\ Len(q \o s) = Len(q) + Len(s)
        /\ \A i \in 1..Len(q) : (q \o s)[i] = q[i]
        /\ \A i \in 1..Len(s) : (q \o s)[Len(q) + i] = s[i]
    BY <2>1, Joining
  <2>3. QED
    BY <1>1, <1>2, <1>3, <2>2
<1>5. ASSUME NEW i \in 1..c + k
      PROVE  q2[i] = v[a + i]
  <2>1. CASE i <= c
    <3>1. i \in 1..c
      BY <2>1
    <3>2. QED
      BY <1>1, <1>4, <3>1
  <2>2. CASE ~(i <= c)
    <3>1. PICK j \in 1..k : c + j = i /\ t + j = a + i
      <4>1. a \in Nat /\ t = a + c /\ k \in Nat
        BY <1>1
      <4>2. QED
        BY <2>2, <4>1, Beyond
    <3>2. q2[c + j] = s[j] /\ s[j] = v[t + j]
      BY <1>3, <1>4
    <3>3. QED
      BY <3>1, <3>2
  <2>3. QED
    BY <2>1, <2>2
<1>6. QED
  BY <1>1, <1>4, <1>5 DEF Taken, HasMore

\* f is the frame the reader is in, number n + 1.
InFrame(fs, b, n, f) ==
  /\ n \in Nat /\ n < Len(fs) /\ f = fs[n + 1] /\ f \in Sendable
  /\ b[n] \in Nat /\ b[n + 1] = b[n] + Size(f)
  /\ b[n + 1] <= Len(wire) => n < Len(framesSent) /\ framesSent[n + 1] = f
  /\ \A i \in 1..Size(f) : b[n] + i <= Len(wire) => wire[b[n] + i] = Bytes(f)[i]

LEMMA NextFrame ==
  ASSUME NEW fs, NEW b, Layout(fs, b), WireInv(fs, b), SentInv(fs, b), NEW n \in Nat,
         n <= Len(framesSent), n < Len(fs) \/ b[n] < Len(wire)
  PROVE  InFrame(fs, b, n, fs[n + 1])
<1>1. PICK l \in Nat : l = Len(fs) /\ fs \in Seq(Sendable)
  BY DEF Layout
<1>2. PICK s \in Nat : s = Len(framesSent)
  BY DEF SentInv
<1>3. s = l \/ l = s + 1
  BY <1>1, <1>2 DEF SentInv
<1>4. n <= l
  BY <1>2, <1>3
<1>5. PICK z \in Nat : z = Len(wire) /\ z <= b[l]
  BY <1>1 DEF WireInv, Shows
<1>6. n \in 0..l /\ l \in 0..l
  BY <1>4
<1>7. b[n] \in Nat /\ b[l] \in Nat
  BY <1>1, <1>6 DEF Layout
<1>8. n < l
  <2>1. CASE n < Len(fs)
    BY <1>1, <2>1
  <2>2. CASE b[n] < Len(wire)
    <3>1. n # l
      BY <1>5, <1>7, <2>2
    <3>2. QED
      BY <1>4, <3>1
  <2>3. QED
    BY <2>1, <2>2
<1>9. PICK m \in 1..l : m = n + 1 /\ m - 1 = n
  BY <1>8
<1>10. fs[m] \in Sendable /\ b[m] = b[n] + Size(fs[m])
  BY <1>1, <1>9 DEF Layout
<1>11. \A i \in 1..Size(fs[m]) : b[n] + i <= Len(wire) => wire[b[n] + i] = Bytes(fs[m])[i]
  BY <1>1, <1>9 DEF WireInv, Shows
<1>12. ASSUME b[m] <= Len(wire)
       PROVE  n < Len(framesSent) /\ framesSent[m] = fs[m]
  <2>1. b[m] \in Nat
    BY <1>1 DEF Layout
  <2>2. s = l \/ (l = s + 1 /\ z < b[l])
    BY <1>1, <1>2, <1>5 DEF SentInv
  <2>3. n < s
    <3>1. CASE s = l
      BY <1>8, <3>1
    <3>2. CASE l = s + 1 /\ z < b[l]
      <4>1. m # l
        BY <1>5, <1>7, <1>12, <2>1, <3>2
      <4>2. QED
        BY <1>9, <3>2, <4>1
    <3>3. QED
      BY <2>2, <3>1, <3>2
  <2>4. m \in 1..s
    BY <1>9, <2>3
  <2>5. QED
    BY <1>2, <2>3, <2>4 DEF SentInv
<1>13. QED
  BY <1>1, <1>7, <1>8, <1>9, <1>10, <1>11, <1>12 DEF InFrame

LEMMA ReadFrameStep == ASSUME FrameInv, Framing!ReadFrame PROVE FrameInv' /\ Steps
<1>1. PICK fs, b : FrameState(fs, b)
  BY DEF FrameInv
<1>2. /\ UNCHANGED <<wire, taken, dead, w, framesSent, framesRead>> /\ r.step = "idle"
      /\ r' = [Framing!ReaderIdle EXCEPT !.step = "header"]
  BY DEF Framing!ReadFrame, Framing!quicVars
<1>3. Layout(fs, b)' /\ WireInv(fs, b)' /\ SentInv(fs, b)' /\ WriterInv(fs, b)'
  BY <1>1, <1>2, WriterKept
<1>4. r' = [step |-> "header", buf |-> <<>>, type |-> 0, length |-> 0]
  BY <1>2 DEF Framing!ReaderIdle
<1>5. 0 \in Byte /\ <<>> \in Seq(Byte) /\ Len(<<>>) = 0 /\ 1..0 = {}
  BY DEF Byte
<1>6. /\ r' \in [step : {"idle", "header", "payload", "failed"}, buf : Seq(Byte), type : Byte,
                 length : Nat]
      /\ r'.step = "header" /\ Len(r'.buf) = 0
  BY <1>4, <1>5
<1>7. taken = b[Len(framesRead)] /\ taken \in Nat
  BY <1>1, <1>2 DEF FrameState, ReaderInv
<1>8. taken' = b[Len(framesRead)] + Len(r'.buf)
  BY <1>2, <1>6, <1>7
<1>9. ReaderInv(fs, b)'
  <2>1. /\ taken \in Nat /\ taken <= Len(wire) /\ framesRead \in Seq(Sendable)
        /\ Len(framesRead) <= Len(framesSent)
    BY <1>1 DEF FrameState, ReaderInv
  <2>2. QED
    BY <1>2, <1>5, <1>6, <1>8, <2>1 DEF ReaderInv
<1>10. QED
  BY <1>2, <1>3, <1>9, ChannelStutters DEF FrameInv, FrameState

LEMMA ReadFrameFailsStep == ASSUME FrameInv, Framing!ReadFrameFails PROVE FrameInv' /\ Steps
<1>1. PICK fs, b : FrameState(fs, b)
  BY DEF FrameInv
<1>2. /\ UNCHANGED <<wire, taken, dead, w, framesSent, framesRead>>
      /\ r' = [Framing!ReaderIdle EXCEPT !.step = "failed"]
  BY DEF Framing!ReadFrameFails, Framing!ReadFails, Framing!quicVars
<1>3. Layout(fs, b)' /\ WireInv(fs, b)' /\ SentInv(fs, b)' /\ WriterInv(fs, b)'
  BY <1>1, <1>2, WriterKept
<1>4. r' = [step |-> "failed", buf |-> <<>>, type |-> 0, length |-> 0]
  BY <1>2 DEF Framing!ReaderIdle
<1>5. 0 \in Byte /\ <<>> \in Seq(Byte)
  BY DEF Byte
<1>6. /\ r' \in [step : {"idle", "header", "payload", "failed"}, buf : Seq(Byte), type : Byte,
                 length : Nat]
      /\ r'.step = "failed"
  BY <1>4, <1>5
<1>7. ReaderInv(fs, b)'
  <2>1. /\ taken \in Nat /\ taken <= Len(wire) /\ framesRead \in Seq(Sendable)
        /\ Len(framesRead) <= Len(framesSent)
    BY <1>1 DEF FrameState, ReaderInv
  <2>2. QED
    BY <1>2, <1>6, <2>1 DEF ReaderInv
<1>8. QED
  BY <1>2, <1>3, <1>7, ChannelStutters DEF FrameInv, FrameState

\* The reader returns the frame it is in once it has all of its bytes.
LEMMA DeliverStep ==
  ASSUME NEW fs, NEW b, FrameState(fs, b), NEW n, n = Len(framesRead), NEW f, InFrame(fs, b, n, f),
         Framing!Deliver(f.type, f.payload), taken' = b[n] + Size(f), taken' <= Len(wire),
         UNCHANGED <<wire, dead, w, framesSent>>
  PROVE  FrameInv' /\ Steps
<1>1. Layout(fs, b)' /\ WireInv(fs, b)' /\ SentInv(fs, b)' /\ WriterInv(fs, b)'
  BY WriterKept
<1>2. /\ n \in Nat /\ f \in Sendable /\ b[n] \in Nat /\ b[n + 1] = b[n] + Size(f)
      /\ n < Len(framesSent) /\ framesSent[n + 1] = f
  BY DEF InFrame
<1>3. f = [type |-> f.type, payload |-> f.payload]
  <2>1. f \in Framing!Frames
    BY <1>2 DEF Sendable
  <2>2. QED
    BY <2>1, PayloadType
<1>4. framesRead' = Append(framesRead, f) /\ r' = Framing!ReaderIdle
  BY <1>3 DEF Framing!Deliver
<1>5. framesRead \in Seq(Sendable) /\ framesSent \in Seq(Sendable)
  BY DEF FrameState, ReaderInv, SentInv
<1>6. framesRead' \in Seq(Sendable) /\ Len(framesRead') = n + 1
  BY <1>2, <1>4, <1>5, AppendProperties
<1>7. taken' \in Nat /\ taken' = b[n + 1]
  <2>1. Size(f) \in Nat
    BY <1>2, BytesOf
  <2>2. QED
    BY <1>2, <2>1
<1>8. r' \in [step : {"idle", "header", "payload", "failed"}, buf : Seq(Byte), type : Byte,
              length : Nat]
      /\ r'.step = "idle"
  <2>1. 0 \in Byte /\ <<>> \in Seq(Byte)
    BY DEF Byte
  <2>2. QED
    BY <1>4, <2>1 DEF Framing!ReaderIdle
<1>9. n + 1 <= Len(framesSent')
  BY <1>2, <1>5
<1>10. ReaderInv(fs, b)'
  BY <1>6, <1>7, <1>8, <1>9 DEF ReaderInv
<1>11. Steps
  BY <1>2, <1>4, ChannelReceives
<1>12. QED
  BY <1>1, <1>10, <1>11 DEF FrameInv, FrameState

\* What ReadHeader does with the bytes of a header read so far.
OnHeader(buf) ==
  IF Len(buf) < 5
  THEN r' = [r EXCEPT !.buf = buf] /\ framesRead' = framesRead
  ELSE IF Framing!Uint32(SubSeq(buf, 2, 5)) = 0
  THEN Framing!Deliver(buf[1], <<>>)
  ELSE /\ r' = [step |-> "payload", buf |-> <<>>, type |-> buf[1],
                length |-> Framing!Uint32(SubSeq(buf, 2, 5))]
       /\ framesRead' = framesRead

LEMMA ReadHeaderStep == ASSUME FrameInv, Framing!ReadHeader PROVE FrameInv' /\ Steps
<1>1. PICK fs, b : FrameState(fs, b)
  BY DEF FrameInv
<1>2. r.step = "header" /\ UNCHANGED <<w, framesSent>>
  BY DEF Framing!ReadHeader
<1>3. PICK k \in 1..(5 - Len(r.buf)) :
        Framing!Read(5 - Len(r.buf), k) /\ OnHeader(r.buf \o Framing!Upcoming(k))
  BY DEF Framing!ReadHeader, Framing!frameHeaderSize, OnHeader
<1>4. PICK buf : buf = r.buf \o Framing!Upcoming(k) /\ OnHeader(buf)
  BY <1>3
<1>5. taken' = taken + k /\ taken + k <= Len(wire) /\ UNCHANGED <<wire, dead>>
  BY <1>3 DEF Framing!Read
<1>6. Layout(fs, b)' /\ WireInv(fs, b)' /\ SentInv(fs, b)' /\ WriterInv(fs, b)'
  BY <1>1, <1>2, <1>5, WriterKept
<1>7. PICK n \in Nat : n = Len(framesRead) /\ n <= Len(framesSent)
  BY <1>1 DEF FrameState, ReaderInv
<1>8. /\ r \in [step : {"idle", "header", "payload", "failed"}, buf : Seq(Byte), type : Byte,
                length : Nat]
      /\ framesRead \in Seq(Sendable) /\ taken \in Nat
      /\ taken = b[n] + Len(r.buf) /\ Len(r.buf) < 5
      /\ \A i \in 1..Len(r.buf) : r.buf[i] = wire[b[n] + i]
  BY <1>1, <1>2, <1>7 DEF FrameState, ReaderInv
<1>9. PICK q : q = r.buf /\ q \in Seq(Byte) /\ Len(q) < 5
  BY <1>8
<1>10. PICK a \in Nat : a = b[n]
  <2>1. Layout(fs, b) /\ SentInv(fs, b) /\ Len(fs) \in Nat /\ Len(framesSent) \in Nat
    BY <1>1 DEF FrameState, Layout, SentInv
  <2>2. n \in 0..Len(fs)
    BY <1>7, <2>1 DEF SentInv
  <2>3. QED
    BY <2>1, <2>2 DEF Layout
<1>11. PICK v : v = wire /\ v \in Seq(Byte)
  BY <1>1 DEF FrameState, WireInv, Shows
<1>12. PICK t \in Nat : t = taken /\ t = a + Len(q)
  BY <1>8, <1>9, <1>10
<1>13. k \in Nat /\ k <= 5 - Len(q) /\ Len(q) \in Nat
  BY <1>9
<1>14. Taken(buf, v, a) /\ Len(buf) = Len(q) + k
  <2>1. Taken(q, v, a)
    BY <1>8, <1>9, <1>10, <1>11 DEF Taken
  <2>2. buf = q \o SubSeq(v, t + 1, t + k)
    BY <1>4, <1>9, <1>11, <1>12 DEF Framing!Upcoming
  <2>3. t + k <= Len(v)
    BY <1>5, <1>11, <1>12
  <2>4. ReadMore(q, buf, v, a, t, k)
    BY <1>11, <1>12, <1>13, <2>1, <2>2, <2>3 DEF ReadMore
  <2>5. QED
    BY <2>4, TakeMore DEF HasMore
<1>15. buf \in Seq(Byte) /\ Len(buf) \in Nat /\ \A i \in 1..Len(buf) : buf[i] = wire[a + i]
  BY <1>11, <1>14 DEF Taken
<1>16. taken' \in Nat /\ taken' <= Len(wire) /\ taken' = a + Len(buf)
  BY <1>5, <1>12, <1>13, <1>14
<1>17. CASE Len(buf) < 5
  <2>1. r' = [r EXCEPT !.buf = buf] /\ framesRead' = framesRead
    BY <1>4, <1>17 DEF OnHeader
  <2>2. /\ r' \in [step : {"idle", "header", "payload", "failed"}, buf : Seq(Byte), type : Byte,
                   length : Nat]
        /\ r'.step = "header" /\ r'.buf = buf
    BY <1>2, <1>8, <1>15, <2>1
  <2>3. ReaderInv(fs, b)'
    BY <1>2, <1>5, <1>7, <1>8, <1>10, <1>15, <1>16, <1>17, <2>1, <2>2 DEF ReaderInv
  <2>4. FrameInv'
    BY <1>6, <2>3 DEF FrameInv, FrameState
  <2>5. QED
    BY <1>2, <1>5, <2>1, <2>4, ChannelStutters
<1>18. CASE ~(Len(buf) < 5)
  <2>1. Len(buf) = 5
    BY <1>13, <1>14, <1>18
  <2>2. taken' = a + 5 /\ a + 5 <= Len(wire) /\ Len(wire) \in Nat
    BY <1>11, <1>16, <2>1
  <2>3. PICK f : f = fs[n + 1] /\ InFrame(fs, b, n, f)
    <3>1. b[n] < Len(wire)
      BY <1>10, <2>2
    <3>2. QED
      BY <1>1, <1>7, <3>1, NextFrame DEF FrameState
  <2>4. /\ f \in Sendable /\ n < Len(fs)
        /\ \A i \in 1..Size(f) : a + i <= Len(wire) => wire[a + i] = Bytes(f)[i]
    BY <1>10, <2>3 DEF InFrame
  <2>5. Len(f.payload) \in Nat /\ Size(f) = 5 + Len(f.payload)
    BY <2>4, BytesOf DEF Size
  <2>6. \A i \in 1..5 : buf[i] = Bytes(f)[i]
    <3>1. TAKE i \in 1..5
    <3>2. i \in 1..Size(f)
      BY <2>5
    <3>3. a + i <= Len(wire)
      BY <2>2
    <3>4. QED
      BY <1>15, <2>1, <2>4, <3>2, <3>3
  <2>7. buf[1] = f.type /\ Framing!Uint32(SubSeq(buf, 2, 5)) = Len(f.payload)
    BY <1>15, <2>1, <2>4, <2>6, HeaderRead
  <2>8. f \in Framing!Frames /\ f.payload \in Seq(Byte) /\ f.type \in Byte
    BY <2>4, PayloadType DEF Sendable, Byte
  <2>9. CASE Len(f.payload) = 0
    <3>1. f.payload = <<>>
      BY <2>8, <2>9, EmptySeq
    <3>2. Framing!Deliver(f.type, f.payload)
      BY <1>4, <1>18, <2>7, <2>9, <3>1 DEF OnHeader
    <3>3. taken' = b[n] + Size(f)
      BY <1>10, <2>2, <2>5, <2>9
    <3>4. QED
      BY <1>1, <1>2, <1>5, <1>7, <1>16, <2>3, <3>2, <3>3, DeliverStep
  <2>10. CASE Len(f.payload) # 0
    <3>1. /\ r' = [step |-> "payload", buf |-> <<>>, type |-> f.type, length |-> Len(f.payload)]
          /\ framesRead' = framesRead
      BY <1>4, <1>18, <2>7, <2>10 DEF OnHeader
    <3>2. <<>> \in Seq(Byte) /\ Len(<<>>) = 0 /\ 1..0 = {}
      OBVIOUS
    <3>3. /\ r' \in [step : {"idle", "header", "payload", "failed"}, buf : Seq(Byte), type : Byte,
                     length : Nat]
          /\ r'.step = "payload" /\ Len(r'.buf) = 0 /\ r'.type = f.type
          /\ r'.length = Len(f.payload)
      BY <2>5, <2>8, <3>1, <3>2
    <3>4. taken' = b[n] + 5 + Len(r'.buf) /\ Len(r'.buf) < r'.length
      BY <1>10, <2>2, <2>5, <2>10, <3>3
    <3>5. ReaderInv(fs, b)'
      BY <1>2, <1>5, <1>7, <1>8, <1>16, <2>3, <2>4, <3>1, <3>2, <3>3, <3>4 DEF ReaderInv
    <3>6. FrameInv'
      BY <1>6, <3>5 DEF FrameInv, FrameState
    <3>7. QED
      BY <1>2, <1>5, <3>1, <3>6, ChannelStutters
  <2>11. QED
    BY <2>9, <2>10
<1>19. QED
  BY <1>17, <1>18

LEMMA Regroup ==
  ASSUME NEW x \in Nat, NEW a, a = x + 5, NEW i \in Nat
  PROVE  x + 5 + i = a + i /\ x + (5 + i) = a + i
OBVIOUS

LEMMA PayloadPlace ==
  ASSUME NEW x \in Nat, NEW a, a = x + 5, NEW l \in Nat, NEW z \in Nat, a + l <= z, NEW i \in 1..l
  PROVE  \E j \in 1..5 + l : j = 5 + i /\ x + j = a + i /\ x + j <= z
<1>1. PICK j \in 1..5 + l : j = 5 + i
  OBVIOUS
<1>2. x + j = a + i
  BY <1>1
<1>3. a + i <= z
  OBVIOUS
<1>4. QED
  BY <1>1, <1>2, <1>3

\* buf holds as many bytes as the payload of frame f has, from where it begins.
PayloadHeld(fs, b, n, f, a, l, buf) ==
  /\ InFrame(fs, b, n, f) /\ a = b[n] + 5 /\ l \in Nat /\ l = Len(f.payload)
  /\ Taken(buf, wire, a) /\ Len(buf) = l /\ wire \in Seq(Byte) /\ a + l <= Len(wire)

LEMMA PayloadRead ==
  ASSUME NEW fs, NEW b, NEW n, NEW f, NEW a, NEW l, NEW buf, PayloadHeld(fs, b, n, f, a, l, buf)
  PROVE  buf = f.payload
<1>1. PICK x \in Nat : x = b[n] /\ a = x + 5
  BY DEF PayloadHeld, InFrame
<1>2. PICK z \in Nat : z = Len(wire) /\ a + l <= z /\ l \in Nat
  BY DEF PayloadHeld
<1>3. f \in Sendable /\ \A i \in 1..Size(f) : x + i <= z => wire[x + i] = Bytes(f)[i]
  BY <1>1, <1>2 DEF PayloadHeld, InFrame
<1>4. Size(f) = 5 + l /\ \A i \in 1..l : Bytes(f)[5 + i] = f.payload[i]
  BY <1>3, BytesOf DEF PayloadHeld, Size
<1>5. f.payload \in Seq(Byte)
  BY <1>3, PayloadType DEF Sendable
<1>6. buf \in Seq(Byte) /\ Len(buf) = l /\ \A i \in 1..l : buf[i] = wire[a + i]
  BY DEF PayloadHeld, Taken
<1>7. ASSUME NEW i \in 1..l
      PROVE  buf[i] = f.payload[i]
  <2>1. PICK j \in 1..5 + l : j = 5 + i /\ x + j = a + i /\ x + j <= z
    BY <1>1, <1>2, PayloadPlace
  <2>2. wire[x + j] = Bytes(f)[j]
    BY <1>3, <1>4, <2>1
  <2>3. Bytes(f)[j] = f.payload[i]
    BY <1>4, <2>1
  <2>4. buf[i] = wire[x + j]
    BY <1>6, <2>1
  <2>5. QED
    BY <2>2, <2>3, <2>4
<1>8. Len(buf) = Len(f.payload)
  BY <1>6 DEF PayloadHeld
<1>9. QED
  BY <1>5, <1>6, <1>7, <1>8, SeqEqual

\* What ReadPayload does with the bytes of a payload read so far.
OnPayload(buf) ==
  IF Len(buf) < r.length
  THEN r' = [r EXCEPT !.buf = buf] /\ framesRead' = framesRead
  ELSE Framing!Deliver(r.type, buf)

LEMMA ReadPayloadStep == ASSUME FrameInv, Framing!ReadPayload PROVE FrameInv' /\ Steps
<1>1. PICK fs, b : FrameState(fs, b)
  BY DEF FrameInv
<1>2. r.step = "payload" /\ UNCHANGED <<w, framesSent>>
  BY DEF Framing!ReadPayload
<1>3. PICK k \in 1..(r.length - Len(r.buf)) :
        Framing!Read(r.length - Len(r.buf), k) /\ OnPayload(r.buf \o Framing!Upcoming(k))
  BY DEF Framing!ReadPayload, OnPayload
<1>4. PICK buf : buf = r.buf \o Framing!Upcoming(k) /\ OnPayload(buf)
  BY <1>3
<1>5. taken' = taken + k /\ taken + k <= Len(wire) /\ UNCHANGED <<wire, dead>>
  BY <1>3 DEF Framing!Read
<1>6. Layout(fs, b)' /\ WireInv(fs, b)' /\ SentInv(fs, b)' /\ WriterInv(fs, b)'
  BY <1>1, <1>2, <1>5, WriterKept
<1>7. PICK n \in Nat : n = Len(framesRead) /\ n <= Len(framesSent)
  BY <1>1 DEF FrameState, ReaderInv
<1>8. /\ r \in [step : {"idle", "header", "payload", "failed"}, buf : Seq(Byte), type : Byte,
                length : Nat]
      /\ framesRead \in Seq(Sendable) /\ taken \in Nat
      /\ n < Len(fs) /\ r.type = fs[n + 1].type /\ r.length = Len(fs[n + 1].payload)
      /\ Len(r.buf) < r.length /\ taken = b[n] + 5 + Len(r.buf)
      /\ \A i \in 1..Len(r.buf) : r.buf[i] = wire[b[n] + 5 + i]
  BY <1>1, <1>2, <1>7 DEF FrameState, ReaderInv
<1>9. PICK f : f = fs[n + 1] /\ InFrame(fs, b, n, f)
  BY <1>1, <1>7, <1>8, NextFrame DEF FrameState
<1>10. PICK a \in Nat : a = b[n] + 5
  BY <1>9 DEF InFrame
<1>11. PICK l \in Nat : l = r.length /\ l = Len(f.payload)
  BY <1>8, <1>9
<1>12. PICK q : q = r.buf /\ q \in Seq(Byte) /\ Len(q) \in Nat /\ Len(q) < l
  BY <1>8, <1>11
<1>13. PICK v : v = wire /\ v \in Seq(Byte)
  BY <1>1 DEF FrameState, WireInv, Shows
<1>14. PICK t \in Nat : t = taken /\ t = a + Len(q)
  BY <1>8, <1>10, <1>12
<1>15. k \in Nat /\ k <= l - Len(q)
  BY <1>11, <1>12
<1>16. Taken(buf, v, a) /\ Len(buf) = Len(q) + k
  <2>1. Taken(q, v, a)
    BY <1>8, <1>10, <1>12, <1>13 DEF Taken
  <2>2. buf = q \o SubSeq(v, t + 1, t + k)
    BY <1>4, <1>12, <1>13, <1>14 DEF Framing!Upcoming
  <2>3. t + k <= Len(v)
    BY <1>5, <1>13, <1>14
  <2>4. ReadMore(q, buf, v, a, t, k)
    BY <1>13, <1>14, <1>15, <2>1, <2>2, <2>3 DEF ReadMore
  <2>5. QED
    BY <2>4, TakeMore DEF HasMore
<1>17. buf \in Seq(Byte) /\ Len(buf) \in Nat /\ \A i \in 1..Len(buf) : buf[i] = wire[a + i]
  BY <1>13, <1>16 DEF Taken
<1>18. taken' \in Nat /\ taken' <= Len(wire) /\ taken' = a + Len(buf)
  BY <1>5, <1>12, <1>14, <1>15, <1>16
<1>19. CASE Len(buf) < r.length
  <2>1. r' = [r EXCEPT !.buf = buf] /\ framesRead' = framesRead
    BY <1>4, <1>19 DEF OnPayload
  <2>2. /\ r' \in [step : {"idle", "header", "payload", "failed"}, buf : Seq(Byte), type : Byte,
                   length : Nat]
        /\ r'.step = "payload" /\ r'.buf = buf /\ r'.type = r.type /\ r'.length = r.length
    BY <1>2, <1>8, <1>17, <2>1
  <2>3. taken' = b[n] + 5 + Len(buf) /\ \A i \in 1..Len(buf) : buf[i] = wire[b[n] + 5 + i]
    BY <1>10, <1>17, <1>18
  <2>4. ReaderInv(fs, b)'
    BY <1>2, <1>5, <1>7, <1>8, <1>18, <1>19, <2>1, <2>2, <2>3 DEF ReaderInv
  <2>5. FrameInv'
    BY <1>6, <2>4 DEF FrameInv, FrameState
  <2>6. QED
    BY <1>2, <1>5, <2>1, <2>5, ChannelStutters
<1>20. CASE ~(Len(buf) < r.length)
  <2>1. Len(buf) = l
    BY <1>11, <1>12, <1>15, <1>16, <1>20
  <2>2. buf = f.payload
    <3>1. a + l <= Len(wire) /\ wire \in Seq(Byte)
      BY <1>13, <1>18, <2>1
    <3>2. PayloadHeld(fs, b, n, f, a, l, buf)
      BY <1>9, <1>10, <1>11, <1>13, <1>16, <2>1, <3>1 DEF PayloadHeld
    <3>3. QED
      BY <3>2, PayloadRead
  <2>3. Framing!Deliver(f.type, f.payload)
    BY <1>4, <1>8, <1>9, <1>20, <2>2 DEF OnPayload
  <2>4. taken' = b[n] + Size(f)
    <3>1. PICK x \in Nat : x = b[n]
      BY <1>9 DEF InFrame
    <3>2. a = x + 5 /\ taken' = a + l /\ Size(f) = 5 + l
      BY <1>10, <1>11, <1>18, <2>1, <3>1 DEF Size
    <3>3. x + (5 + l) = a + l
      BY <3>2, Regroup
    <3>4. QED
      BY <3>1, <3>2, <3>3
  <2>5. QED
    BY <1>1, <1>2, <1>5, <1>7, <1>9, <1>18, <2>3, <2>4, DeliverStep
<1>21. QED
  BY <1>19, <1>20

-----------------------------------------------------------------------------
(* Frames: the stream implements the channel, whatever it carries.          *)

LEMMA FramingStep == ASSUME FrameInv, Framing!Next PROVE FrameInv' /\ Steps
BY WriteFrameStep, WriteHeaderStep, WritePayloadStep, FrameCloseStep, ReadFrameStep,
   ReadHeaderStep, ReadPayloadStep, ReadFrameFailsStep
   DEF Framing!Next, Framing!Writer, Framing!Reader

LEMMA FrameUnchanged ==
  ASSUME FrameInv, UNCHANGED <<wire, taken, dead, w, r, framesSent, framesRead>>
  PROVE  FrameInv'
<1>1. PICK fs, b : FrameState(fs, b)
  BY DEF FrameInv
<1>2. Layout(fs, b)' /\ WireInv(fs, b)' /\ SentInv(fs, b)' /\ ReaderInv(fs, b)'
  BY <1>1, StateKept
<1>3. WriterInv(fs, b)'
  BY <1>1, WriterKept
<1>4. QED
  BY <1>2, <1>3 DEF FrameInv, FrameState

\* A raw transfer may only break the stream.
LEMMA CopyingKeepsFrames ==
  ASSUME dead \in BOOLEAN, Copying!Next
  PROVE  dead' = dead \/ dead' = TRUE
<1>1. ASSUME Copying!WriteChunk PROVE dead' = dead \/ dead' = TRUE
  <2>1. PICK err \in BOOLEAN : dead' = (dead \/ err)
    BY <1>1 DEF Copying!WriteChunk, Copying!Write
  <2>2. QED
    BY <2>1, Zenon
<1>2. ASSUME NEW chunkSize, Copying!WriteFrom(chunkSize) PROVE dead' = dead
  BY <1>2 DEF Copying!WriteFrom, Copying!quicVars
<1>3. ASSUME Copying!ReadSource \/ Copying!ReadTo \/ Copying!CopyEnds PROVE dead' = dead
  BY <1>3 DEF Copying!ReadSource, Copying!ReadTo, Copying!CopyEnds, Copying!ReadFails,
              Copying!quicVars
<1>4. ASSUME Copying!Close \/ Copying!CopyChunk PROVE dead' = dead
  BY <1>4 DEF Copying!Close, Copying!CloseWrite, Copying!CopyChunk, Copying!Read
<1>5. QED
  BY <1>1, <1>2, <1>3, <1>4 DEF Copying!Next

StreamInv == dead \in BOOLEAN /\ (use = "frames" => FrameInv)

LEMMA StreamStep == ASSUME StreamInv, [Next]_vars PROVE StreamInv' /\ Steps
<1>0. dead \in BOOLEAN
  BY DEF StreamInv
<1>1. CASE UNCHANGED vars
  <2>1. UNCHANGED <<use, wire, taken, dead, w, r, framesSent, framesRead>>
    BY <1>1 DEF vars, quic, framing
  <2>2. use' = "frames" => FrameInv'
    BY <2>1, FrameUnchanged DEF StreamInv
  <2>3. dead' \in BOOLEAN
    BY <1>0, <2>1
  <2>4. QED
    BY <2>1, <2>2, <2>3, ChannelStutters DEF StreamInv
<1>2. CASE CarriesFrames /\ Framing!Next
  <2>1. FrameInv
    BY <1>2 DEF StreamInv, CarriesFrames
  <2>2. FrameInv' /\ Steps
    BY <1>2, <2>1, FramingStep
  <2>3. dead' \in BOOLEAN
    BY <2>2 DEF FrameInv, FrameState, WriterInv
  <2>4. QED
    BY <2>2, <2>3 DEF StreamInv
<1>3. CASE CarriesTransfer /\ Copying!Next
  <2>1. use' # "frames" /\ UNCHANGED <<framesSent, framesRead>>
    BY <1>3 DEF CarriesTransfer, framing
  <2>2. CASE dead' = dead
    BY <1>0, <2>1, <2>2, ChannelStutters DEF StreamInv
  <2>3. CASE dead' = TRUE
    <3>1. PICK f : f \in Framing!Frames
      <4>1. PICK type \in Types, l \in Lengths : TRUE
        BY FramesAssumption
      <4>2. [type |-> type, payload |-> Framing!Payload(l)] \in Framing!Frames
        BY DEF Framing!Frames
      <4>3. QED
        BY <4>2
    <3>2. QED
      BY <2>1, <2>3, <3>1, ChannelFails DEF StreamInv
  <2>4. QED
    BY <1>0, <1>3, <2>2, <2>3, CopyingKeepsFrames
<1>4. CASE CarriesUpdates /\ Updating!Next
  <2>1. use' # "frames" /\ UNCHANGED <<dead, framesSent, framesRead>>
    BY <1>4 DEF CarriesUpdates, framing, quic
  <2>2. QED
    BY <1>0, <2>1, ChannelStutters DEF StreamInv
<1>5. QED
  BY <1>1, <1>2, <1>3, <1>4 DEF Next

\* What ReadFrame returns are the frames WriteFrame wrote, whole and in order, for every
\* byte base, every set of payload lengths, however Read cuts the bytes up and wherever a
\* write fails: a torn frame is never read as another one (stream.go WriteFrame, ReadFrame).
THEOREM FrameChannelTheorem == Spec => ImplementsFrameChannel
<1>1. Init => StreamInv /\ Framing!Channel!Init
  <2> SUFFICES ASSUME Init PROVE StreamInv /\ Framing!Channel!Init
    OBVIOUS
  <2>1. FrameInv
    BY FrameInit
  <2>2. framesSent = <<>> /\ framesRead = <<>> /\ dead = FALSE
    BY DEF Init, Framing!Init, Framing!QuicInit
  <2>3. QED
    BY <2>1, <2>2 DEF StreamInv, Framing!Channel!Init
<1>2. StreamInv /\ [Next]_vars => StreamInv' /\ [Framing!Channel!Next]_(Framing!Channel!channelVars)
  BY StreamStep DEF Steps
<1>3. QED
  BY <1>1, <1>2, PTL DEF Spec, ImplementsFrameChannel, Framing!ImplementsFrameChannel,
     Framing!Channel!Spec

=============================================================================
