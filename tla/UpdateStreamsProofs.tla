------------------------ MODULE UpdateStreamsProofs -------------------------
(***************************************************************************)
(* Proofs about the update streams of a connection, for any number of      *)
(* streams, calls, frames of the client and logins of the session.         *)
(***************************************************************************)
EXTENDS UpdateStreams, FiniteSetTheorems, TLAPS

-----------------------------------------------------------------------------
(* Types. *)

AnyFrame == {Update(seq, end) : seq \in Nat, end \in BOOLEAN} \cup {Response, Garbled}

Channels == {Up(s) : s \in Streams} \cup {Down(s) : s \in Streams}

ContextRecord ==
  [step : {"open", "handler", "write", "read", "return", "left", "closed"}, nextSeq : Nat,
   ended : BOOLEAN, end : BOOLEAN, err : {"nil", "other", "revoked"}, calls : Nat]

Typed ==
  /\ kind \in [Streams -> {"server", "client"}]
  /\ revoked \in BOOLEAN
  /\ ctx \in [Streams -> ContextRecord]
  /\ sent \in [Channels -> Seq(AnyFrame)]
  /\ received \in [Channels -> Seq(AnyFrame)]
  /\ broken \in [Channels -> BOOLEAN]
  /\ accepted \in [Streams -> Seq(AnyFrame)]

LEMMA FrameTypes ==
  /\ ClientFrames \subseteq AnyFrame
  /\ Response \in AnyFrame
  /\ \A seq \in Nat, end \in BOOLEAN : Update(seq, end) \in AnyFrame
BY DEF ClientFrames, AnyFrame

LEMMA ChannelNames ==
  ASSUME NEW s \in Streams, NEW t \in Streams
  PROVE  /\ Up(s) \in Channels /\ Down(s) \in Channels
         /\ Up(s) # Down(t)
         /\ Down(s) = Down(t) => s = t
<1>1. Up(s)[2] = "up" /\ Down(t)[2] = "down" /\ Down(s)[1] = s /\ Down(t)[1] = t
  BY DEF Up, Down
<1>2. QED
  BY <1>1 DEF Channels

\* What a write, whole or failed, does to the channels.
Writes(ch, f) ==
  /\ sent' = sent \/ (~broken[ch] /\ sent' = [sent EXCEPT ![ch] = Append(@, f)])
  /\ broken' = broken \/ broken' = [broken EXCEPT ![ch] = TRUE]
  /\ received' = received

LEMMA WriteEffect ==
  ASSUME NEW ch, NEW f, Channel!Send(ch, f) \/ Channel!SendFails(ch, f)
  PROVE  Writes(ch, f)
BY DEF Channel!Send, Channel!SendFails, Writes

LEMMA WritesTyped ==
  ASSUME Typed, NEW ch \in Channels, NEW f \in AnyFrame, Writes(ch, f)
  PROVE  /\ sent' \in [Channels -> Seq(AnyFrame)] /\ received' \in [Channels -> Seq(AnyFrame)]
         /\ broken' \in [Channels -> BOOLEAN]
<1>1. Append(sent[ch], f) \in Seq(AnyFrame)
  BY DEF Typed
<1>2. sent' \in [Channels -> Seq(AnyFrame)]
  <2>1. CASE sent' = sent
    BY <2>1 DEF Typed
  <2>2. CASE sent' = [sent EXCEPT ![ch] = Append(@, f)]
    BY <1>1, <2>2 DEF Typed
  <2>3. QED
    BY <2>1, <2>2 DEF Writes
<1>3. broken' \in [Channels -> BOOLEAN] /\ received' \in [Channels -> Seq(AnyFrame)]
  BY DEF Typed, Writes
<1>4. QED
  BY <1>2, <1>3

Errs == {"nil", "other", "revoked"}

Steps == {"open", "handler", "write", "read", "return", "left", "closed"}

LEMMA ContextFields ==
  ASSUME NEW c \in ContextRecord
  PROVE  /\ c.nextSeq \in Nat /\ c.nextSeq + 1 \in Nat /\ c.calls + 1 \in Nat
         /\ c.end \in BOOLEAN
BY DEF ContextRecord

-----------------------------------------------------------------------------
(* What a step does, as one stream sees it.                                 *)

SameView(s) ==
  /\ ctx'[s].nextSeq = ctx[s].nextSeq /\ ctx'[s].ended = ctx[s].ended
  /\ accepted'[s] = accepted[s]
  /\ sent'[Down(s)] \in {sent[Down(s)], Append(sent[Down(s)], Response)}
  /\ broken[Down(s)] => broken'[Down(s)]

WritesUpdate(s) ==
  /\ ctx[s].step = "write"
  /\ accepted'[s] = accepted[s]
  /\ ~broken[Down(s)]
  /\ sent'[Down(s)] = Append(sent[Down(s)], Update(ctx[s].nextSeq, ctx[s].end))
  /\ \/ broken'[Down(s)]
     \/ ctx'[s].nextSeq = ctx[s].nextSeq + 1 /\ ctx'[s].ended = ctx[s].end

AcceptsUpdate(s) ==
  /\ ctx[s].step = "read"
  /\ sent'[Down(s)] = sent[Down(s)]
  /\ \E f \in AnyFrame :
       /\ f.kind = "update" /\ f.seq = ctx[s].nextSeq
       /\ accepted'[s] = Append(accepted[s], f)
       /\ ctx'[s].nextSeq = ctx[s].nextSeq + 1 /\ ctx'[s].ended = f.end

\* A call gets under way only on an open stream of a session in use.
EntersOpen(s) ==
  ctx'[s].step \in {"write", "read"} =>
    ctx'[s] = ctx[s] \/ (~ctx'[s].ended /\ ~revoked)

View(s) ==
  /\ EntersOpen(s)
  /\ \/ SameView(s)
     \/ kind[s] = "server" /\ WritesUpdate(s)
     \/ kind[s] = "client" /\ AcceptsUpdate(s)

\* The other streams do not see a step of t, whatever it does to t's channel.
LEMMA OtherViews ==
  ASSUME Typed, NEW t \in Streams, NEW r, NEW s \in Streams, s # t,
         ctx' = [ctx EXCEPT ![t] = r], NEW f,
         UNCHANGED channelVars \/ Writes(Down(t), f),
         accepted'[s] = accepted[s]
  PROVE  View(s)
<1>1. ctx'[s] = ctx[s]
  BY DEF Typed
<1>2. Down(s) \in Channels /\ Down(t) \in Channels /\ Down(s) # Down(t)
  BY ChannelNames
<1>3. sent'[Down(s)] = sent[Down(s)] /\ broken'[Down(s)] = broken[Down(s)]
  BY <1>2 DEF Typed, Writes, channelVars
<1>4. QED
  BY <1>1, <1>3 DEF View, EntersOpen, SameView

\* A step that writes no update to the channel of its stream.
LEMMA QuietStep ==
  ASSUME Typed, NEW t \in Streams, NEW r \in ContextRecord, ctx' = [ctx EXCEPT ![t] = r],
         UNCHANGED <<kind, revoked, accepted>>,
         UNCHANGED channelVars \/ Writes(Down(t), Response),
         r.nextSeq = ctx[t].nextSeq, r.ended = ctx[t].ended,
         r.step \in {"write", "read"} => ~ctx[t].ended /\ ~revoked
  PROVE  Typed' /\ \A s \in Streams : View(s)
<1>1. Down(t) \in Channels
  BY ChannelNames
<1>2. Typed'
  <2>1. ctx' \in [Streams -> ContextRecord]
    BY DEF Typed
  <2>2. CASE UNCHANGED channelVars
    BY <2>1, <2>2 DEF Typed, channelVars
  <2>3. CASE Writes(Down(t), Response)
    BY <1>1, <2>1, <2>3, WritesTyped, FrameTypes DEF Typed
  <2>4. QED
    BY <2>2, <2>3
<1>3. View(t)
  <2>1. ctx'[t] = r
    BY DEF Typed
  <2>2. /\ sent'[Down(t)] \in {sent[Down(t)], Append(sent[Down(t)], Response)}
        /\ broken[Down(t)] => broken'[Down(t)]
    BY <1>1 DEF Typed, Writes, channelVars
  <2>3. QED
    BY <2>1, <2>2 DEF View, EntersOpen, SameView
<1>4. QED
  BY <1>2, <1>3, OtherViews

\* A step that touches no context.
LEMMA OutsideStep ==
  ASSUME Typed, UNCHANGED <<kind, ctx, accepted>>, revoked' \in BOOLEAN,
         \/ UNCHANGED channelVars
         \/ \E t \in Streams, f \in AnyFrame : Writes(Up(t), f)
  PROVE  Typed' /\ \A s \in Streams : View(s)
<1>1. CASE UNCHANGED channelVars
  BY <1>1 DEF Typed, channelVars, View, EntersOpen, SameView
<1>2. ASSUME NEW t \in Streams, NEW f \in AnyFrame, Writes(Up(t), f)
      PROVE  Typed' /\ \A s \in Streams : View(s)
  <2>1. Up(t) \in Channels
    BY ChannelNames
  <2>2. Typed'
    BY <1>2, <2>1, WritesTyped DEF Typed
  <2>3. ASSUME NEW s \in Streams
        PROVE  sent'[Down(s)] = sent[Down(s)] /\ broken'[Down(s)] = broken[Down(s)]
    <3>1. Down(s) \in Channels /\ Down(s) # Up(t)
      BY ChannelNames
    <3>2. QED
      BY <1>2, <3>1 DEF Typed, Writes
  <2>4. QED
    BY <2>2, <2>3 DEF View, EntersOpen, SameView
<1>3. QED
  BY <1>1, <1>2


\* The steps that move no update.
LEMMA PlainSteps ==
  ASSUME Typed, NEW t \in Streams,
         \/ Open(t) \/ SendResponse(t) \/ Finish(t) \/ NextUpdate(t) \/ ReadUpdateFails(t)
         \/ \E err \in Errs : Return(t, err)
         \/ \E end \in BOOLEAN : SendUpdate(t, end)
  PROVE  Typed' /\ \A s \in Streams : View(s)
<1> DEFINE c == ctx[t]
<1>1. c \in ContextRecord /\ c.calls + 1 \in Nat
  BY ContextFields DEF Typed
<1>2. UNCHANGED <<kind, revoked, accepted>>
  BY DEF Open, SendResponse, Finish, NextUpdate, ReadUpdateFails, Return, SendUpdate
<1>3. ASSUME NEW r \in ContextRecord, ctx' = [ctx EXCEPT ![t] = r],
             UNCHANGED channelVars \/ Writes(Down(t), Response),
             r.nextSeq = c.nextSeq, r.ended = c.ended,
             r.step \in {"write", "read"} => ~c.ended /\ ~revoked
      PROVE  Typed' /\ \A s \in Streams : View(s)
  BY <1>2, <1>3, QuietStep
<1>4. ASSUME NEW e \in Errs, NEW step \in Steps, step \notin {"write", "read"},
             ctx' = [ctx EXCEPT ![t].step = step, ![t].err = e],
             UNCHANGED channelVars \/ Writes(Down(t), Response)
      PROVE  Typed' /\ \A s \in Streams : View(s)
  <2> DEFINE r == [c EXCEPT !.step = step, !.err = e]
  <2>0. r \in ContextRecord
    BY <1>1 DEF ContextRecord, Steps, Errs
  <2>1. r.nextSeq = c.nextSeq /\ r.ended = c.ended /\ r.step = step
    BY <1>1 DEF ContextRecord
  <2>2. ctx' = [ctx EXCEPT ![t] = r]
    BY <1>4 DEF Typed
  <2> HIDE DEF r, c
  <2>3. QED
    BY <1>3, <1>4, <2>0, <2>1, <2>2
<1>5. ASSUME NEW e \in Errs, Returns(t, e), Called(t),
             UNCHANGED channelVars \/ Writes(Down(t), Response)
      PROVE  Typed' /\ \A s \in Streams : View(s)
  <2>0. PICK n \in Nat : n = c.calls + 1
    BY <1>1
  <2> DEFINE r == [c EXCEPT !.calls = n, !.err = e]
  <2>5. r \in ContextRecord
    BY <1>1 DEF ContextRecord, Steps, Errs
  <2>1. r.nextSeq = c.nextSeq /\ r.ended = c.ended /\ r.step = c.step
    BY <1>1 DEF ContextRecord
  <2>2. ctx' = [ctx EXCEPT ![t] = r]
    BY <1>5, <2>0 DEF Typed, Returns
  <2>3. c.step = "handler"
    BY <1>5 DEF Called
  <2> HIDE DEF r, c
  <2>4. QED
    BY <1>3, <1>5, <2>1, <2>2, <2>3, <2>5
<1>6. ASSUME NEW step \in {"write", "read"}, NEW end \in BOOLEAN, ~c.ended, ~revoked,
             \/ ctx' = [ctx EXCEPT ![t].calls = @ + 1, ![t].step = step, ![t].end = end]
             \/ ctx' = [ctx EXCEPT ![t].calls = @ + 1, ![t].step = step],
             UNCHANGED channelVars
      PROVE  Typed' /\ \A s \in Streams : View(s)
  <2>0. PICK n \in Nat : n = c.calls + 1
    BY <1>1
  <2> DEFINE r == [c EXCEPT !.calls = n, !.step = step, !.end = end]
             q == [c EXCEPT !.calls = n, !.step = step]
  <2>1. r \in ContextRecord
    BY <1>1 DEF ContextRecord
  <2>2. q \in ContextRecord
    BY <1>1 DEF ContextRecord
  <2>5. r.nextSeq = c.nextSeq /\ r.ended = c.ended
    BY <1>1 DEF ContextRecord
  <2>6. q.nextSeq = c.nextSeq /\ q.ended = c.ended
    BY <1>1 DEF ContextRecord
  <2>3. ctx' = [ctx EXCEPT ![t] = r] \/ ctx' = [ctx EXCEPT ![t] = q]
    BY <1>6, <2>0 DEF Typed
  <2> HIDE DEF r, q, c
  <2>4. QED
    BY <1>3, <1>6, <2>1, <2>2, <2>3, <2>5, <2>6
<1>7. CASE Open(t)
  BY <1>4, <1>7 DEF Open, Back, Errs, Steps
<1>8. CASE SendResponse(t)
  BY <1>5, <1>8, WriteEffect DEF SendResponse, Errs
<1>9. CASE Finish(t)
  <2>0. PICK step \in {"left", "closed"} : step = IF c.err = "nil" THEN "left" ELSE "closed"
    OBVIOUS
  <2> DEFINE r == [c EXCEPT !.step = step]
  <2>5. r \in ContextRecord
    BY <1>1 DEF ContextRecord
  <2>1. r.nextSeq = c.nextSeq /\ r.ended = c.ended /\ r.step \notin {"write", "read"}
    BY <1>1 DEF ContextRecord
  <2>2. ctx' = [ctx EXCEPT ![t] = r]
    BY <1>9, <2>0 DEF Finish, Typed
  <2>3. UNCHANGED channelVars \/ Writes(Down(t), Response)
    BY <1>9, WriteEffect DEF Finish
  <2> HIDE DEF r, c
  <2>4. QED
    BY <1>3, <2>1, <2>2, <2>3, <2>5
<1>10. CASE NextUpdate(t)
  BY <1>5, <1>6, <1>10 DEF NextUpdate, Errs
<1>11. CASE ReadUpdateFails(t)
  BY <1>4, <1>11 DEF ReadUpdateFails, Back, Errs, Steps
<1>12. ASSUME NEW err \in Errs, Return(t, err)
       PROVE  Typed' /\ \A s \in Streams : View(s)
  BY <1>4, <1>12 DEF Return, Steps
<1>13. ASSUME NEW end \in BOOLEAN, SendUpdate(t, end)
       PROVE  Typed' /\ \A s \in Streams : View(s)
  BY <1>5, <1>6, <1>13 DEF SendUpdate, Errs
<1>14. QED
  BY <1>7, <1>8, <1>9, <1>10, <1>11, <1>12, <1>13

LEMMA WriteUpdateStep ==
  ASSUME Typed, NEW t \in Streams, kind[t] = "server", WriteUpdate(t)
  PROVE  Typed' /\ \A s \in Streams : View(s)
<1> DEFINE c == ctx[t]
           f == Update(c.nextSeq, c.end)
           back == [c EXCEPT !.step = "handler", !.err = "other"]
<1>1. /\ c \in ContextRecord /\ c.nextSeq \in Nat /\ c.nextSeq + 1 \in Nat /\ c.end \in BOOLEAN
      /\ c.step = "write"
  BY ContextFields DEF Typed, WriteUpdate
<1>2. f \in AnyFrame /\ Down(t) \in Channels
  BY <1>1, FrameTypes, ChannelNames
<1>3. UNCHANGED <<kind, revoked, accepted>>
  BY DEF WriteUpdate
<1>4. /\ back \in ContextRecord /\ back.nextSeq = c.nextSeq /\ back.ended = c.ended
      /\ back.step = "handler"
  <2>1. back \in ContextRecord
    BY <1>1 DEF ContextRecord
  <2>2. back.nextSeq = c.nextSeq /\ back.ended = c.ended /\ back.step = "handler"
    BY <1>1 DEF ContextRecord
  <2>3. QED
    BY <2>1, <2>2
<1>5. Back(t, "other") => ctx' = [ctx EXCEPT ![t] = back]
  BY DEF Back, Typed
<1>6. CASE UNCHANGED channelVars /\ Back(t, "other")
  <2> HIDE DEF back, c
  <2>1. QED
    BY <1>3, <1>4, <1>5, <1>6, QuietStep DEF c
<1>7. ASSUME NEW r \in ContextRecord, ctx' = [ctx EXCEPT ![t] = r], Writes(Down(t), f),
             r.step = "handler",
             \/ r.nextSeq = c.nextSeq /\ r.ended = c.ended /\ broken'[Down(t)]
             \/ /\ r.nextSeq = c.nextSeq + 1 /\ r.ended = c.end
                /\ ~broken[Down(t)] /\ sent' = [sent EXCEPT ![Down(t)] = Append(@, f)]
      PROVE  Typed' /\ \A s \in Streams : View(s)
  <2>1. Typed'
    BY <1>2, <1>3, <1>7, WritesTyped DEF Typed
  <2>2. ctx'[t] = r
    BY <1>7 DEF Typed
  <2>3. View(t)
    <3>1. EntersOpen(t)
      BY <1>7, <2>2 DEF EntersOpen
    <3>2. CASE sent' = sent
      <4>1. sent[Down(t)] # Append(sent[Down(t)], f)
        BY <1>2 DEF Typed
      <4>2. r.nextSeq = c.nextSeq /\ r.ended = c.ended /\ broken'[Down(t)]
        BY <1>2, <1>7, <3>2, <4>1 DEF Typed
      <4>3. SameView(t)
        BY <1>3, <2>2, <3>2, <4>2 DEF SameView
      <4>4. QED
        BY <3>1, <4>3 DEF View
    <3>3. CASE ~broken[Down(t)] /\ sent' = [sent EXCEPT ![Down(t)] = Append(@, f)]
      <4>1. sent'[Down(t)] = Append(sent[Down(t)], f)
        BY <1>2, <3>3 DEF Typed
      <4>2. WritesUpdate(t)
        BY <1>1, <1>3, <1>7, <2>2, <3>3, <4>1 DEF WritesUpdate
      <4>3. QED
        BY <3>1, <4>2 DEF View
    <3>4. QED
      BY <1>7, <3>2, <3>3 DEF Writes
  <2>4. QED
    BY <1>3, <1>7, <2>1, <2>3, OtherViews
<1>8. CASE Channel!SendFails(Down(t), f) /\ Back(t, "other")
  <2>1. broken'[Down(t)] /\ Writes(Down(t), f)
    BY <1>2, <1>8, WriteEffect DEF Channel!SendFails, Typed
  <2> HIDE DEF back, c, f
  <2>2. QED
    BY <1>4, <1>5, <1>7, <1>8, <2>1
<1>9. CASE /\ Channel!Send(Down(t), f)
           /\ ctx' = [ctx EXCEPT ![t].step = "handler", ![t].err = "nil", ![t].nextSeq = @ + 1,
                                 ![t].ended = ctx[t].end]
  <2>0. PICK n \in Nat : n = c.nextSeq + 1
    BY <1>1
  <2> DEFINE r == [c EXCEPT !.step = "handler", !.err = "nil", !.nextSeq = n, !.ended = c.end]
  <2>5. r \in ContextRecord
    BY <1>1 DEF ContextRecord
  <2>1. r.nextSeq = n /\ r.ended = c.end /\ r.step = "handler"
    BY <1>1 DEF ContextRecord
  <2>2. ctx' = [ctx EXCEPT ![t] = r]
    BY <1>9, <2>0 DEF Typed
  <2>3. /\ Writes(Down(t), f) /\ ~broken[Down(t)]
        /\ sent' = [sent EXCEPT ![Down(t)] = Append(@, f)]
    BY <1>9, WriteEffect DEF Channel!Send
  <2> HIDE DEF r, c, f
  <2>4. QED
    BY <1>7, <2>0, <2>1, <2>2, <2>3, <2>5
<1>10. QED
  BY <1>6, <1>8, <1>9 DEF WriteUpdate


LEMMA ReadUpdateStep ==
  ASSUME Typed, NEW t \in Streams, kind[t] = "client", ReadUpdate(t)
  PROVE  Typed' /\ \A s \in Streams : View(s)
<1> DEFINE c == ctx[t]
           q == received[Up(t)]
           f == sent[Up(t)][Len(q) + 1]
<1>1. /\ c \in ContextRecord /\ c.nextSeq \in Nat /\ c.nextSeq + 1 \in Nat /\ c.step = "read"
  BY ContextFields DEF Typed, ReadUpdate
<1>2. Up(t) \in Channels
  BY ChannelNames
<1>3. UNCHANGED <<kind, revoked, sent, broken>>
  BY DEF ReadUpdate, Channel!Receive
<1>4. q \in Seq(AnyFrame) /\ sent[Up(t)] \in Seq(AnyFrame) /\ Len(q) + 1 \in 1..Len(sent[Up(t)])
  BY <1>2 DEF Typed, ReadUpdate, Channel!Receive
<1>5. f \in AnyFrame
  BY <1>4
<1>6. received'[Up(t)] = Append(q, f)
  BY <1>2 DEF ReadUpdate, Channel!Receive, Typed
<1>7. Last(received'[Up(t)]) = f
  <2> HIDE DEF f, q
  <2>1. Len(Append(q, f)) = Len(q) + 1 /\ Append(q, f)[Len(q) + 1] = f
    BY <1>4, <1>5
  <2>2. QED
    BY <1>6, <2>1 DEF Last
<1>8. received' \in [Channels -> Seq(AnyFrame)]
  BY <1>2, <1>4, <1>5 DEF ReadUpdate, Channel!Receive, Typed
<1>9. ASSUME NEW r \in ContextRecord, ctx' = [ctx EXCEPT ![t] = r], r.step = "handler",
             \/ r.nextSeq = c.nextSeq /\ r.ended = c.ended /\ accepted' = accepted
             \/ /\ f.kind = "update" /\ f.seq = c.nextSeq
                /\ r.nextSeq = c.nextSeq + 1 /\ r.ended = f.end
                /\ accepted' = [accepted EXCEPT ![t] = Append(@, f)]
      PROVE  Typed' /\ \A s \in Streams : View(s)
  <2> HIDE DEF f, q
  <2>1. ctx' \in [Streams -> ContextRecord] /\ ctx'[t] = r
    BY <1>9 DEF Typed
  <2>2. accepted' \in [Streams -> Seq(AnyFrame)]
    <3>1. Append(accepted[t], f) \in Seq(AnyFrame)
      BY <1>5 DEF Typed
    <3>2. QED
      BY <1>9, <3>1 DEF Typed
  <2>3. Typed'
    BY <1>3, <1>8, <2>1, <2>2 DEF Typed
  <2>4. EntersOpen(t)
    BY <1>9, <2>1 DEF EntersOpen
  <2>5. SameView(t) \/ AcceptsUpdate(t)
    <3>1. CASE r.nextSeq = c.nextSeq /\ r.ended = c.ended /\ accepted' = accepted
      BY <1>3, <2>1, <3>1 DEF SameView
    <3>2. CASE /\ f.kind = "update" /\ f.seq = c.nextSeq
               /\ r.nextSeq = c.nextSeq + 1 /\ r.ended = f.end
               /\ accepted' = [accepted EXCEPT ![t] = Append(@, f)]
      <4>1. accepted'[t] = Append(accepted[t], f)
        BY <3>2 DEF Typed
      <4>2. QED
        BY <1>1, <1>3, <1>5, <2>1, <3>2, <4>1 DEF AcceptsUpdate
    <3>3. QED
      BY <1>9, <3>1, <3>2
  <2>6. ASSUME NEW s \in Streams, s # t
        PROVE  View(s)
    <3>1. ctx'[s] = ctx[s] /\ accepted'[s] = accepted[s]
      BY <1>9, <2>6 DEF Typed
    <3>2. QED
      BY <1>3, <3>1 DEF View, EntersOpen, SameView
  <2>7. QED
    BY <2>3, <2>4, <2>5, <2>6 DEF View
<1>10. CASE Back(t, "other") /\ UNCHANGED accepted
  <2> DEFINE r == [c EXCEPT !.step = "handler", !.err = "other"]
  <2>1. r \in ContextRecord
    BY <1>1 DEF ContextRecord
  <2>2. r.nextSeq = c.nextSeq /\ r.ended = c.ended /\ r.step = "handler"
    BY <1>1 DEF ContextRecord
  <2>3. ctx' = [ctx EXCEPT ![t] = r]
    BY <1>10 DEF Back, Typed
  <2> HIDE DEF r, c, f
  <2>4. QED
    BY <1>9, <1>10, <2>1, <2>2, <2>3
<1>11. CASE /\ f.kind = "update" /\ f.seq = c.nextSeq
            /\ ctx' = [ctx EXCEPT ![t].step = "handler", ![t].err = "nil", ![t].nextSeq = @ + 1,
                                  ![t].ended = f.end]
            /\ accepted' = [accepted EXCEPT ![t] = Append(@, f)]
  <2>0. PICK n \in Nat, e \in BOOLEAN : n = c.nextSeq + 1 /\ e = f.end
    <3>1. f.end \in BOOLEAN
      <4> HIDE DEF f
      <4>1. f \in {Update(seq, end) : seq \in Nat, end \in BOOLEAN}
        BY <1>5, <1>11 DEF AnyFrame, Response, Garbled
      <4>2. QED
        BY <4>1 DEF Update
    <3>2. QED
      BY <1>1, <3>1
  <2> DEFINE r == [c EXCEPT !.step = "handler", !.err = "nil", !.nextSeq = n, !.ended = e]
  <2>1. r \in ContextRecord
    BY <1>1 DEF ContextRecord
  <2>2. r.nextSeq = n /\ r.ended = e /\ r.step = "handler"
    BY <1>1 DEF ContextRecord
  <2> HIDE DEF f
  <2>3. ctx' = [ctx EXCEPT ![t] = r]
    BY <1>11, <2>0 DEF Typed
  <2> HIDE DEF r, c
  <2>4. QED
    BY <1>9, <1>11, <2>0, <2>1, <2>2, <2>3
<1>12. QED
  <2> HIDE DEF f
  <2>1. QED
    BY <1>7, <1>10, <1>11 DEF ReadUpdate

\* Every step of the connection, as each stream sees it.
LEMMA StreamSteps ==
  ASSUME Typed, [Next]_vars
  PROVE  Typed' /\ \A s \in Streams : View(s)
<1>1. CASE UNCHANGED vars
  BY <1>1, OutsideStep DEF vars, Typed
<1>2. CASE Revoke \/ Authenticate
  BY <1>2, OutsideStep DEF Revoke, Authenticate
<1>3. ASSUME NEW t \in ClientStreams, NEW frame \in ClientFrames, ClientSends(t, frame)
      PROVE  Typed' /\ \A s \in Streams : View(s)
  <2>1. t \in Streams /\ frame \in AnyFrame
    BY FrameTypes DEF ClientStreams
  <2>2. Writes(Up(t), frame)
    BY <1>3, WriteEffect DEF ClientSends
  <2>3. QED
    BY <1>3, <2>1, <2>2, OutsideStep DEF ClientSends, Typed
<1>4. ASSUME NEW t \in ServerStreams,
             WriteUpdate(t) \/ \E end \in BOOLEAN : SendUpdate(t, end)
      PROVE  Typed' /\ \A s \in Streams : View(s)
  BY <1>4, PlainSteps, WriteUpdateStep DEF ServerStreams
<1>5. ASSUME NEW t \in ClientStreams, NextUpdate(t) \/ ReadUpdate(t) \/ ReadUpdateFails(t)
      PROVE  Typed' /\ \A s \in Streams : View(s)
  BY <1>5, PlainSteps, ReadUpdateStep DEF ClientStreams
<1>6. ASSUME NEW t \in Streams, Open(t) \/ SendResponse(t) \/ Finish(t)
      PROVE  Typed' /\ \A s \in Streams : View(s)
  BY <1>6, PlainSteps
<1>7. ASSUME NEW t \in Streams, NEW err \in Errs, Return(t, err)
      PROVE  Typed' /\ \A s \in Streams : View(s)
  BY <1>7, PlainSteps
<1>8. QED
  BY <1>1, <1>2, <1>3, <1>4, <1>5, <1>6, <1>7 DEF Next, Errs


LEMMA KindKept ==
  ASSUME [Next]_vars
  PROVE  kind' = kind
BY DEF Next, vars, Revoke, Authenticate, Open, SendResponse, Finish, Return, WriteUpdate, SendUpdate,
       NextUpdate, ReadUpdate, ReadUpdateFails, ClientSends

-----------------------------------------------------------------------------
(* The updates among the frames of a channel.                               *)

LEMMA UpdatesFinite ==
  ASSUME NEW q \in Seq(AnyFrame)
  PROVE  /\ UpdatesIn(q) \subseteq 1..Len(q)
         /\ IsFiniteSet(UpdatesIn(q)) /\ Cardinality(UpdatesIn(q)) \in Nat
<1>1. UpdatesIn(q) \subseteq 1..Len(q) /\ Len(q) \in Nat
  BY DEF UpdatesIn
<1>2. IsFiniteSet(1..Len(q))
  BY <1>1, FS_Interval
<1>3. QED
  BY <1>1, <1>2, FS_Subset, FS_CardinalityType

LEMMA UpdatesAfter ==
  ASSUME NEW q \in Seq(AnyFrame), NEW f \in AnyFrame
  PROVE  /\ \A i \in UpdatesIn(q) : Append(q, f)[i] = q[i]
         /\ f.kind # "update" => UpdatesIn(Append(q, f)) = UpdatesIn(q)
         /\ f.kind = "update" =>
              /\ UpdatesIn(Append(q, f)) = UpdatesIn(q) \cup {Len(q) + 1}
              /\ Cardinality(UpdatesIn(Append(q, f))) = Cardinality(UpdatesIn(q)) + 1
<1>1. /\ Len(Append(q, f)) = Len(q) + 1 /\ Len(q) \in Nat /\ Append(q, f)[Len(q) + 1] = f
      /\ \A i \in 1..Len(q) : Append(q, f)[i] = q[i]
  OBVIOUS
<1>2. 1..(Len(q) + 1) = (1..Len(q)) \cup {Len(q) + 1} /\ Len(q) + 1 \notin 1..Len(q)
  BY <1>1
<1>3. \A i \in UpdatesIn(q) : Append(q, f)[i] = q[i]
  BY <1>1 DEF UpdatesIn
<1>4. f.kind # "update" => UpdatesIn(Append(q, f)) = UpdatesIn(q)
  BY <1>1, <1>2 DEF UpdatesIn
<1>5. f.kind = "update" => UpdatesIn(Append(q, f)) = UpdatesIn(q) \cup {Len(q) + 1}
  BY <1>1, <1>2 DEF UpdatesIn
<1>6. Len(q) + 1 \notin UpdatesIn(q)
  BY <1>2 DEF UpdatesIn
<1>7. QED
  BY <1>3, <1>4, <1>5, <1>6, UpdatesFinite, FS_AddElement

\* A response does not disturb the numbering; the update with the next number continues
\* it unless the last one was the end.
LEMMA InOrderAfter ==
  ASSUME NEW q \in Seq(AnyFrame), NEW f \in AnyFrame, InOrder(q),
         \/ f.kind # "update"
         \/ /\ f.kind = "update" /\ f.seq = Cardinality(UpdatesIn(q))
            /\ \A i \in UpdatesIn(q) : ~q[i].end
  PROVE  InOrder(Append(q, f))
<1> DEFINE p == Append(q, f)
<1>1. \A i \in UpdatesIn(q) : p[i] = q[i] /\ i \in Int /\ i < Len(q) + 1
  BY UpdatesAfter, UpdatesFinite
<1>2. CASE f.kind # "update"
  BY <1>1, <1>2, UpdatesAfter DEF InOrder
<1>3. CASE /\ f.kind = "update" /\ f.seq = Cardinality(UpdatesIn(q))
           /\ \A i \in UpdatesIn(q) : ~q[i].end
  <2>1. UpdatesIn(p) = UpdatesIn(q) \cup {Len(q) + 1} /\ p[Len(q) + 1] = f
    BY <1>3, UpdatesAfter
  <2>2. Len(q) + 1 \in Int
    OBVIOUS
  <2> HIDE DEF p
  <2>3. {j \in UpdatesIn(p) : j < Len(q) + 1} = UpdatesIn(q)
    BY <1>1, <2>1, <2>2
  <2>4. \A i \in UpdatesIn(q) :
          {j \in UpdatesIn(p) : j < i} = {j \in UpdatesIn(q) : j < i}
    BY <1>1, <2>1, <2>2
  <2>5. ASSUME NEW i \in UpdatesIn(p)
        PROVE  /\ p[i].seq = Cardinality({j \in UpdatesIn(p) : j < i})
               /\ p[i].end => \A j \in UpdatesIn(p) : j <= i
    <3>1. CASE i \in UpdatesIn(q)
      <4>1. q[i].seq = Cardinality({j \in UpdatesIn(q) : j < i})
        BY <3>1 DEF InOrder
      <4>2. {j \in UpdatesIn(p) : j < i} = {j \in UpdatesIn(q) : j < i}
        BY <2>4, <3>1
      <4>3. p[i] = q[i] /\ ~q[i].end
        BY <1>1, <1>3, <3>1
      <4>4. QED
        BY <4>1, <4>2, <4>3
    <3>2. CASE i = Len(q) + 1
      <4>1. p[i].seq = Cardinality({j \in UpdatesIn(p) : j < i})
        BY <1>3, <2>1, <2>3, <3>2
      <4>2. \A j \in UpdatesIn(p) : j <= i
        BY <1>1, <2>1, <2>2, <3>2
      <4>3. QED
        BY <4>1, <4>2
    <3>3. QED
      BY <2>1, <3>1, <3>2
  <2>6. QED
    BY <2>5 DEF InOrder, p
<1>4. QED
  BY <1>2, <1>3

-----------------------------------------------------------------------------
(* Updates in order.                                                        *)

\* nextSeq is the number of updates that crossed, and ended tells whether the last of
\* them was the end.
Numbered(q, c) ==
  /\ Cardinality(UpdatesIn(q)) = c.nextSeq
  /\ ~c.ended => \A i \in UpdatesIn(q) : ~q[i].end

\* A write that failed may have left its update on the wire uncounted: the wire is then
\* in order still, and nothing more is written to it.
ServerInv ==
  \A s \in Streams : kind[s] = "server" =>
    /\ InOrder(sent[Down(s)])
    /\ broken[Down(s)] \/ Numbered(sent[Down(s)], ctx[s])

ClientInv ==
  \A s \in Streams : kind[s] = "client" =>
    InOrder(accepted[s]) /\ Numbered(accepted[s], ctx[s])

OpenInv == \A s \in Streams : InCall(s) => ~ctx[s].ended

OrderInv == Typed /\ ServerInv /\ ClientInv /\ OpenInv

LEMMA OrderInit == ASSUME Init PROVE OrderInv
<1>1. \A s \in Streams : ctx[s] = NewContext /\ accepted[s] = <<>>
  BY DEF Init
<1>2. \A ch \in Channels : sent[ch] = <<>> /\ broken[ch] = FALSE
  BY DEF Init, Channel!Init, Channels
<1>3. Typed
  <2>1. NewContext \in ContextRecord
    BY DEF NewContext, ContextRecord
  <2>2. ctx \in [Streams -> ContextRecord]
    BY <2>1 DEF Init
  <2>3. accepted \in [Streams -> Seq(AnyFrame)]
    BY DEF Init
  <2>4. sent \in [Channels -> Seq(AnyFrame)] /\ received \in [Channels -> Seq(AnyFrame)]
    BY DEF Init, Channel!Init, Channels
  <2>5. broken \in [Channels -> BOOLEAN]
    BY DEF Init, Channel!Init, Channels
  <2>6. QED
    BY <2>2, <2>3, <2>4, <2>5 DEF Init, Typed
<1>4. UpdatesIn(<<>>) = {} /\ Cardinality(UpdatesIn(<<>>)) = 0
  BY FS_EmptySet DEF UpdatesIn
<1>5. InOrder(<<>>) /\ Numbered(<<>>, NewContext)
  BY <1>4 DEF InOrder, Numbered, NewContext
<1>6. ServerInv
  BY <1>1, <1>2, <1>5, ChannelNames DEF ServerInv
<1>7. ClientInv
  BY <1>1, <1>5 DEF ClientInv
<1>8. OpenInv
  BY <1>1 DEF OpenInv, InCall, NewContext
<1>9. QED
  BY <1>3, <1>6, <1>7, <1>8 DEF OrderInv

LEMMA OrderStep == ASSUME OrderInv, [Next]_vars PROVE OrderInv'
<1> USE DEF OrderInv
<1>1. Typed' /\ \A s \in Streams : View(s)
  BY StreamSteps
<1>2. kind' = kind
  BY KindKept
<1>3. Response \in AnyFrame /\ Response.kind # "update"
  BY FrameTypes DEF Response
<1>4. OpenInv'
  BY <1>1 DEF OpenInv, InCall, View, EntersOpen
<1>5. ASSUME NEW s \in Streams, kind[s] = "server"
      PROVE  /\ InOrder(sent'[Down(s)])
             /\ broken'[Down(s)] \/ Numbered(sent'[Down(s)], ctx'[s])
  <2>1. PICK q \in Seq(AnyFrame) : q = sent[Down(s)]
    BY ChannelNames DEF Typed
  <2>2. InOrder(q) /\ (broken[Down(s)] \/ Numbered(q, ctx[s]))
    BY <1>5, <2>1 DEF ServerInv
  <2>3. CASE SameView(s) /\ sent'[Down(s)] = q
    BY <2>1, <2>2, <2>3 DEF SameView, Numbered
  <2>4. CASE SameView(s) /\ sent'[Down(s)] = Append(q, Response)
    <3>1. InOrder(Append(q, Response))
      BY <1>3, <2>2, InOrderAfter
    <3>2. UpdatesIn(Append(q, Response)) = UpdatesIn(q)
          /\ \A i \in UpdatesIn(q) : Append(q, Response)[i] = q[i]
      BY <1>3, UpdatesAfter
    <3>3. QED
      BY <2>2, <2>4, <3>1, <3>2 DEF SameView, Numbered
  <2>5. CASE WritesUpdate(s)
    <3>1. PICK seq \in Nat, end \in BOOLEAN : seq = ctx[s].nextSeq /\ end = ctx[s].end
      BY ContextFields DEF Typed
    <3>2. PICK f \in AnyFrame : f = Update(seq, end)
      BY FrameTypes
    <3>3. f.kind = "update" /\ f.seq = seq /\ f.end = end
      BY <3>2 DEF Update
    <3>4. /\ Cardinality(UpdatesIn(q)) = seq /\ \A i \in UpdatesIn(q) : ~q[i].end
      BY <2>2, <2>5, <3>1 DEF WritesUpdate, OpenInv, InCall, Numbered
    <3>5. sent'[Down(s)] = Append(q, f)
      BY <2>1, <2>5, <3>1, <3>2 DEF WritesUpdate
    <3>6. InOrder(Append(q, f))
      BY <2>2, <3>3, <3>4, InOrderAfter
    <3>7. CASE ctx'[s].nextSeq = ctx[s].nextSeq + 1 /\ ctx'[s].ended = ctx[s].end
      <4>1. Cardinality(UpdatesIn(Append(q, f))) = seq + 1
        BY <3>3, <3>4, UpdatesAfter
      <4>2. ~end => \A i \in UpdatesIn(Append(q, f)) : ~Append(q, f)[i].end
        <5>1. UpdatesIn(Append(q, f)) = UpdatesIn(q) \cup {Len(q) + 1}
          BY <3>3, UpdatesAfter
        <5>2. \A i \in UpdatesIn(q) : Append(q, f)[i] = q[i]
          BY UpdatesAfter
        <5>3. Append(q, f)[Len(q) + 1] = f
          OBVIOUS
        <5>4. QED
          BY <3>3, <3>4, <5>1, <5>2, <5>3
      <4>3. QED
        BY <3>1, <3>5, <3>6, <3>7, <4>1, <4>2 DEF Numbered
    <3>8. QED
      BY <2>5, <3>5, <3>6, <3>7 DEF WritesUpdate
  <2>6. QED
    BY <1>1, <1>5, <2>1, <2>3, <2>4, <2>5 DEF View, SameView
<1>6. ASSUME NEW s \in Streams, kind[s] = "client"
      PROVE  InOrder(accepted'[s]) /\ Numbered(accepted'[s], ctx'[s])
  <2>1. PICK q \in Seq(AnyFrame) : q = accepted[s]
    BY DEF Typed
  <2>2. InOrder(q) /\ Numbered(q, ctx[s])
    BY <1>6, <2>1 DEF ClientInv
  <2>3. CASE SameView(s)
    BY <2>1, <2>2, <2>3 DEF SameView, Numbered
  <2>4. CASE AcceptsUpdate(s)
    <3>1. PICK f \in AnyFrame :
            /\ f.kind = "update" /\ f.seq = ctx[s].nextSeq
            /\ accepted'[s] = Append(q, f)
            /\ ctx'[s].nextSeq = ctx[s].nextSeq + 1 /\ ctx'[s].ended = f.end
      BY <2>1, <2>4 DEF AcceptsUpdate
    <3>2. Cardinality(UpdatesIn(q)) = ctx[s].nextSeq /\ \A i \in UpdatesIn(q) : ~q[i].end
      BY <2>2, <2>4 DEF AcceptsUpdate, OpenInv, InCall, Numbered
    <3>3. InOrder(Append(q, f))
      BY <2>2, <3>1, <3>2, InOrderAfter
    <3>4. Cardinality(UpdatesIn(Append(q, f))) = ctx[s].nextSeq + 1
      BY <3>1, <3>2, UpdatesAfter
    <3>5. ~f.end => \A i \in UpdatesIn(Append(q, f)) : ~Append(q, f)[i].end
      <4>1. UpdatesIn(Append(q, f)) = UpdatesIn(q) \cup {Len(q) + 1}
        BY <3>1, UpdatesAfter
      <4>2. \A i \in UpdatesIn(q) : Append(q, f)[i] = q[i]
        BY UpdatesAfter
      <4>3. Append(q, f)[Len(q) + 1] = f
        OBVIOUS
      <4>4. QED
        BY <3>2, <4>1, <4>2, <4>3
    <3>6. QED
      BY <3>1, <3>3, <3>4, <3>5 DEF Numbered
  <2>5. QED
    BY <1>1, <1>6, <2>3, <2>4 DEF View
<1>7. ServerInv'
  BY <1>2, <1>5 DEF ServerInv
<1>8. ClientInv'
  BY <1>2, <1>6 DEF ClientInv
<1>9. QED
  BY <1>1, <1>4, <1>7, <1>8

LEMMA OrderInvariant == Spec => []OrderInv
BY OrderInit, OrderStep, PTL DEF Spec

\* Whatever fails or is refused, the updates on the wire of every server stream and the
\* ones the handler of every client stream is given are numbered from 0 without a gap
\* or a repetition, and only the last carries the end (SendUpdate, NextUpdate).
THEOREM UpdatesInOrderTheorem == Spec => []UpdatesInOrder
<1>1. OrderInv => UpdatesInOrder
  BY DEF OrderInv, ServerInv, ClientInv, UpdatesInOrder, ServerStreams, ClientStreams
<1>2. QED
  BY <1>1, OrderInvariant, PTL

-----------------------------------------------------------------------------
(* Updates of a revoked session.                                            *)

InFlightInv == revoked => \A s \in Streams : InCall(s) => s \in inFlight

LEMMA InFlightStep ==
  ASSUME Typed, InFlightInv, [Next]_vars
  PROVE  InFlightInv'
<1>1. CASE Revoke
  BY <1>1 DEF Revoke, InFlightInv, InCall
<1>2. CASE Authenticate
  BY <1>2 DEF Authenticate, InFlightInv
<1>3. CASE ~Revoke /\ ~Authenticate
  <2>1. revoked' = revoked
    BY <1>3 DEF Next, vars, Revoke, Authenticate, Open, SendResponse, Finish, Return, WriteUpdate,
                SendUpdate, NextUpdate, ReadUpdate, ReadUpdateFails, ClientSends
  <2>2. \/ inFlight' = inFlight
        \/ \E t \in Streams : /\ inFlight' = inFlight \ {t}
                              /\ WriteUpdate(t) \/ ReadUpdate(t) \/ ReadUpdateFails(t)
    BY <1>3 DEF Next, vars, Revoke, Authenticate, Open, SendResponse, Finish, Return, WriteUpdate,
                SendUpdate, NextUpdate, ReadUpdate, ReadUpdateFails, ClientSends, ServerStreams,
                ClientStreams
  <2>3. ASSUME NEW t \in Streams, WriteUpdate(t) \/ ReadUpdate(t) \/ ReadUpdateFails(t)
        PROVE  ctx'[t].step = "handler"
    <3>1. ctx[t] \in ContextRecord
      BY DEF Typed
    <3>2. CASE WriteUpdate(t)
      BY <3>1, <3>2 DEF WriteUpdate, Back, Typed, ContextRecord
    <3>3. CASE ReadUpdate(t)
      BY <3>1, <3>3 DEF ReadUpdate, Back, Typed, ContextRecord
    <3>4. CASE ReadUpdateFails(t)
      BY <3>1, <3>4 DEF ReadUpdateFails, Back, Typed, ContextRecord
    <3>5. QED
      BY <2>3, <3>2, <3>3, <3>4
  <2>4. ASSUME revoked, NEW s \in Streams, ctx'[s].step \in {"write", "read"}
        PROVE  s \in inFlight'
    <3>1. View(s)
      BY StreamSteps
    <3>2. ctx'[s] = ctx[s]
      BY <2>4, <3>1 DEF View, EntersOpen
    <3>3. s \in inFlight
      BY <2>4, <3>2 DEF InFlightInv, InCall
    <3>4. QED
      BY <2>2, <2>3, <2>4, <3>3
  <2>5. QED
    BY <2>1, <2>4 DEF InFlightInv, InCall
<1>4. QED
  BY <1>1, <1>2, <1>3

\* An update that crosses a stream of a revoked session does so in the call that was
\* under way when the session was revoked (BaseContext.SendUpdate, ReadUpdate).
THEOREM InFlightTheorem == Spec => RevokedUpdatesWereInFlight
<1>1. Init => Typed /\ InFlightInv
  BY OrderInit DEF OrderInv, Init, InFlightInv
<1>2. Typed /\ InFlightInv /\ [Next]_vars => (Typed /\ InFlightInv)'
  BY StreamSteps, InFlightStep
<1>3. ASSUME Typed, InFlightInv, [Next]_vars, NEW s \in Streams, revoked,
             Crossed(s)' > Crossed(s)
      PROVE  s \in inFlight
  <2>1. View(s)
    BY <1>3, StreamSteps
  <2>2. CASE SameView(s)
    <3>1. PICK q \in Seq(AnyFrame) : q = sent[Down(s)]
      BY <1>3, ChannelNames DEF Typed
    <3>2. UpdatesIn(sent'[Down(s)]) = UpdatesIn(q)
      <4>1. Response \in AnyFrame /\ Response.kind # "update"
        BY FrameTypes DEF Response
      <4>2. UpdatesIn(Append(q, Response)) = UpdatesIn(q)
        BY <4>1, UpdatesAfter
      <4>3. QED
        BY <2>2, <3>1, <4>2 DEF SameView
    <3>3. Cardinality(UpdatesIn(q)) \in Nat /\ Len(accepted[s]) \in Nat
      BY <1>3, UpdatesFinite DEF Typed
    <3>4. Crossed(s)' = Crossed(s)
      BY <2>2, <3>1, <3>2 DEF Crossed, SameView
    <3>5. QED
      <4>1. Crossed(s) \in Nat
        BY <3>1, <3>3 DEF Crossed
      <4>2. QED
        BY <1>3, <3>4, <4>1
  <2>3. CASE InCall(s)
    BY <1>3, <2>3 DEF InFlightInv
  <2>4. QED
    BY <2>1, <2>2, <2>3 DEF View, WritesUpdate, AcceptsUpdate, InCall
<1>4. Typed /\ InFlightInv /\ [Next]_vars =>
        [\A s \in Streams : revoked /\ Crossed(s)' > Crossed(s) => s \in inFlight]_vars
  BY <1>3
<1>5. QED
  BY <1>1, <1>2, <1>4, PTL DEF Spec, RevokedUpdatesWereInFlight

=============================================================================
