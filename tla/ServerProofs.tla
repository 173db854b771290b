---------------------------- MODULE ServerProofs ----------------------------
(***************************************************************************)
(* Proofs about the process: for any number of connections and streams,    *)
(* nothing uses the database or Redis before main has opened them.         *)
(***************************************************************************)
EXTENDS Server, TLAPS

Startup == {"InitDefaultDB", "InitDefaultCache", "StartDeletionWorker", "Start"}

Shutdown == {"CloseListener", "CloseCache", "CloseDB"}

\* Nobody is connected while main starts.
NobodyYet ==
  main \in Startup =>
    /\ \A c \in Conns : conn[c] = "none"
    /\ \A c \in Conns : \A i \in Streams(c) : stream[c][i] = "unopened"

\* What main has opened and closed, by where it is.
DBInv == main \notin {"InitDefaultDB", "exited"} => db = "open"

CacheInv ==
  /\ main \in {"StartDeletionWorker", "Start", "accepting", "CloseListener", "CloseCache"} =>
       cache = "open"
  /\ main = "CloseDB" => cache = "closed"

WorkerInv ==
  main \in {"InitDefaultDB", "InitDefaultCache", "StartDeletionWorker"} => worker = "off"

\* The deferred calls run only once ctx is cancelled.
ShutdownInv == main \in Shutdown => canceled

MainInv == main \in Startup \cup Shutdown \cup {"accepting", "exited"}

Inv == MainInv /\ NobodyYet /\ DBInv /\ CacheInv /\ WorkerInv /\ ShutdownInv

LEMMA InvInit == Init => Inv
BY DEF Init, Inv, MainInv, NobodyYet, DBInv, CacheInv, WorkerInv, ShutdownInv, Startup, Shutdown

LEMMA MainStep ==
  ASSUME Inv, StartupFails \/ Main
  PROVE  Inv'
<1>1. CASE StartupFails
  BY <1>1 DEF StartupFails, Inv, MainInv, NobodyYet, DBInv, CacheInv, WorkerInv, ShutdownInv,
              Startup, Shutdown
<1>2. CASE InitDefaultDB \/ InitDefaultCache \/ StartDeletionWorker \/ StartListener
  BY <1>2 DEF InitDefaultDB, InitDefaultCache, StartDeletionWorker, StartListener, infraVars,
              netVars, Inv, MainInv, NobodyYet, DBInv, CacheInv, WorkerInv, ShutdownInv, Startup,
              Shutdown
<1>3. CASE AcceptCanceled \/ CloseListener \/ CloseCache \/ CloseDB
  BY <1>3 DEF AcceptCanceled, CloseListener, CloseCache, CloseDB, infraVars, Inv, MainInv,
              NobodyYet, DBInv, CacheInv, WorkerInv, ShutdownInv, Startup, Shutdown
<1>4. QED
  BY <1>1, <1>2, <1>3 DEF Main

\* Connections and streams move only after startup.
LEMMA NetStep ==
  ASSUME Inv, NEW c \in Conns,
         \/ Dial(c) \/ Accept(c) \/ AcceptStream(c) \/ ConnectionEnds(c)
         \/ \E i \in Streams(c) :
              OpenStreamSync(c, i) \/ StreamOpens(c, i) \/ FrameArrives(c, i) \/ HandleEnds(c, i)
  PROVE  Inv'
<1>1. UNCHANGED <<main, canceled, db, cache, worker>>
  BY DEF Dial, Accept, AcceptStream, ConnectionEnds, OpenStreamSync, StreamOpens, FrameArrives,
         HandleEnds, infraVars
<1>2. main \notin Startup
  BY DEF Inv, NobodyYet, Startup, Dial, Accept, AcceptStream, ConnectionEnds, OpenStreamSync,
         StreamOpens, FrameArrives, HandleEnds, Move
<1>3. QED
  BY <1>1, <1>2 DEF Inv, MainInv, NobodyYet, DBInv, CacheInv, WorkerInv, ShutdownInv

LEMMA InvStep == Inv /\ [Next]_vars => Inv'
<1> SUFFICES ASSUME Inv, [Next]_vars PROVE Inv'
  OBVIOUS
<1>1. CASE WorkerEnds \/ Signal \/ UNCHANGED vars
  BY <1>1 DEF WorkerEnds, Signal, vars, infraVars, netVars, Inv, MainInv, NobodyYet, DBInv,
              CacheInv, WorkerInv, ShutdownInv
<1>2. QED
  BY <1>1, MainStep, NetStep DEF Next

\* No request and no run of the deletion worker finds the database or Redis missing,
\* and finds them closed only once shutdown has begun, for any number of connections
\* and streams and wherever startup fails or the signal arrives.
THEOREM ReadyBeforeUseTheorem == Spec => []ReadyBeforeUse
<1>1. Inv => ReadyBeforeUse
  <2> SUFFICES ASSUME Inv, Alive, InUse
               PROVE  /\ db # "nil" /\ cache # "nil"
                      /\ ~canceled => db = "open" /\ cache = "open"
    BY DEF ReadyBeforeUse
  <2>1. main \notin {"InitDefaultDB", "InitDefaultCache", "StartDeletionWorker"}
    BY DEF InUse, Inv, NobodyYet, WorkerInv, Startup
  <2>2. QED
    BY <2>1 DEF Alive, Inv, MainInv, DBInv, CacheInv, ShutdownInv, Startup, Shutdown
<1>2. QED
  BY <1>1, InvInit, InvStep, PTL DEF Spec

=============================================================================
