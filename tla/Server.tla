------------------------------- MODULE Server -------------------------------
(***************************************************************************)
(* The process: main's startup, accept loop and shutdown, the goroutine per *)
(* connection (router.ServeConnection) and per stream (router.Handle), and  *)
(* the streams a QUIC connection can hold.  What a request does is in       *)
(* Sessions and Accounts; here it reads its frame, runs and ends.           *)
(***************************************************************************)
EXTENDS Naturals, FiniteSets

CONSTANTS
  Conns,               \* connections clients may make
  MaxStreams,          \* connection -> bound on the streams its client opens
  MaxIncomingStreams   \* streams a connection may hold, quic.Config's default

ASSUME StreamsAssumption == MaxStreams \in [Conns -> Nat] /\ MaxIncomingStreams \in Nat \ {0}

VARIABLES
  main,      \* the call main is about to make, "accepting" or "exited"
  canceled,  \* SIGTERM or an interrupt has cancelled ctx
  db,        \* defaultDB: "nil", "open" or "closed"
  cache,     \* defaultCache, likewise
  worker,    \* the deletion worker's goroutine: "off", "running" or "ended"
  conn,      \* connection -> "none", "dialled", "serving" or "ended"
  stream,    \* connection -> number of a stream -> "unopened"; "wanted" (its client is in
             \* OpenStreamSync); "opened"; "reading", "running" (Handle); "left" (Handle has
             \* returned without Close) or "closed" (the server's side, by Close)
  drained    \* connection -> its streams on which a read of Handle met the client's end

infraVars == <<db, cache, worker>>
netVars == <<conn, stream, drained>>
vars == <<main, canceled, infraVars, netVars>>

Streams(c) == 1..MaxStreams[c]

Init ==
  /\ main = "InitDefaultDB"
  /\ canceled = FALSE
  /\ db = "nil"
  /\ cache = "nil"
  /\ worker = "off"
  /\ conn = [c \in Conns |-> "none"]
  /\ stream = [c \in Conns |-> [i \in Streams(c) |-> "unopened"]]
  /\ drained = [c \in Conns |-> {}]

Alive == main # "exited"

Move(c, i, from, to) ==
  /\ Alive
  /\ stream[c][i] = from
  /\ stream' = [stream EXCEPT ![c][i] = to]

-----------------------------------------------------------------------------
(* main: startup.  A call that fails ends the process with os.Exit(1).     *)

StartupFails ==
  /\ main \in {"InitDefaultDB", "InitDefaultCache", "Start"}
  /\ main' = "exited"
  /\ UNCHANGED <<canceled, infraVars, netVars>>

InitDefaultDB ==
  /\ main = "InitDefaultDB"
  /\ db' = "open"
  /\ main' = "InitDefaultCache"
  /\ UNCHANGED <<canceled, cache, worker, netVars>>

\* Mutant: a Redis that does not answer the ping is only logged.
InitDefaultCacheUnchecked ==
  /\ main = "InitDefaultCache"
  /\ cache' \in {"open", "nil"}
  /\ main' = "StartDeletionWorker"
  /\ UNCHANGED <<canceled, db, worker, netVars>>

InitDefaultCache ==
  /\ main = "InitDefaultCache"
  /\ cache' = "open"
  /\ main' = "StartDeletionWorker"
  /\ UNCHANGED <<canceled, db, worker, netVars>>

StartDeletionWorker ==
  /\ main = "StartDeletionWorker"
  /\ worker' = "running"
  /\ main' = "Start"
  /\ UNCHANGED <<canceled, db, cache, netVars>>

\* transport.Start
StartListener ==
  /\ main = "Start"
  /\ main' = "accepting"
  /\ UNCHANGED <<canceled, infraVars, netVars>>

-----------------------------------------------------------------------------
(* main: the accept loop and, once ctx is cancelled, the deferred calls in  *)
(* reverse order.  An error of Accept that is not the cancellation is       *)
(* logged and the loop goes on, which changes nothing.                      *)

Accept(c) ==
  /\ main = "accepting"
  /\ conn[c] = "dialled"
  /\ conn' = [conn EXCEPT ![c] = "serving"]
  /\ UNCHANGED <<main, canceled, infraVars, stream, drained>>

\* Mutant: the loop goes on after every error.
AcceptLoops ==
  /\ main = "accepting"
  /\ canceled
  /\ UNCHANGED vars

AcceptCanceled ==
  /\ main = "accepting"
  /\ canceled
  /\ main' = "CloseListener"
  /\ UNCHANGED <<canceled, infraVars, netVars>>

\* Connections end on their own (ConnectionEnds), as ctx is cancelled.
CloseListener ==
  /\ main = "CloseListener"
  /\ main' = "CloseCache"
  /\ UNCHANGED <<canceled, infraVars, netVars>>

CloseCache ==
  /\ main = "CloseCache"
  /\ main' = "CloseDB"
  /\ cache' = "closed"
  /\ UNCHANGED <<canceled, db, worker, netVars>>

\* pool.Close waits until every connection of the pool is given back.  It is one step:
\* each statement in progress holds ctx, which is cancelled, and gives its connection
\* back.  Goroutines still running end with the process.
CloseDB ==
  /\ main = "CloseDB"
  /\ main' = "exited"
  /\ db' = "closed"
  /\ UNCHANGED <<canceled, cache, worker, netVars>>

WorkerEnds ==
  /\ Alive
  /\ worker = "running"
  /\ canceled
  /\ worker' = "ended"
  /\ UNCHANGED <<main, canceled, db, cache, netVars>>

Signal ==
  /\ Alive
  /\ ~canceled
  /\ canceled' = TRUE
  /\ UNCHANGED <<main, infraVars, netVars>>

-----------------------------------------------------------------------------
(* Connections and streams. *)

\* Mutant: Handle is called without go.
AcceptStreamInline(c) ==
  \E i \in Streams(c) :
    /\ conn[c] = "serving"
    /\ \A j \in Streams(c) : stream[c][j] = "opened" => i <= j
    /\ \A j \in Streams(c) : stream[c][j] \notin {"reading", "running"}
    /\ Move(c, i, "opened", "reading")
    /\ UNCHANGED <<main, canceled, infraVars, conn, drained>>

\* One iteration of ServeConnection's loop: streams are accepted in the order they
\* were opened, and each gets a goroutine.
AcceptStream(c) ==
  \E i \in Streams(c) :
    /\ conn[c] = "serving"
    /\ \A j \in Streams(c) : stream[c][j] = "opened" => i <= j
    /\ Move(c, i, "opened", "reading")
    /\ UNCHANGED <<main, canceled, infraVars, conn, drained>>

\* AcceptStream returns an error because the client went away or ctx is cancelled;
\* ServeConnection returns it.
ConnectionEnds(c) ==
  /\ Alive
  /\ conn[c] \in {"dialled", "serving"}
  /\ conn' = [conn EXCEPT ![c] = "ended"]
  /\ UNCHANGED <<main, canceled, infraVars, stream, drained>>

\* Mutant: a refused request's stream is not closed either.
HandleEndsUnclosed(c, i) ==
  /\ Move(c, i, "running", "left") \/ Move(c, i, "running", "refused")
  /\ UNCHANGED <<main, canceled, infraVars, conn, drained>>

\* Handle, once it has the frame.  Its own refusals (envelope, op, route) and an error
\* that the chain returns close the stream.  When the chain returns nil it is left as it
\* is: after a success, and after the refusals AuthMiddleware and the handlers answer
\* with SendCode or SendStatus and return the nil of.
HandleEnds(c, i) ==
  /\ Move(c, i, "running", "left") \/ Move(c, i, "running", "closed")
  /\ UNCHANGED <<main, canceled, infraVars, conn, drained>>

-----------------------------------------------------------------------------
(* Clients and QUIC (external). *)

Dial(c) ==
  /\ main = "accepting"
  /\ conn[c] = "none"
  /\ conn' = [conn EXCEPT ![c] = "dialled"]
  /\ UNCHANGED <<main, canceled, infraVars, stream, drained>>

OpenStreamSync(c, i) ==
  /\ conn[c] \in {"dialled", "serving"}
  /\ \A j \in Streams(c) : j < i => stream[c][j] \notin {"unopened", "wanted"}
  /\ Move(c, i, "unopened", "wanted")
  /\ UNCHANGED <<main, canceled, infraVars, conn, drained>>

\* quic-go counts a stream until both sides are done: the server's by Close, the
\* client's when the server has read it to its end.
Released(c) == {i \in drained[c] : stream[c][i] = "closed"}

Held(c) == {i \in Streams(c) : stream[c][i] \notin {"unopened", "wanted"}} \ Released(c)

StreamOpens(c, i) ==
  /\ conn[c] \in {"dialled", "serving"}
  /\ Cardinality(Held(c)) < MaxIncomingStreams
  /\ Move(c, i, "wanted", "opened")
  /\ UNCHANGED <<main, canceled, infraVars, conn, drained>>

\* ReadFrame returns the request, its last read meeting the client's end too if the
\* client ended its side with the request; or it meets the end before the frame is whole,
\* fails, and Handle closes the stream.  Handle reads no further, so the end of a client
\* that waits for its answer first is never read.
FrameArrives(c, i) ==
  /\ \/ Move(c, i, "reading", "running") /\ drained' = drained
     \/ /\ Move(c, i, "reading", "running") \/ Move(c, i, "reading", "closed")
        /\ drained' = [drained EXCEPT ![c] = @ \cup {i}]
  /\ UNCHANGED <<main, canceled, infraVars, conn>>

-----------------------------------------------------------------------------

Main ==
  \/ InitDefaultDB \/ InitDefaultCache \/ StartDeletionWorker \/ StartListener
  \/ AcceptCanceled \/ CloseListener \/ CloseCache \/ CloseDB

Next ==
  \/ StartupFails
  \/ Main
  \/ WorkerEnds
  \/ Signal
  \/ \E c \in Conns :
       \/ Dial(c) \/ Accept(c) \/ AcceptStream(c) \/ ConnectionEnds(c)
       \/ \E i \in Streams(c) :
            \/ OpenStreamSync(c, i) \/ StreamOpens(c, i) \/ FrameArrives(c, i)
            \/ HandleEnds(c, i)

Spec == Init /\ [][Next]_vars

\* Goroutines run, and QUIC lets a stream open once there is room.  A client need not
\* send anything.
FairSpec ==
  /\ Spec
  /\ WF_vars(Main)
  /\ \A c \in Conns :
       /\ WF_vars(Accept(c))
       /\ WF_vars(AcceptStream(c))
       /\ \A i \in Streams(c) : WF_vars(StreamOpens(c, i)) /\ WF_vars(HandleEnds(c, i))

-----------------------------------------------------------------------------
(* Properties. *)

InUse == worker = "running" \/ \E c \in Conns : \E i \in Streams(c) : stream[c][i] = "running"

\* No request and no run of the worker meets ErrDefaultDBNotInitialized or its Redis
\* counterpart, and the database and Redis are closed under a running one only after
\* shutdown began: main connects both before it starts anything that uses them.
ReadyBeforeUse ==
  Alive /\ InUse =>
    /\ db # "nil" /\ cache # "nil"
    /\ ~canceled => db = "open" /\ cache = "open"

\* After SIGTERM the process ends, whatever clients and requests do: the accept loop
\* tells the cancellation from other errors.
ShutdownCompletes == canceled ~> main = "exited"

\* A stream that was opened gets its goroutine although other streams of the
\* connection wait for their frame for ever.
StreamsServed ==
  \A c \in Conns : \A i \in Streams(c) :
    stream[c][i] = "opened" ~> stream[c][i] # "opened" \/ conn[c] = "ended" \/ ~Alive

\* Streams that keep their place although no goroutine will do anything about it: the
\* client has sent nothing yet, the chain returned nil, or the client did not end its
\* side with the request.
Stuck(c) ==
  {i \in Streams(c) : stream[c][i] \in {"reading", "left"}
                        \/ (stream[c][i] = "closed" /\ i \notin drained[c])}

\* A stream a client asks for opens unless all the places of its connection are stuck.
\* A request gives its place back only if Handle itself refuses it, or it fails, and its
\* client ended its side with it; every other one keeps its place for as long as the
\* connection lasts (router.go: Handle closes nothing once the chain returned nil;
\* stream.go: Close ends only the server's side).
StreamsOpen ==
  \A c \in Conns : \A i \in Streams(c) :
    stream[c][i] = "wanted" ~>
      \/ stream[c][i] # "wanted" \/ conn[c] = "ended" \/ ~Alive
      \/ Cardinality(Stuck(c)) >= MaxIncomingStreams

=============================================================================
