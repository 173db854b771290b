# PPgram: specifications of the server

PPgram is a QUIC messenger server in Go. At this commit it registers accounts,
logs devices in by password or by rotating session token, and deletes accounts
thirty days after their owner asks. This directory holds TLA+ models of that
code, the TLC runs that check them on small instances, and TLAPS proofs of the
main invariants for every value of the constants.

## The system

| part | source | state it keeps | operations |
|---|---|---|---|
| account service | `server/auth/auth.go`, `delete.go`, `utils/username.go` | none between calls; local variables between statements | Register, LoginByCredentials, LoginByToken, ScheduleAccountDeletion, CancelAccountDeletion |
| deletion worker | `server/auth/delete.go` | the slice of claimed rows | every interval: ClaimDue, then per account DeleteUserByID and RemoveUsername |
| repositories | `database/*.go` | PostgreSQL tables users, user_tokens, pending_account_deletions | one SQL statement per method, CancelIfNotStarted two |
| username cache | `cache/username.go` | Redis keys `username:<name>` | UsernameExists, SetUsername, RemoveUsername |
| sessions | `server/core/session/session.go` | one DeviceSession per connection; `userStates`: user -> device -> session | Authenticate, IsAuthenticated, UserID, Revoke, InvalidateUserSessions |
| handlers, middleware | `server/handlers`, `server/middleware` | none | one per route; AuthMiddleware in front of account.delete |
| router | `server/router` | the route table, fixed at startup; a context per stream | Group, Use, register; ServeConnection, Handle, Next, Send; contexts for update and transfer streams that no route uses |
| process | `main.go` | the default database and cache, the signal context | startup, accept loop, shutdown |
| transport | `server/transport` | QUIC listener, connections, streams | Start, Accept, AcceptStream, ReadFrame, WriteFrame, WriteFrom, ReadTo, Close |
| configuration, logging, messages, identifiers | `config`, `server/logging`, `server/protomsg`, `utils/uid.go`, `server/core/errors.go` | none that changes | |

`main.go` connects them: it opens the database and Redis (and exits if it
cannot), registers six routes, starts the worker and accepts connections. Each
connection has a goroutine and a DeviceSession; each of its streams carries one
request and has a goroutine of its own. Requests, and the worker, share the
tables, the cache and the session registry, and nothing serialises them beyond
single SQL statements and short critical sections. No code path opens a
transaction over two statements.

What is hard, and what has to be right:

* **account service and worker** - every check is a statement before the
  statement that relies on it. Names must stay unique, rows must refer to
  accounts that exist, a login must not succeed while a deletion is pending, a
  cancelled deletion must not happen, an account must live out its delay, and a
  scheduled deletion must complete. A statement may fail, or take effect and its
  answer be lost, and the process may die anywhere.
* **cache** - it answers "taken" without asking PostgreSQL, so a name left behind
  refuses registrations for ever.
* **tokens** - a device has one row whatever its user; tokens rotate at each use.
* **sessions** - double-checked creation of a UserState, a detach in three
  separate steps, revocation channels that must be closed once, displaced sessions.
* **requests** - every stream is answered once, and no early return keeps a lock.
* **router** - the middleware of a route must be what was declared for it although
  lists are Go slices, and a handler must not run before all of it has.
* **update streams** - numbering and end flags survive failed sends and whatever a
  client sends; a check of the session is made before a write or a read that may
  happen much later.
* **transport** - frames and raw transfers over a stream that cuts bytes anywhere
  and may fail inside a frame.
* **process** - nothing is used before it is connected, SIGTERM ends the process, a
  silent client blocks nobody else, and streams are a bounded resource.

`PROJECT.json` lists each of these as a hazard at the line where it bites.

## Modules

| module | models |
|---|---|
| `Database` | the three tables and the Redis set; one operator per statement, constraints as guards |
| `Accounts` | the account service and the worker, one action per statement; faults, crashes, time |
| `AccountsHistory` | `Accounts` with history variables for properties about past requests |
| `AccountLifecycle` | abstract: the stages of an account and what the worker holds |
| `AccountsRefinement` | the mapping under which `Accounts` implements `AccountLifecycle` |
| `Sessions` | DeviceSession, the registry, handlers, middleware and stream handling, composed with `AccountLifecycle` |
| `SessionsHistory` | `Sessions` with a history variable for `PendingSessionRefused` |
| `Server` | the process: startup, accept loop, goroutines per connection and stream, stream limit, shutdown |
| `Routes` | the route table, middleware slices, lookup and `BaseContext.Next` |
| `UpdateStreams` | the two update contexts and one session revoked and logged in again, over `FrameChannel` |
| `FrameChannel` | abstract: frames in order over a stream that may break |
| `QuicStream` | external: one direction of a quic-go stream, as bytes |
| `FrameStream` | WriteFrame and ReadFrame over `QuicStream`; implements `FrameChannel` |
| `RawTransfer` | WriteFrom and ReadTo over `QuicStream` |
| `Streams` | one stream that carries frames, a raw transfer or updates: `FrameStream`, `RawTransfer` and `UpdateStreams` put together for checking |
| `AccountsProofs`, `AccountsHistoryProofs`, `LifecycleProofs`, `SessionsProofs`, `ServerProofs`, `UpdateStreamsProofs`, `StreamsProofs`, `RoutesProofs` | theorems about the modules of these names; `LifecycleProofs` proves that `Accounts` implements `AccountLifecycle`, `SessionsProofs` is about `SessionsHistory` too |
| `MCAccounts`, `MCAccountsHistory`, `MCSessions`, `MCSessionsHistory`, `MCServer`, `MCRoutes` | instances for TLC: model values, symmetry, streams per connection, route strings |

Two chains hold the modules together. `Accounts` implements `AccountLifecycle`, and
`Sessions` calls its actions (`Service!Register`, `Service!Claim`, ...) and knows
nothing else of the service. `FrameStream` implements `FrameChannel`, and
`UpdateStreams` sends and receives through its actions.

A definition whose comment begins "Mutant" is a faulty variant of the definition
after it, used to show that a property notices the fault.

### Database and Accounts

A row is a record; a table is a set of rows. The UNIQUE constraint on
`username`, the foreign keys, the `ON CONFLICT` clauses and the cascading DELETE
are modelled where they act. User ids and tokens are counters standing for
random values that never repeat; a hash is its tagged preimage, so hashes are
compared and never inverted. A raw string is `[text, form]`: `form` says which
spelling of `text` it is (case, padding), and `NormalizeUsername` and
`TrimSpace` forget it.

`pc[c]` is the statement request `c` is about to issue, `call[c]` its arguments
and locals, `result[c]` what it returned. The local code after a statement is
part of the same action; the validation before the first statement is part of
the action that begins the call. A statement can

* succeed,
* fail without effect (`StatementFails`, `WorkerDeleteFails`), or
* take effect while its answer is lost (`LostAnswer` and the second disjunct of
  the worker's actions).

The cache behaves as in the code: an error of `UsernameExists` ends Register, an
error of `SetUsername` or `RemoveUsername` is ignored. `Crash` drops the requests
and the worker's slice and keeps the tables and Redis; SIGTERM, which cancels the
context every statement uses, is the same. `Tick` advances the clock and never
lets a request outlive `RequestSpan`, which is assumed shorter than the deletion
delay (minutes against thirty days). The worker's interval, one minute, is far
below a tick, so a run of the worker is possible at any instant. The worker's
ErrUserNotFound branch is one step although it issues a second statement:
`ClaimedUsersExist` shows that it is never taken.

### AccountsHistory

The history variables remember what the tables forget, for the properties about
several requests. They record every reply and every cancellation; where the code does
not keep a promise in one particular race, another history variable names that race
and the property says so:

* `kept` is every account whose deletion was cancelled and not scheduled again.
  `reopened` is those the worker held from an earlier claim while their deletion was
  scheduled again. `CancelHonoured` says that a cancelled account goes only in that
  case, and `AnnouncedDateKept` that an account goes before the date told last
  (`announced`) only in that case.
* `owners` is every pair of token and account a reply has handed out. `crossed` is the
  tokens RotateToken put into the row of another account, which had taken over the
  device since the row was read. `TokenNamesItsOwner` says that a token leads to the
  account of its reply or, if it was crossed, to the account that took over.
* `stranded` is the deletions whose own claim a failure cut off: a crash while the
  worker held them, a failed DELETE, or the loss of ClaimDue's answer. `StartedAreHeld`
  and `ScheduledDeletionCompletes` except these and no others, so a claim made after a
  restart has to be carried out.
* `barred`, `spent` and `reusing` serve `LoginRefusedWhilePending`, `SpentTokenRejected`
  and `ReusedTokenRejected`.

### Sessions

`sess[s]` holds the fields of a DeviceSession, `userStates` the concurrent map
(user to the number of a UserState object), `devices` the objects: a request that
fetched an object keeps using it after it has left the map, as a Go pointer does.
An action is one critical section or one operation on the map. The account
service and the worker are `AccountLifecycle`; an error of the service may hide a
statement that took effect. Every refusal but `Unauthorized` is the one answer
`Error`. A write to a stream may fail at any time, and always does once the
connection has ended (`gone`), after which the router's own error response fails
too. A session is never taken out of the registry because its connection ended. The
worker claims an account only when no request let in before its deletion was
scheduled is still running, which follows from the assumption on `RequestSpan`.

`escaped` is a history variable. It names the sessions an invalidation can miss, and
exactly why: another login displaced them on their device; GetUserByID failed or
found no account, so they were never registered; or their login overlapped an
invalidation of the same user. `SessionsTracked` and `InvalidationComplete` say
that there is no fourth way. `PendingSessionRefused` says what protects an account
from those that escaped: AuthMiddleware asks the database on every request.

### AccountLifecycle and the refinement

An account is `unused`, `active`, `pending`, `claimed` (its row has `started_at`) or
`deleted`; `condemned` is the slice the worker is working through. The mapping reads
the stage off the tables. What looks odd in the abstract specification is what the
code does: a claimed deletion may be scheduled anew and becomes `pending` while the
worker still holds it, so `Delete` takes an account in any stage.

### Server

`main` is the call the main goroutine is about to make. A stream goes from `wanted`
(its client waits in OpenStreamSync) to `opened`, `reading`, `running`, and ends
`closed` or `left`. Handle closes a stream on its own refusals (envelope, op, route) and
when the chain of middleware and handler returns an error. When the chain returns nil
the stream is left as it is, after a success as well as after the refusals that
AuthMiddleware and the handlers send and return the nil of.

Close ends the server's side only. quic-go counts a stream against `MaxIncomingStreams`
until both sides are done, so `drained` says on which streams a read of Handle has met
the end of the client's side, and `Held` keeps a stream until it is closed and drained.
Handle reads one frame and no further: only a client that ends its side together with
its request is drained. The client of the tests ends its side after it has the answer
(`tests/common.go`), so none of its streams is ever released. Requests run here without
their content. CloseDB is one step, although `pool.Close` waits for the connections in
use: the context every statement runs under is cancelled by then.

### Transport

`QuicStream` accepts any prefix of a write together with an error, and lets reads
return any number of bytes; after an error no write succeeds. `ShortWrites` allows
a short write without an error, which io.Writer forbids: `RawTransfer` is checked
with it because WriteFrom handles it, `FrameStream` without, because WriteFrame
does not look at how much of the header was accepted. A writer that takes all its bytes
and returns an error with them is allowed at either end. A byte has `Base` values;
with `Base = 2` the largest length is 15, so a payload of 16 is refused and
lengths use all four bytes of the header.

### UpdateStreams

A call of SendUpdate or NextUpdate is two steps: up to the check of `IsRevoked`, and
the write or read. In between other goroutines may revoke the session and log it in
again. The handler is arbitrary: it ignores errors or returns them. `inFlight` is a
history variable: the streams inside such a call at the last revocation.

### Routes

A route string is the sequence of its parts between dots. Middleware lists are
slices of a heap of arrays and `append` writes in place when the array has room; how
much room a new array has is left to the runtime, so it is chosen. `declared` and
`chain` are history variables with the lists as values. `cleanParts` is the loop of
normalizeRoute over the parts of a route string.

## Runs

| run | instance | shows |
|---|---|---|
| `deletions` | 2 callers, all operations, 1 name, 2 accounts over time, clock to 4 with delay 2, 1 fault, 1 crash | `TypeOK`, `RowsConsistent`, `UsernameUnique`, `CacheAccurate`, `ClaimedUsersExist`, `AccountLivesAtLeastDelay`, `ImplementsLifecycle` |
| `logins` | 2 callers, all operations, 2 users on 1 device, 3 tokens, clock to 1 with delay 1, history variables | `LoginRefusedWhilePending`, `TokenNamesItsOwner`, `SpentTokenRejected` |
| `completion` | 1 caller that registers, schedules and cancels, 2 accounts, claim limit 1, clock to 4 with delay 2, 1 crash, history variables, fairness | `ScheduledDeletionCompletes`, `CancelHonoured`, `AnnouncedDateKept`, `StartedAreHeld` |
| `registry` | 2 connections, 2 users, 2 devices, 4 requests 2 at a time, 1 failed query, the history variable | `TypeOK`, `AnsweredOnce`, `ChannelMatchesRevoked`, `SessionsTracked`, `InvalidationComplete`, `PendingSessionRefused` |
| `requests_end` | 2 connections of which 1 ends, 3 requests 2 at a time, 1 failed query, fairness | `RequestsEnd` |
| `process` | 2 connections with 3 and 1 streams, a limit of 2, fairness | `ReadyBeforeUse`, `ShutdownCompletes`, `StreamsServed`, `StreamsOpen` |
| `streams` | 2 frames with payloads of 0, 1, 3 and 16 bytes and two types; 5 bytes in chunks of 2, 3 (default) and 5; or an update stream of either kind, 3 calls, 3 arbitrary envelopes, 2 logins; fairness | `ImplementsFrameChannel`, `FramesDelivered`, `TotalsAreTrue`, `TransferComplete`, `UpdatesInOrder`, `RevokedUpdatesWereInFlight` |
| `route_table` | 3 calls while starting, 4 route strings, 2 middleware, then requests | `MiddlewareAsDeclared`, `HandlerAfterItsChain`, `EveryRouteReachable` |
| `cancel_ok` | 1 caller | `CancelOkKeepsAccount` is violated |
| `crashed_worker` | 1 caller, 1 crash, fairness | `StartedDeletionCompletes` is violated |
| `token_reuse` | 2 callers | `ReusedTokenRejected` is violated |
| `invalidated` | 2 connections, 1 request at a time | `SessionInvalidatedAfterDelete` is violated |

Bounds. Every hazard of the account service is between two requests, or a request
and the worker, so two callers reach it; a slot is used again after its request
has ended, so sequences of several requests occur. Two accounts over time let a
name be registered, deleted and registered again. A clock of two delays (`deletions`,
`completion`) lets a deletion be scheduled, cancelled, scheduled again and fall due, and
a request that began before the claim re-open it afterwards;
one delay (`logins`) lets a deletion fall due and be claimed and carried out while
requests run. A deletion is only scheduled if its date comes before the clock stops.
One caller is enough in `completion`, whose races are with the worker and with the
crash; the safety properties it checks are theorems for any number of callers, faults
and crashes. One fault and one crash at any place suffice to leave every
half-done state behind; `completion` has the crash only, and `logins` neither, to leave
room for a second user and a third token. Once a bound
of `Accounts` or `Sessions` is used up calls can still be made and refused, so their
runs check for deadlock; a process that has exited, a stream that was read to its
end and a handler that has returned really stop, so the others do not. The delay is 2
ticks and a request takes at most 1 (1 and 0 in `logins`, where dates do not matter),
which keeps the order of the real values. Four requests in `registry` allow two logins
and two deletions, or a login, an invalidation, a second login and an invalidation.
Streams of one connection meet only in the session, so one update stream at a time shows all a session's
changes can do to it. Three calls suffice to share a slice, extend it and overwrite
it; a stream limit of two stands for quic-go's hundred.
Symmetry is used in safety runs only; the permuted model values occur in no
ordered expression, and the numbered ids and tokens are not permuted.

Fairness. `completion` and `crashed_worker` assume weak fairness of each running
request's next statement (goroutines are scheduled and statements answer), of the
worker (its ticker fires until the context is cancelled) and of time. Clients
are not obliged to call anything and nothing is assumed about faults or crashes.
`requests_end` assumes weak fairness of handler steps only: a client that opens a
stream need never send its frame. `process` assumes weak fairness of main, of the
accept loops, of handlers that have their frame, and that QUIC opens a stream when
there is room; not of clients, the signal, or the worker. `streams` assumes that a writer inside
WriteFrame and a reader with bytes to read go on.

What the four violations show:

* `cancel_ok` - the two statements of `CancelIfNotStarted` can come after the
  worker's DELETE; the client is told OK for an account that is gone. The property
  also fails in a longer way than the one TLC prints: `Upsert` clears
  `started_at` of a row the worker has claimed, so the deletion can be cancelled and OK
  is answered, and the worker, which asks nothing more of the row, deletes the account.
  `CancelHonoured` shows that this is the only way a deletion that was really
  cancelled still happens.
* `crashed_worker` - `ClaimDue` skips rows already started, so an account whose
  deletion was interrupted is never deleted, never cancellable and never usable.
* `token_reuse` - two logins may find a token before either rotates it.
* `invalidated` - a second login on a device takes the first session's place in
  the registry without revoking it; account.delete on the first does not
  invalidate it. No concurrency is needed.

`StreamsOpen` states a limit of the code as it is: a request gives its place back only
if Handle refuses it or it fails, and its client ended its side with it. All others,
and with the tests' client every request, use up the streams of a connection; with
quic-go's default the request after the hundredth blocks in the client until the
connection ends. No document says how many requests a connection should serve.

## Proofs

All safety invariants and action properties of the runs, and the refinement of
`AccountLifecycle`, are theorems: they hold for any sets of callers, connections,
names, users, devices, streams and route strings, and for every value of the bounds.

| module | theorem | statement |
|---|---|---|
| `AccountsProofs` | `TypeCorrect` | `Spec => []TypeOK` |
| | `UsernamesAreUnique` | `Spec => []UsernameUnique` |
| | `TablesAreConsistent` | `Spec => []RowsConsistent` |
| | `WorkerFindsClaimedUsers` | `Spec => []ClaimedUsersExist` |
| | `DeletionRespectsDelay` | `Spec => AccountLivesAtLeastDelay` |
| | `CacheIsAccurate` | `Spec => []CacheAccurate` |
| `LifecycleProofs` | `LifecycleImplemented` | `Spec => ImplementsLifecycle` |
| `AccountsHistoryProofs` | `PendingLoginsAreRefused` | `HSpec => []LoginRefusedWhilePending` |
| | `CancellationsAreHonoured` | `HSpec => []CancelHonoured` |
| | `AnnouncedDatesAreKept` | `HSpec => AnnouncedDateKept` |
| | `StartedDeletionsAreHeld` | `HSpec => []StartedAreHeld` |
| | `TokensNameTheirOwners` | `HSpec => []TokenNamesItsOwner` |
| | `SpentTokensAreRejected` | `HSpec => []SpentTokenRejected` |
| `SessionsProofs` | `TypeCorrect` | `Spec => []TypeOK` |
| | `OneAnswer` | `Spec => []AnsweredOnce` |
| | `ChannelTheorem` | `Spec => []ChannelMatchesRevoked` |
| | `SessionsTrackedTheorem` | `Spec => []SessionsTracked` |
| | `InvalidationTheorem` | `Spec => InvalidationComplete` |
| | `PendingSessionTheorem` | `HistorySpec => []PendingSessionRefused` |
| `ServerProofs` | `ReadyBeforeUseTheorem` | `Spec => []ReadyBeforeUse` |
| `UpdateStreamsProofs` | `UpdatesInOrderTheorem` | `Spec => []UpdatesInOrder` |
| | `InFlightTheorem` | `Spec => RevokedUpdatesWereInFlight` |
| `StreamsProofs` | `TotalsTheorem` | `Spec => []TotalsAreTrue` |
| | `TransferCompleteTheorem` | `Spec => []TransferComplete` |
| | `StreamUpdatesTheorem` | `Spec => []UpdatesInOrder` |
| | `StreamInFlightTheorem` | `Spec => RevokedUpdatesWereInFlight` |
| | `FrameChannelTheorem` | `Spec => ImplementsFrameChannel` |
| `RoutesProofs` | `MiddlewareTheorem` | `Spec => []MiddlewareAsDeclared` |
| | `HandlerTheorem` | `Spec => []HandlerAfterItsChain` |
| | `ReachableTheorem` | `Spec => []EveryRouteReachable` |

The assumptions on the constants are stated where the constants are declared and
evaluated by TLC on every run: `Accounts` assumes `RequestSpan < Delay` (a request
takes minutes, the delay is thirty days), `ClaimLimit > 0`, that the markers for a
malformed name and a blank string are no usernames, and that there are finitely many
callers and accounts (`BoundsAssumption`, used to count in the refinement only).
`Streams` assumes that a byte has at least two values, that lengths are numbers and
that there is a frame to write; a chunk size may be negative, which WriteFrom replaces
by the default.
`Routes` assumes that parts of route strings are strings and that `root`, and not the
empty string, is a name, `Sessions` that `None` is nobody, and `Server` that numbers of
streams are numbers. `UpdateStreams` assumes nothing.

### Accounts

The inductive invariant `IndInv` is the conjunction of

* `Typed`: `TypeOK`, and that a call past its validation has valid arguments -
  without it the row a later INSERT writes could not be typed;
* `UsersInv`: ids below the counter, names and ids unique;
* `TokensInv`: tokens refer to users; devices, ids and hashes are unique and below
  the counter - needed because a row's id and hash come from it;
* `PendingInv`: pending rows refer to users and are unique per user; claimed
  accounts exist - preserved by the cascading DELETE because the worker takes an
  account out of its slice when it deletes it, and by nothing else removing users;
* `NoticeInv`: every pending deletion, and every date a request has computed but
  not yet written, is at least a delay after the account's creation, and claimed
  accounts are due. The date is computed before the statement, hence the clause
  about requests.

Lemma `Effects` says that every step changes the tables in one of seven ways, so
the invariants on tables are proved once per effect, not once per action; the
locals of calls and time have lemmas of their own. `CacheIsAccurate` needs more:
Register writes the cache after the INSERT, so a name could be cached after its
account is gone. `TimelyInv` (a running request is within `RequestSpan` of its
beginning) and `CreatedInv` (the account it created is younger than the request)
exclude that, since the worker cannot delete an account younger than the delay.

`LifecycleProofs` maps every statement to a step of `AccountLifecycle` or to a
stutter, from `AccountEffects`, a finer list of what a statement does to the tables
and to the worker's slice. One lemma per abstract action takes the effect to the
step. `RoomInv` counts: the ids used and the INSERTs under way together stay within
`MaxUsers`, so the id an INSERT writes is an account of the abstract specification.

`AccountsHistoryProofs` keeps one invariant per history variable. `OwnersInv`: tokens
handed out were generated before, so no new row can have one's hash, and a row that
holds one belongs to the account of its reply or to the one in `crossed`. `FoundInv`: a
call that has found the row of its token knows the only row that can hold it, which
is what rotation relies on. `SpentInv` and `ReusingInv`: a spent token is in no row,
and a call that presented one has not got past its first query. `BarredInv`: past
rejectIfPendingDeletion a login is for an account that was not pending at some moment
since it began. `KeptInv`: an account the worker holds whose deletion was cancelled, or
could be, was re-opened while it was held; `CancelHonoured` follows because only the
worker deletes. `AnnouncedInv`: a date told last is the one in the account's row as long
as there is a row, and has passed for an account the worker holds and that was not
re-opened. `StartedAreHeld` is inductive given `PendingInv` (`HeldStep`): a row becomes
started only in ClaimDue, and leaves the slice only with its account or by a failure.

### Sessions and Server

`SessionsProofs` first shows what the step of a request says of its locals
(`LocalsOK`), its answers (`AnswersOK`) and its session (`FieldsOK`). `SessionsTracked`
is not inductive: it counts a session as safe while any login of it is under way, and
that login may end without storing it. `Tracked` asks for a login that will store it,
for which `InitMuOK` (the request about to create a UserState holds the lock and its
user has none) and `NoOverlap` (a session that has not escaped is not being let in
while an invalidation of its user is under way) are needed. `TakenAll`: an
invalidation past its critical section on the UserState has taken every session of
its user that has not escaped, or another has; `InvalidationComplete` follows in the
step that ends it. `GuardedOK`: a request AuthMiddleware is bound to refuse has got no
further than the middleware.

In `ServerProofs`, `ReadyBeforeUse` needs that nothing runs before main has started it
(`NobodyYet`), and that the database, the cache and the worker follow main's calls
(`MainInv`, `DBInv`, `CacheInv`, `WorkerInv`, `ShutdownInv`).

### Streams

In `UpdateStreamsProofs` an action is first reduced to what one stream sees of it
(`View`, `StreamSteps`), so that the invariants are about one stream. `ServerInv` ties
the next number to the updates on the wire unless a failed write may have left one
there uncounted, in which case nothing more is written; `ClientInv` does so for
accepted updates; `OpenInv` says that no call is under way on a stream past its end.
`UpdatesAfter` and `InOrderAfter` say what appending a frame does to the positions of
the updates. `InFlightInv`: while the session is revoked, every call that has passed
the check was under way when it was revoked.

In `StreamsProofs`, `TransferInv` says of each end of a transfer what it has read,
written and still holds, as slices of the source (`Chunked`, `Copied`), and of `ok`
that the source was read to its end and closed (`Ended`). The composed specification
implements that of `UpdateStreams` (`ImplementsUpdateStreams`), which carries the
component's theorems over.

`FrameChannelTheorem` needs to know where on the wire every frame lies, also while one
is being written and after one was torn. `FrameInv` says that there are frames `fs` and
ends `b` (`Layout`) such that each byte of the wire is the byte of the frame it lies in
(`Shows`); that the frames sent are `fs`, or all but the last when the wire ends inside
that one (`SentInv`); that the writer is at the end of a frame or right after a header
unless a write has failed (`WriterInv`); and that the reader holds the bytes of the
wire after the last frame it returned (`ReaderInv`). A header is only ever read from
five bytes at a frame's start, and `LengthCodec`, that Uint32 undoes PutUint32 for every
length up to `MaxLength` in any base, makes it the header of that frame. So a reader
never takes bytes of two frames for one, and returns a frame only when all of it is on
the wire. That a failed write leaves the stream dead matters here: `WriteHeader`
would otherwise write a header into the middle of a torn payload.

### Routes

`MiddlewareAsDeclared` is about aliasing: it is inductive only with `RoutersApart` and
`RoutesApart`, that no array is shared by two routers or by a router and a route.
Two routes may share one (the nil slice) and need not be apart, since nothing appends
to a route's list. `AppendedSlice` says what `append` does to the slices of a heap,
in place or not. `RequestInv` says what a request has been through at each step of
Next. For `EveryRouteReachable`, `PathsInv` says that prefixes and paths are sequences
of names, and `CleanNames` that normalizeRoute leaves those as they are: an induction
over the parts, made from the library's theorem that finite subsets are well founded
(`LeastNatural`).

### Only model-checked

* The liveness properties (`ScheduledDeletionCompletes`, `RequestsEnd`,
  `ShutdownCompletes`, `StreamsServed`, `StreamsOpen`, `FramesDelivered`), which are
  out of the prover's reach.
* The four violations, which are counterexamples.

## Not modelled

TLS, configuration, logging and generated messages: no state that changes.
`CloseUserSessions`, `Revoked`, `OpenStream` and `CloseWithError` have no caller, so no
behaviour of the program takes them. The transfer contexts only decode a request and
send a response, and give a handler no way to the raw transfers yet. What a client
makes of the frames it reads is not in this repository; in particular an error
response and an update are told apart by position only. An update stream opened
before a revocation goes on after the session has logged in again if its handler made
no call in between; nothing in the repository says whether it should, so no property
speaks of it. Argon2 and SHA-256 are ideal. PostgreSQL statements are atomic (READ
COMMITTED single statements); `SKIP LOCKED` is modelled by ordering the claim after
the statement that held the row.

## Plan

1. Done: `Database`, `Accounts`, `AccountsHistory`, `AccountsProofs`.
2. Done: `AccountLifecycle` and the refinement; `Sessions` composed with it;
   `SessionsHistory`.
3. Done: `Server`, `Routes`, `UpdateStreams`, `FrameChannel`, `QuicStream`,
   `FrameStream`, `RawTransfer`.
4. Done: the safety invariants of all runs, the action properties and the refinements
   of `AccountLifecycle` and `FrameChannel` proved for every value of the constants.
5. Left: a theorem that carries `Accounts`' guarantees through `LifecycleImplemented`
   to `Sessions`.
