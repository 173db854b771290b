------------------------------ MODULE Database ------------------------------
(***************************************************************************)
(* The PostgreSQL tables of database/*.go and the Redis username set of    *)
(* cache/username.go, with one operator per SQL statement or Redis command *)
(* the repositories issue.  A statement is atomic; a repository method     *)
(* that issues two statements is two operators here, and its caller takes  *)
(* two steps.  The tables are sets of rows.  Columns no code path reads    *)
(* (display_name, device_name, issued_at, last_used_at, scheduled_at) and  *)
(* columns nothing ever sets (expires_at, revoked_at) are left out.        *)
(***************************************************************************)
EXTENDS Naturals, FiniteSets

VARIABLES
  users,             \* rows [id, username, passwordHash, createdAt]
  userTokens,        \* rows [id, user, device, hash]
  pendingDeletions,  \* rows [user, deleteAt, started]
  usernames,         \* the Redis keys username:<name>; their values are never read
  nextUserID,        \* gen_random_uuid(): ids below it have been given out
  nextToken,         \* rand.Read: session tokens below it have been generated
  now                \* the clock, in ticks

tables == <<users, userTokens, pendingDeletions>>

dbVars == <<users, userTokens, pendingDeletions, usernames, nextUserID, nextToken, now>>

InitDatabase ==
  /\ users = {}
  /\ userTokens = {}
  /\ pendingDeletions = {}
  /\ usernames = {}
  /\ nextUserID = 1
  /\ nextToken = 1
  /\ now = 0

-----------------------------------------------------------------------------
(* Hashes.  Argon2id with a random salt is only ever compared through      *)
(* verifyPassword, SHA-256 only through equality: both are taken to be     *)
(* collision free, and a hash is the tagged preimage.                      *)

hashPassword(password) == [argon2id |-> password]

verifyPassword(password, encoded) == encoded = [argon2id |-> password]

hashToken(token) == [sha256 |-> token]

-----------------------------------------------------------------------------
(* users *)

UserIDs == {u.id : u \in users}

IsUsernameAvailable(username) == \A u \in users : u.username # username

\* The row SELECT finds, as a set of at most one element.
GetUserByUsername(username) == {u \in users : u.username = username}

\* Mutant: the username column without its UNIQUE constraint.
CreateUserNotUnique(username, passwordHash) ==
  /\ users' = users \cup {[id |-> nextUserID, username |-> username,
                           passwordHash |-> passwordHash, createdAt |-> now]}
  /\ nextUserID' = nextUserID + 1

\* The INSERT, enabled when the UNIQUE constraint on username accepts it.  A
\* constraint violation (23505) is CreateUser's ErrUsernameTaken.
CreateUser(username, passwordHash) ==
  /\ \A u \in users : u.username # username
  /\ users' = users \cup {[id |-> nextUserID, username |-> username,
                           passwordHash |-> passwordHash, createdAt |-> now]}
  /\ nextUserID' = nextUserID + 1

\* Mutant: pending_account_deletions references users without ON DELETE CASCADE
\* and without the constraint that would then refuse the DELETE.
DeleteUserKeepsPending(id) ==
  /\ users' = {u \in users : u.id # id}
  /\ userTokens' = {t \in userTokens : t.user # id}
  /\ UNCHANGED pendingDeletions

\* Mutant: the same for user_tokens.
DeleteUserKeepsTokens(id) ==
  /\ users' = {u \in users : u.id # id}
  /\ pendingDeletions' = {p \in pendingDeletions : p.user # id}
  /\ UNCHANGED userTokens

\* The DELETE cascades to both tables that reference users(user_id).
DeleteUserByID(id) ==
  /\ users' = {u \in users : u.id # id}
  /\ userTokens' = {t \in userTokens : t.user # id}
  /\ pendingDeletions' = {p \in pendingDeletions : p.user # id}

-----------------------------------------------------------------------------
(* user_tokens *)

GetActiveByTokenHash(hash) == {t \in userTokens : t.hash = hash}

\* Mutant: the conflict clause forgets user_id = EXCLUDED.user_id.
UpsertKeepsUser(user, device, token) ==
  /\ user \in UserIDs
  /\ userTokens' =
       IF \E t \in userTokens : t.device = device
       THEN {IF t.device = device THEN [t EXCEPT !.hash = hashToken(token)] ELSE t :
             t \in userTokens}
       ELSE userTokens \cup {[id |-> token, user |-> user, device |-> device,
                              hash |-> hashToken(token)]}

\* device_id is UNIQUE over all users, so a device has one row: the conflict
\* clause moves it to the new user and replaces its hash, keeping token_id.
\* Every stored hash is of a fresh token, so that token's number serves as the
\* BIGSERIAL id of a row inserted with it.  The foreign key requires the user.
UpsertActiveToken(user, device, token) ==
  /\ user \in UserIDs
  /\ userTokens' =
       IF \E t \in userTokens : t.device = device
       THEN {IF t.device = device
             THEN [t EXCEPT !.user = user, !.hash = hashToken(token)]
             ELSE t : t \in userTokens}
       ELSE userTokens \cup {[id |-> token, user |-> user, device |-> device,
                              hash |-> hashToken(token)]}

\* Mutant: the UPDATE touches last_used_at only.
RotateKeepsHash(id, token) == UNCHANGED userTokens

\* WHERE token_id = $1: neither the old hash nor the user is compared.
RotateToken(id, token) ==
  userTokens' = {IF t.id = id THEN [t EXCEPT !.hash = hashToken(token)] ELSE t :
                 t \in userTokens}

-----------------------------------------------------------------------------
(* pending_account_deletions *)

PendingUsers == {p.user : p \in pendingDeletions}

ExistsActiveByUserID(user) == user \in PendingUsers

\* Mutant: user_id without its foreign key.
UpsertUnreferenced(user, deleteAt) ==
  pendingDeletions' =
    {p \in pendingDeletions : p.user # user}
      \cup {[user |-> user, deleteAt |-> deleteAt, started |-> FALSE]}

\* Mutant: ON CONFLICT leaves the date as it was.
UpsertKeepsDate(user, deleteAt) ==
  /\ user \in UserIDs
  /\ pendingDeletions' =
       IF user \in PendingUsers
       THEN {IF p.user = user THEN [p EXCEPT !.started = FALSE] ELSE p : p \in pendingDeletions}
       ELSE pendingDeletions
              \cup {[user |-> user, deleteAt |-> deleteAt, started |-> FALSE]}

\* INSERT or, on conflict, a new date and started_at = NULL.
Upsert(user, deleteAt) ==
  /\ user \in UserIDs
  /\ pendingDeletions' =
       {p \in pendingDeletions : p.user # user}
         \cup {[user |-> user, deleteAt |-> deleteAt, started |-> FALSE]}

\* Mutant: the DELETE without AND started_at IS NULL.
CancellableStarted(user) == {p \in pendingDeletions : p.user = user}

\* The rows the first statement of CancelIfNotStarted deletes.
Cancellable(user) == {p \in pendingDeletions : p.user = user /\ ~p.started}

\* The second statement of CancelIfNotStarted.
StartedExists(user) == \E p \in pendingDeletions : p.user = user /\ p.started

DeleteByUserID(user) == {p \in pendingDeletions : p.user # user}

\* Mutant: WHERE started_at IS NULL without the comparison of delete_at.
DueAtOnce == {p \in pendingDeletions : ~p.started}

Due == {p \in pendingDeletions : p.deleteAt <= now /\ ~p.started}

\* The batches ClaimDue(limit) may return: the earliest due rows, up to limit,
\* ties broken either way.  A row SKIP LOCKED passes over is being written by
\* a request, whose statement is then ordered before the claim.
ClaimBatches(limit) ==
  {B \in SUBSET Due :
     /\ Cardinality(B) = IF Cardinality(Due) < limit THEN Cardinality(Due) ELSE limit
     /\ \A p \in B, q \in Due \ B : p.deleteAt <= q.deleteAt}

\* Mutant: the UPDATE matches every due row, the LIMIT only what is returned.
ClaimAllDue(B) ==
  pendingDeletions' = {IF p \in Due THEN [p EXCEPT !.started = TRUE] ELSE p :
                       p \in pendingDeletions}

\* The UPDATE of ClaimDue: the batch is marked started.
ClaimDue(B) ==
  pendingDeletions' = {IF p \in B THEN [p EXCEPT !.started = TRUE] ELSE p :
                       p \in pendingDeletions}

=============================================================================
