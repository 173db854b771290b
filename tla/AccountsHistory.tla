-------------------------- MODULE AccountsHistory --------------------------
(***************************************************************************)
(* Accounts with history variables: what a client or an operator who       *)
(* watched every request would remember.  They are computed from the       *)
(* step Accounts takes and never constrain it.                             *)
(***************************************************************************)
EXTENDS Accounts

VARIABLES
  barred,   \* call -> accounts whose deletion was pending ever since it began
  kept,     \* accounts whose deletion was cancelled and not scheduled again
  reopened, \* accounts whose deletion was scheduled again while the worker held them,
            \* until the worker lets them go
  stranded, \* accounts whose deletion was cut off after the claim: by a crash, by a
            \* failed DELETE or by the loss of ClaimDue's answer
  announced,\* [user, deleteAt] pairs: the last date account.delete told for an account,
            \* unless a later account.delete for it failed
  owners,   \* [token, user] pairs replies have handed out
  crossed,  \* [token, user] pairs: tokens that were put into a row of another account
            \* than the one their reply named, and that account
  spent,    \* tokens a LoginByToken has exchanged for a new one
  reusing   \* calls that presented a token already spent when they began

historyVars == <<barred, kept, reopened, stranded, announced, owners, crossed, spent, reusing>>

HInit ==
  /\ Init
  /\ barred = [c \in Calls |-> {}]
  /\ kept = {}
  /\ reopened = {}
  /\ stranded = {}
  /\ announced = {}
  /\ owners = {}
  /\ crossed = {}
  /\ spent = {}
  /\ reusing = {}

Begins(c) == pc[c] = "idle" /\ pc'[c] # "idle"

Returns(c) == Busy(c) /\ pc'[c] = "done"

\* c completes LoginByToken: its token is exchanged for the one it returns.
Exchanges(c) == Returns(c) /\ pc[c] = "RotateToken" /\ result'[c].err = "OK"

\* The pair of token and account a reply tells its client.
Reply(c) == [token |-> result'[c].token, user |-> result'[c].user]

\* The accounts of the row RotateToken overwrites: another one than the caller's
\* when someone else has logged in on the device since FindToken read the row.
RotatedUsers(c) == {t.user : t \in {s \in userTokens : s.id = call[c].tokenID}}

\* The tokens c puts into a row of another account than the one its reply names.
Crossings(c) ==
  {[token |-> result'[c].token, user |-> u] : u \in RotatedUsers(c) \ {result'[c].user}}

\* Pending deletions removed while the account stays.
Cancelled == (PendingUsers \ PendingUsers') \cap UserIDs'

\* Accounts the worker holds although their row is not started (any more).
Reopens == {id \in claimed : \E p \in pendingDeletions' : p.user = id /\ ~p.started}

\* Claims the worker loses to a failure in this step: those it held, and those
\* ClaimDue marks while its answer is lost.
CutOff ==
  {id \in claimed \cup {p.user : p \in Due} :
     id \notin claimed' /\ faults' + crashes' > faults + crashes}

\* Calls whose Upsert answers in this step, whatever it answers.
Scheduling == {c \in Calls : Returns(c) /\ pc[c] = "Upsert"}

Announces(c) == [user |-> call[c].user, deleteAt |-> result'[c].deleteAt]

HistoryStep ==
  /\ barred' = [c \in Calls |->
                  IF pc'[c] = "idle" THEN {}
                  ELSE IF Begins(c) THEN PendingUsers
                  ELSE barred[c] \cap PendingUsers']
  /\ kept' = (kept \cup Cancelled) \ PendingUsers'
  /\ reopened' = {id \in reopened \cup Reopens : id \in claimed' \/ id \notin UserIDs'}
  /\ stranded' = {id \in stranded \cup CutOff :
                    \E p \in pendingDeletions' : p.user = id /\ p.started}
  /\ announced' =
       {a \in announced : \A c \in Scheduling : call[c].user # a.user}
         \cup {Announces(c) : c \in {d \in Scheduling : result'[d].err = "OK"}}
  /\ LET replying == {c \in Calls : Returns(c) /\ result'[c].token # 0}
     IN /\ owners' = owners \cup {Reply(c) : c \in replying}
        /\ crossed' = crossed \cup
             UNION {Crossings(c) : c \in {d \in replying : pc[d] = "RotateToken"}}
  /\ spent' = spent \cup {call[c].token : c \in {d \in Calls : Exchanges(d)}}
  /\ reusing' = {c \in Calls : pc'[c] # "idle" /\ (c \in reusing \/
                                 (Begins(c) /\ call'[c].token \in spent))}

HNext == Next /\ HistoryStep

HSpec == HInit /\ [][HNext]_<<vars, historyVars>>

\* History does not get in the way of the steps Fairness is about.
HFairSpec == HSpec /\ Fairness

-----------------------------------------------------------------------------
(* Properties. *)

\* No login succeeds for an account whose deletion was pending during the whole
\* login: the check and the token statement are separate, but a login that is
\* let in overlapped a moment at which nothing was pending.
LoginRefusedWhilePending ==
  \A c \in Calls :
    pc[c] = "done" /\ result[c].err = "OK" /\ Mints(result[c].op) =>
      result[c].user \notin barred[c]

\* An account whose deletion was cancelled is deleted without being scheduled again
\* only in one case: the cancelled deletion had been scheduled while the worker already
\* held the account from an earlier one.  Upsert then clears started_at, which makes the
\* row cancellable, but not the worker's slice, and the worker goes on
\* (pending_account_deletions.go, delete.go).
CancelHonoured == kept \ reopened \subseteq UserIDs

\* A session token leads to the account named in the reply that carried it, however its
\* device's row is overwritten and rotated by others afterwards.  The one exception is a
\* LoginByToken whose device another account took over between its query and its
\* rotation: RotateToken goes by token_id alone, so the token it returns leads to the
\* account that took over, and to no third one.
TokenNamesItsOwner ==
  \A o \in owners, t \in userTokens :
    t.hash = hashToken(o.token) =>
      t.user = o.user \/ [token |-> o.token, user |-> t.user] \in crossed

\* A token that has been exchanged is refused by every login that begins later.
SpentTokenRejected ==
  \A c \in reusing : pc[c] = "done" => result[c].err # "OK"

\* No account is deleted before the date its owner was told last, whatever was scheduled
\* and cancelled before, unless that date was given while the worker already held the
\* account.
AnnouncedDateKept ==
  [][\A a \in announced :
       a.user \in UserIDs \ UserIDs' => a.deleteAt <= now \/ a.user \in reopened
    ]_<<vars, historyVars>>

\* A deletion marked started, which CancelIfNotStarted refuses to cancel, is in the hands
\* of the worker or is one whose claim a failure cut off: nobody else is refused a
\* cancellation while no one deletes the account.
StartedAreHeld == \A p \in pendingDeletions : p.started => p.user \in claimed \cup stranded

\* A pending deletion is carried out or cancelled; it never just stays, except when a
\* failure caught that very claim: the process died, the DELETE failed or ClaimDue's
\* answer was lost after the row was marked.  The restarted worker carries out all the
\* others, those it claims after the restart too.
ScheduledDeletionCompletes ==
  \A id \in 1..MaxUsers :
    id \in PendingUsers ~> id \notin PendingUsers \/ id \in stranded

-----------------------------------------------------------------------------
(* Statements of the repository that the code does not keep. *)

\* What tests/auth_test.go expects of token rotation: a token that one login has
\* exchanged is not accepted by another.
ReusedTokenRejected ==
  [][\A c \in Calls : Exchanges(c) => call[c].token \notin spent]_<<vars, historyVars>>

=============================================================================
