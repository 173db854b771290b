-------------------------- MODULE AccountLifecycle --------------------------
(***************************************************************************)
(* What the account service and its deletion worker promise the rest of    *)
(* the server about an account, with tables, statements, dates and failures *)
(* left out.  Accounts implements it (AccountsRefinement); Sessions is      *)
(* composed with it and uses nothing else of the service.                   *)
(***************************************************************************)
CONSTANT Users   \* account ids; an id names one account for ever

VARIABLES
  account,    \* user -> where the account is in its life
  condemned   \* the accounts the worker has claimed and is about to delete

lifecycleVars == <<account, condemned>>

\* "claimed": marked started, which a cancellation does not undo.
Stages == {"unused", "active", "pending", "claimed", "deleted"}

TypeOK == account \in [Users -> Stages] /\ condemned \subseteq Users

Init ==
  /\ account = [u \in Users |-> "unused"]
  /\ condemned = {}

Becomes(u, from, to) ==
  /\ account[u] \in from
  /\ account' = [account EXCEPT ![u] = to]

Register(u) == Becomes(u, {"unused"}, "active") /\ UNCHANGED condemned

\* A deletion may be scheduled anew, even one the worker has claimed; the worker
\* does not notice.
ScheduleDeletion(u) ==
  Becomes(u, {"active", "pending", "claimed"}, "pending") /\ UNCHANGED condemned

CancelDeletion(u) == Becomes(u, {"pending"}, "active") /\ UNCHANGED condemned

\* The worker, when it holds no account, claims some that are pending; it may
\* never learn which (its statement's answer is lost).
Claim(S) ==
  /\ condemned = {}
  /\ S # {}
  /\ \A u \in S : account[u] = "pending"
  /\ account' = [u \in Users |-> IF u \in S THEN "claimed" ELSE account[u]]
  /\ condemned' \in {S, {}}

\* The account goes, whatever has become of its pending deletion.
Delete(u) ==
  /\ u \in condemned
  /\ Becomes(u, {"active", "pending", "claimed"}, "deleted")
  /\ condemned' = condemned \ {u}

\* A failed DELETE or a crash: the worker forgets accounts it has claimed.
GiveUp ==
  /\ condemned' \in SUBSET condemned
  /\ UNCHANGED account

Next ==
  \/ GiveUp
  \/ \E u \in Users : Register(u) \/ ScheduleDeletion(u) \/ CancelDeletion(u) \/ Delete(u)
  \/ \E S \in SUBSET Users : Claim(S)

Spec == Init /\ [][Next]_lifecycleVars

=============================================================================
