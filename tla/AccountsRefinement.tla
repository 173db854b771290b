------------------------- MODULE AccountsRefinement -------------------------
(***************************************************************************)
(* Accounts implements AccountLifecycle.  An account's stage is read off    *)
(* the tables; the accounts condemned are the worker's claimed slice.       *)
(***************************************************************************)
EXTENDS Accounts

Stage(id) ==
  CASE id >= nextUserID -> "unused"
    [] id < nextUserID /\ id \notin UserIDs -> "deleted"
    [] id \in UserIDs /\ StartedExists(id) -> "claimed"
    [] id \in UserIDs /\ ~StartedExists(id) /\ id \in PendingUsers -> "pending"
    [] OTHER -> "active"

Lifecycle ==
  INSTANCE AccountLifecycle
    WITH Users <- 1..MaxUsers, account <- [id \in 1..MaxUsers |-> Stage(id)],
         condemned <- claimed

\* Every statement of a request or of the worker, every failure and every crash
\* (auth.go, delete.go) moves accounts as AccountLifecycle allows or not at all: an
\* id never comes back, a claimed deletion is not cancelled, and only an account
\* the worker holds is deleted.
ImplementsLifecycle == Lifecycle!Spec

=============================================================================
