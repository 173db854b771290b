--------------------------- MODULE SessionsHistory --------------------------
(***************************************************************************)
(* Sessions with a history variable: the account.delete requests whose      *)
(* session has belonged, ever since the request reached its middleware, to  *)
(* one and the same account with a pending deletion.                        *)
(***************************************************************************)
EXTENDS Sessions

VARIABLE guarded

historyVars == <<vars, guarded>>

PendingDeletion(u) == u # None /\ account[u] \in {"pending", "claimed"}

UserOf(r) == IF req[r].session = None THEN None ELSE sess[req[r].session].user

HistoryInit == Init /\ guarded = {}

HistoryNext ==
  /\ Next
  /\ guarded' = {r \in Requests :
                   /\ pc'[r] # "idle"
                   /\ PendingDeletion(UserOf(r))'
                   /\ \/ pc[r] = "ReadFrame" /\ pc'[r] = "MwAuth"
                      \/ r \in guarded /\ UserOf(r)' = UserOf(r)}

HistorySpec == HistoryInit /\ [][HistoryNext]_historyVars

\* A request for a protected route on a session whose account's deletion is pending, or
\* already under way, is refused, whatever the invalidation missed and whatever other
\* requests and the worker do meanwhile: AuthMiddleware asks the database, not the
\* session (middleware/auth.go).
PendingSessionRefused ==
  \A r \in guarded : pc[r] \in {"MwAuth", "MwUser", "MwPending", "done"}

=============================================================================
