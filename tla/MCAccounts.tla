----------------------------- MODULE MCAccounts -----------------------------
(* Instances of Accounts, with its refinement of AccountLifecycle, for TLC. *)
EXTENDS AccountsRefinement, TLC

CONSTANTS c1, c2, alice, bob, p1, p2, d1, d2

Symmetry == Permutations(Calls) \cup Permutations(Usernames) \cup Permutations(Devices)
=============================================================================
