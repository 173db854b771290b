-------------------------- MODULE MCAccountsHistory --------------------------
(* Instances of AccountsHistory for TLC. *)
EXTENDS AccountsHistory, AccountsRefinement, TLC

CONSTANTS c1, c2, alice, bob, p1, p2, d1, d2

Symmetry == Permutations(Calls) \cup Permutations(Usernames) \cup Permutations(Devices)
=============================================================================
