------------------------- MODULE MCSessionsHistory --------------------------
(* Instances of SessionsHistory for TLC. *)
EXTENDS SessionsHistory, TLC

CONSTANTS r1, r2, s1, s2, alice, bob, d1, d2

Symmetry ==
  Permutations(Requests) \cup Permutations(Sessions) \cup Permutations(Users)
    \cup Permutations(Devices)

=============================================================================
