----------------------------- MODULE MCSessions -----------------------------
(* Instances of Sessions for TLC. *)
EXTENDS Sessions

CONSTANTS r1, r2, s1, s2, alice, bob, d1, d2
=============================================================================
