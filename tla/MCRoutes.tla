------------------------------ MODULE MCRoutes ------------------------------
(* Instances of Routes for TLC. *)
EXTENDS Routes

\* "", "a", "root" and ".a"
MCArgs == {<<"">>, <<"a">>, <<"root">>, <<"", "a">>}

\* "", "a", "root", "a.a", "a..a" and "a1"
MCOps == {<<"">>, <<"a">>, <<"root">>, <<"a", "a">>, <<"a", "", "a">>, <<"a1">>}

=============================================================================
