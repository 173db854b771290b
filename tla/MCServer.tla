----------------------------- MODULE MCServer ------------------------------
(* The instance of Server for TLC. *)
EXTENDS Server, TLC

CONSTANTS c1, c2

\* One client asks for more streams than a connection may hold.
MCMaxStreams == c1 :> 3 @@ c2 :> 1

=============================================================================
