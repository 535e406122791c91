----------------------------- MODULE MCPresence -----------------------------
(* Two connections of a user to two nodes, and one failure.  *)
EXTENDS Presence, TLC

CONSTANTS c1, c2, n1, n2

MCNodeOf == (c1 :> n1) @@ (c2 :> n2)
=============================================================================
