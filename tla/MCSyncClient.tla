---------------------------- MODULE MCSyncClient ----------------------------
(* Two tabs and three conversations, one of them a group that is pulled.  The *)
(* store holds two rows, fewer than there are conversations, so that both     *)
(* passes of the eviction are needed.                                        *)
EXTENDS SyncClient, TLC

\* A run fails or a user signs out, not both.
OneTrouble == faults + clears <= 1

Symmetry == Permutations(Tabs) \union Permutations(Conversations \ {Group})
=============================================================================
