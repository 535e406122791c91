---------------------------- MODULE MCSyncInbox ----------------------------
(* Two users, a group and a direct conversation.  m1 and m1r are one send  *)
(* and its retry with a fresh uuid, m2 is addressed to the direct            *)
(* conversation, and m1x reuses m1's client key for the other conversation.  *)
EXTENDS SyncInbox, TLC

CONSTANTS m1, m1r, m1x, m2, g, d, w1, w2

MCUsers == {1, 2}
MCConvOf == (m1 :> g) @@ (m1r :> g) @@ (m2 :> d) @@ (m1x :> d)
MCKeyOf == (m1 :> 1) @@ (m1r :> 1) @@ (m2 :> 2) @@ (m1x :> 1)
MCRecipientsOf ==
    (m1 :> {{1, 2}}) @@ (m1r :> {{1}}) @@ (m2 :> {{1, 2}}) @@ (m1x :> {{1, 2}})
=============================================================================
