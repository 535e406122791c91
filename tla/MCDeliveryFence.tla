-------------------------- MODULE MCDeliveryFence --------------------------
(* Two operators, two transition ids, a clock of three ticks.  A lease is at *)
(* most two ticks and a receipt is kept exactly as long, the least that the *)
(* configuration allows; the last epoch is 2.                               *)
EXTENDS DeliveryFence, TLC

CONSTANTS go1, go2, cpp2, o1, o2, i1, i2

MCLocal == (go1 :> "go") @@ (go2 :> "go") @@ (cpp2 :> "cpp")
MCExpected == (go1 :> 1) @@ (go2 :> 2) @@ (cpp2 :> 2)

Symmetry == Permutations(Operators) \union Permutations(Ids)
=============================================================================
