----------------------------- MODULE Authority -----------------------------
(***************************************************************************)
(* What the delivery fence promises, whoever writes it: an authority is    *)
(* replaced by being frozen in the next epoch first, so that no two ever   *)
(* deliver in one epoch, as long as the grant is kept alive.               *)
(*                                                                         *)
(* The abstract specification implemented by DeliveryFence, whose requests *)
(* race, are repeated and time out, and kept by Cutover, which makes them. *)
(***************************************************************************)
EXTENDS Naturals

CONSTANTS Authorities, First, None

VARIABLES grant,    \* the grant that is in force, or None
          granted   \* who was granted which epoch since the last lapse

gvars == <<grant, granted>>

Grants == [epoch : Nat \ {0}, authority : Authorities, frozen : BOOLEAN]

Named(g) == [epoch |-> g.epoch, authority |-> g.authority]

AInit == grant = None /\ granted = {}

Give(g) == grant' = g /\ granted' = granted \union {Named(g)}

Bootstrap ==
    /\ grant = None
    /\ Give([epoch |-> 1, authority |-> First, frozen |-> FALSE])

Freeze ==
    /\ grant # None /\ ~grant.frozen
    /\ grant' = [epoch |-> grant.epoch + 1, authority |-> grant.authority, frozen |-> TRUE]
    /\ UNCHANGED granted

Activate(a) ==
    /\ grant # None /\ grant.frozen
    /\ Give([epoch |-> grant.epoch, authority |-> a, frozen |-> FALSE])

\* The fence is lost, and with it the count of its epochs.
Lapse == grant' = None /\ granted' = {}

ANext == Bootstrap \/ Freeze \/ Lapse \/ \E a \in Authorities : Activate(a)

ASpec == AInit /\ [][ANext]_gvars

\* The promise: no epoch is granted to two authorities.
OnePerEpoch == \A g, h \in granted : g.epoch = h.epoch => g = h
=============================================================================
