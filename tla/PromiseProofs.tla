--------------------------- MODULE PromiseProofs ---------------------------
(***************************************************************************)
(* What the two abstract specifications promise their users: of the        *)
(* timelines, that a cursor is enough to read everything; of the           *)
(* authority, that an epoch that was granted to one authority is not       *)
(* granted to another one.                                                 *)
(***************************************************************************)
EXTENDS Timeline, Authority, TLAPS

-----------------------------------------------------------------------------
(* Timeline *)

\* Positions are positive and a cursor is a position of the line, so nothing
\* that is published later lands at or below it.
Placed ==
    /\ line = [u \in Users |-> line[u]]
    /\ cursor \in [Users -> Nat]
    /\ seen = [u \in Users |-> seen[u]]
    /\ \A u \in Users :
          /\ \A e \in line[u] : e[1] \in Nat \ {0}
          /\ cursor[u] = 0 \/ \E e \in line[u] : e[1] = cursor[u]

LEMMA PlacedInit == TLInit => Placed /\ Complete
  BY DEF TLInit, Placed, Complete

LEMMA PublishStep ==
  ASSUME Placed, Complete, Publish
  PROVE  \A u \in Users :
            /\ \A e \in line'[u] : e[1] \in Nat \ {0}
            /\ cursor'[u] = 0 \/ \E e \in line'[u] : e[1] = cursor'[u]
            /\ seen'[u] = {e \in line'[u] : e[1] <= cursor'[u]}
  <1> SUFFICES ASSUME NEW u \in Users
               PROVE  /\ \A e \in line'[u] : e[1] \in Nat \ {0}
                      /\ cursor'[u] = 0 \/ \E e \in line'[u] : e[1] = cursor'[u]
                      /\ seen'[u] = {e \in line'[u] : e[1] <= cursor'[u]}
    OBVIOUS
  <1>1. /\ line[u] \subseteq line'[u]
        /\ \A new \in Added(u) : new[1] \in Nat \ {0} /\ \A old \in line[u] : old[1] < new[1]
        /\ cursor' = cursor /\ seen' = seen
    BY DEF Publish
  <1>2. \A new \in Added(u) : ~ (new[1] <= cursor[u])
    BY <1>1 DEF Placed
  <1>3. {e \in line'[u] : e[1] <= cursor[u]} = {e \in line[u] : e[1] <= cursor[u]}
    BY <1>1, <1>2 DEF Added
  <1> QED BY <1>1, <1>3 DEF Added, Placed, Complete

LEMMA ReadStep ==
  ASSUME Placed, Complete, NEW u \in Users,
         cursor[u] < cursor'[u],
         cursor' = [cursor EXCEPT ![u] = cursor'[u]],
         seen' = [seen EXCEPT ![u] = @ \cup {e \in line[u] :
                                 cursor[u] < e[1] /\ e[1] <= cursor'[u]}],
         \E e \in line[u] : e[1] = cursor'[u],
         UNCHANGED line
  PROVE  Placed' /\ Complete'
  <1>1. cursor'[u] \in Nat /\ cursor' \in [Users -> Nat]
    BY DEF Placed
  <1>2. seen'[u] = {e \in line[u] : e[1] <= cursor'[u]}
    <2>1. seen'[u] = {e \in line[u] : e[1] <= cursor[u]}
                       \cup {e \in line[u] : cursor[u] < e[1] /\ e[1] <= cursor'[u]}
      BY DEF Placed, Complete
    <2>2. \A e \in line[u] : e[1] <= cursor'[u] <=>
              e[1] <= cursor[u] \/ (cursor[u] < e[1] /\ e[1] <= cursor'[u])
      BY <1>1 DEF Placed
    <2>3. {e \in line[u] : e[1] <= cursor'[u]}
            = {e \in line[u] : e[1] <= cursor[u] \/ (cursor[u] < e[1] /\ e[1] <= cursor'[u])}
      BY <2>2
    <2>4. @ = {e \in line[u] : e[1] <= cursor[u]}
                \cup {e \in line[u] : cursor[u] < e[1] /\ e[1] <= cursor'[u]}
      OBVIOUS
    <2> QED BY <2>1, <2>3, <2>4
  <1>3. \A x \in Users \ {u} : seen'[x] = seen[x] /\ cursor'[x] = cursor[x]
    BY DEF Placed
  <1>4. seen' = [x \in Users |-> seen'[x]]
    BY DEF Placed
  <1>5. Placed'
    BY <1>1, <1>3, <1>4 DEF Placed
  <1>6. ASSUME NEW x \in Users PROVE seen'[x] = {e \in line[x] : e[1] <= cursor'[x]}
    BY <1>2, <1>3 DEF Complete
  <1> QED BY <1>5, <1>6 DEF Complete

\* A reader that keeps only a cursor has been given exactly the entries at or
\* below it, forever.
THEOREM CursorIsEnough == TLSpec => []Complete
  <1>1. Placed /\ Complete /\ [TLNext]_tvars => Placed' /\ Complete'
    <2> SUFFICES ASSUME Placed, Complete, [TLNext]_tvars PROVE Placed' /\ Complete'
      OBVIOUS
    <2>1. CASE Publish
      <3>1. line' = [u \in Users |-> line'[u]] /\ cursor' = cursor /\ seen' = seen
        BY <2>1 DEF Publish
      <3> QED BY <2>1, <3>1, PublishStep DEF Placed, Complete
    <2>2. CASE Read
      BY <2>2, ReadStep DEF Read
    <2>3. CASE UNCHANGED tvars
      BY <2>3 DEF tvars, Placed, Complete
    <2> QED BY <2>1, <2>2, <2>3 DEF TLNext
  <1> QED BY PlacedInit, <1>1, PTL DEF TLSpec

-----------------------------------------------------------------------------
(* Authority *)

\* What was granted lies below the epoch in force, but for the grant itself;
\* in a frozen epoch nothing was granted yet.
Ordered ==
    /\ grant \in Grants \union {None}
    /\ granted \subseteq [epoch : Nat \ {0}, authority : Authorities]
    /\ grant = None => granted = {}
    /\ grant # None =>
          \A g \in granted :
              /\ g.epoch <= grant.epoch
              /\ g.epoch = grant.epoch => ~grant.frozen /\ g = Named(grant)

LEMMA OrderedInit == AInit => Ordered /\ OnePerEpoch
  BY DEF AInit, Ordered, OnePerEpoch

LEMMA GiveStep ==
  ASSUME Ordered, OnePerEpoch, None \notin Grants, NEW g \in Grants, ~g.frozen, Give(g),
         \A h \in granted : h.epoch < g.epoch
  PROVE  Ordered' /\ OnePerEpoch'
  <1>1. /\ Named(g) \in [epoch : Nat \ {0}, authority : Authorities]
        /\ Named(g).epoch = g.epoch
    BY DEF Grants, Named
  <1>2. grant' = g /\ g # None /\ granted' = granted \union {Named(g)}
    BY DEF Give
  <1>3. \A h \in granted : h.epoch \in Nat /\ g.epoch \in Nat
    BY DEF Ordered, Grants
  <1>4. \A h \in granted' : h.epoch <= g.epoch /\ (h.epoch = g.epoch => h = Named(g))
    BY <1>1, <1>2, <1>3 DEF Grants
  <1>5. Ordered'
    BY <1>1, <1>2, <1>4 DEF Ordered
  <1>6. OnePerEpoch'
    BY <1>1, <1>2, <1>3 DEF OnePerEpoch
  <1> QED BY <1>5, <1>6

LEMMA OrderedStep ==
  ASSUME First \in Authorities, None \notin Grants
  PROVE  Ordered /\ OnePerEpoch /\ [ANext]_gvars => Ordered' /\ OnePerEpoch'
  <1> SUFFICES ASSUME Ordered, OnePerEpoch, [ANext]_gvars PROVE Ordered' /\ OnePerEpoch'
    OBVIOUS
  <1>1. CASE Bootstrap
    <2> DEFINE g == [epoch |-> 1, authority |-> First, frozen |-> FALSE]
    <2>1. g \in Grants /\ ~g.frozen
      BY DEF Grants
    <2>2. granted = {} /\ Give(g)
      BY <1>1 DEF Bootstrap, Ordered
    <2> QED BY <2>1, <2>2, GiveStep
  <1>2. CASE Freeze
    <2> DEFINE g == [epoch |-> grant.epoch + 1, authority |-> grant.authority, frozen |-> TRUE]
    <2>1. grant \in Grants
      BY <1>2 DEF Freeze, Ordered
    <2>2. g \in Grants /\ g.epoch = grant.epoch + 1
      BY <2>1 DEF Grants
    <2>3. grant' = g /\ granted' = granted
      BY <1>2 DEF Freeze
    <2>4. grant' \in Grants /\ grant'.epoch = grant.epoch + 1 /\ grant' # None
      <3> HIDE DEF g
      <3> QED BY <2>2, <2>3
    <2>5. \A h \in granted : h.epoch \in Nat /\ h.epoch <= grant.epoch
      BY <1>2 DEF Ordered, Freeze
    <2>6. \A h \in granted' : h.epoch <= grant'.epoch /\ h.epoch # grant'.epoch
      BY <2>1, <2>3, <2>4, <2>5 DEF Grants
    <2> QED BY <2>3, <2>4, <2>6 DEF Ordered, OnePerEpoch
  <1>3. CASE Lapse
    BY <1>3 DEF Lapse, Ordered, OnePerEpoch
  <1>4. ASSUME NEW a \in Authorities, Activate(a) PROVE Ordered' /\ OnePerEpoch'
    <2> DEFINE g == [epoch |-> grant.epoch, authority |-> a, frozen |-> FALSE]
    <2>1. grant \in Grants /\ grant.frozen /\ Give(g)
      BY <1>4 DEF Activate, Ordered
    <2>2. g \in Grants /\ ~g.frozen /\ g.epoch = grant.epoch
      BY <2>1 DEF Grants
    <2>3. \A h \in granted : h.epoch < grant.epoch
      BY <1>4, <2>1 DEF Activate, Ordered, Grants
    <2> QED BY <2>1, <2>2, <2>3, GiveStep
  <1>5. CASE UNCHANGED gvars
    BY <1>5 DEF gvars, Ordered, OnePerEpoch
  <1> QED BY <1>1, <1>2, <1>3, <1>4, <1>5 DEF ANext

\* Between two lapses no epoch is granted to two authorities: a process that
\* compares its epoch and its authority with the fence never delivers beside a
\* process of the other plane.
THEOREM OneGrantPerEpoch ==
  ASSUME First \in Authorities, None \notin Grants
  PROVE  ASpec => []OnePerEpoch
  BY OrderedInit, OrderedStep, PTL DEF ASpec
=============================================================================
