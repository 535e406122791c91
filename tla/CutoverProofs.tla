--------------------------- MODULE CutoverProofs ---------------------------
(***************************************************************************)
(* Proofs about Cutover for any controllers, operators, nodes, manifests   *)
(* and deployments: its type invariant, that the fence is at most one      *)
(* transition ahead of the journal, that the journal is true of it, that   *)
(* who confirmed a freeze has drained, and that an attempt moves the fence *)
(* as Authority does.                                                      *)
(***************************************************************************)
EXTENDS Cutover, FiniteSetTheorems, TLAPS

USE CutoverAssumption DEF CutoverAssumption

-----------------------------------------------------------------------------
(* The journal: what an event does to the state *)

Projections == [state : States, needsFreeze : BOOLEAN]

LEMMA StateNames ==
  /\ States = {"created", "source_checkpointed", "freeze_applied", "frozen_confirmed",
               "target_activated", "target_checkpointed", "completed", "rollback_requested",
               "rollback_freeze_applied", "rollback_frozen_confirmed", "source_reactivated",
               "rollback_checkpointed", "rolled_back"}
  /\ DOMAIN Renewed = {"created", "source_checkpointed", "freeze_applied", "frozen_confirmed",
               "target_activated", "target_checkpointed", "rollback_requested",
               "rollback_freeze_applied", "rollback_frozen_confirmed", "source_reactivated"}
  BY DEF States, Order, Renewed

LEMMA Orders ==
  /\ Order["created"] = {"source_checkpointed"}
  /\ Order["source_checkpointed"] = {"freeze_applied"}
  /\ Order["freeze_applied"] = {"frozen_confirmed", "rollback_requested"}
  /\ Order["frozen_confirmed"] = {"target_activated", "rollback_requested"}
  /\ Order["target_activated"] = {"target_checkpointed", "rollback_requested"}
  /\ Order["target_checkpointed"] = {"completed", "rollback_requested"}
  /\ Order["completed"] = {"rollback_requested"}
  /\ Order["rollback_requested"] = {"rollback_freeze_applied", "rollback_frozen_confirmed"}
  /\ Order["rollback_freeze_applied"] = {"rollback_frozen_confirmed"}
  /\ Order["rollback_frozen_confirmed"] = {"source_reactivated"}
  /\ Order["source_reactivated"] = {"rollback_checkpointed"}
  /\ Order["rollback_checkpointed"] = {"rolled_back"}
  /\ Order["rolled_back"] = {}
  BY DEF Order

\* The moves of an attempt that are no renewals.
Moves == {<<"created", "source_checkpointed">>, <<"source_checkpointed", "freeze_applied">>,
          <<"freeze_applied", "frozen_confirmed">>, <<"freeze_applied", "rollback_requested">>,
          <<"frozen_confirmed", "target_activated">>, <<"frozen_confirmed", "rollback_requested">>,
          <<"target_activated", "target_checkpointed">>, <<"target_activated", "rollback_requested">>,
          <<"target_checkpointed", "completed">>, <<"target_checkpointed", "rollback_requested">>,
          <<"completed", "rollback_requested">>,
          <<"rollback_requested", "rollback_freeze_applied">>,
          <<"rollback_requested", "rollback_frozen_confirmed">>,
          <<"rollback_freeze_applied", "rollback_frozen_confirmed">>,
          <<"rollback_frozen_confirmed", "source_reactivated">>,
          <<"source_reactivated", "rollback_checkpointed">>, <<"rollback_checkpointed", "rolled_back">>}

\* And where a renewal leads back to.
Returns == {<<"created", "created">>, <<"source_checkpointed", "created">>,
            <<"freeze_applied", "freeze_applied">>, <<"frozen_confirmed", "freeze_applied">>,
            <<"target_activated", "target_activated">>, <<"target_checkpointed", "target_activated">>,
            <<"rollback_requested", "rollback_requested">>,
            <<"rollback_freeze_applied", "rollback_freeze_applied">>,
            <<"rollback_frozen_confirmed", "rollback_freeze_applied">>,
            <<"source_reactivated", "source_reactivated">>}

LEMMA RenewalReturns ==
  ASSUME NEW p \in Projections, Accepts(p, "lease_renewed")
  PROVE  /\ After(p, "lease_renewed") \in Projections
         /\ After(p, "lease_renewed").needsFreeze = p.needsFreeze
         /\ <<p.state, After(p, "lease_renewed").state>> \in Returns
  <1>1. p.state \in DOMAIN Renewed
    BY DEF Accepts
  <1>2. <<p.state, Renewed[p.state]>> \in Returns /\ Renewed[p.state] \in States
    BY <1>1, StateNames DEF Renewed, Returns
  <1>3. After(p, "lease_renewed") = [p EXCEPT !.state = Renewed[@]]
    BY DEF After
  <1> QED BY <1>2, <1>3 DEF Projections

LEMMA EventMoves ==
  ASSUME NEW p \in Projections, NEW e \in Events, e # "lease_renewed", Accepts(p, e)
  PROVE  /\ After(p, e) \in Projections
         /\ After(p, e).state = e
         /\ <<p.state, e>> \in Moves
         /\ p.state = "rollback_requested" => (p.needsFreeze <=> e = "rollback_freeze_applied")
         /\ e = "rollback_requested" =>
              (After(p, e).needsFreeze <=>
                 p.state \in {"target_activated", "target_checkpointed", "completed"})
  <1>1. e \in Order[p.state] /\ p.state \in States /\ e \in States
    BY DEF Accepts, Projections, Events
  <1>2. <<p.state, e>> \in Moves
    BY <1>1, StateNames, Orders DEF Moves
  <1>3. p.state = "rollback_requested" => (p.needsFreeze <=> e = "rollback_freeze_applied")
    BY DEF Accepts
  <1> DEFINE needs == \/ /\ e = "rollback_requested"
                         /\ p.state \in {"target_activated", "target_checkpointed", "completed"}
                      \/ e = "rollback_freeze_applied"
                      \/ e = "rollback_frozen_confirmed" /\ p.state = "rollback_freeze_applied"
  <1>4. After(p, e) = [state |-> e, needsFreeze |-> needs]
    BY DEF After
  <1>5. needs \in BOOLEAN
    OBVIOUS
  <1>6. e = "rollback_requested" =>
          (needs <=> p.state \in {"target_activated", "target_checkpointed", "completed"})
    OBVIOUS
  <1> HIDE DEF needs
  <1>7. After(p, e) \in Projections /\ After(p, e).state = e /\ After(p, e).needsFreeze = needs
    BY <1>1, <1>4, <1>5 DEF Projections
  <1> QED BY <1>2, <1>3, <1>6, <1>7

\* How far an attempt has gone; every switch of the fence is a new stage.
Stage == [
    created |-> 0, source_checkpointed |-> 0, freeze_applied |-> 1, frozen_confirmed |-> 1,
    target_activated |-> 2, target_checkpointed |-> 2, completed |-> 2,
    rollback_requested |-> 3, rollback_freeze_applied |-> 4, rollback_frozen_confirmed |-> 4,
    source_reactivated |-> 5, rollback_checkpointed |-> 5, rolled_back |-> 5]

Switches == FreezeEvents \union ActivateEvents

LEMMA SwitchNames ==
  /\ Switches = {"freeze_applied", "rollback_freeze_applied", "target_activated", "source_reactivated"}
  /\ LeaseEvents = Switches \union {"lease_renewed"} /\ "lease_renewed" \notin Switches
  /\ LeaseEvents \subseteq Events
  BY StateNames DEF Switches, LeaseEvents, FreezeEvents, ActivateEvents, Events

LEMMA StageType == \A s \in States : Stage[s] \in 0..5
  BY StateNames DEF Stage

LEMMA StageGrows ==
  ASSUME NEW p \in Projections, NEW e \in Events, Accepts(p, e)
  PROVE  /\ Stage[p.state] <= Stage[After(p, e).state]
         /\ e \in Switches => After(p, e).state = e /\ Stage[p.state] < Stage[e]
  <1>1. CASE e = "lease_renewed"
    <2>1. <<p.state, After(p, e).state>> \in Returns
      BY <1>1, RenewalReturns
    <2>2. \A s, t : <<s, t>> \in Returns => Stage[s] <= Stage[t]
      BY DEF Returns, Stage
    <2> QED BY <1>1, <2>1, <2>2, SwitchNames
  <1>2. CASE e # "lease_renewed"
    <2>1. <<p.state, e>> \in Moves /\ After(p, e).state = e
      BY <1>2, EventMoves
    <2>2. \A s, t : <<s, t>> \in Moves => Stage[s] <= Stage[t] /\ (t \in Switches => Stage[s] < Stage[t])
      BY SwitchNames DEF Moves, Stage
    <2> QED BY <2>1, <2>2
  <1> QED BY <1>1, <1>2

-----------------------------------------------------------------------------
(* What a state says of the fence, and what an event does to that *)

Facts == [authority : Authorities, phase : Phases, epoch : Epochs]

Fields(x) == [authority |-> x.authority, phase |-> x.phase, epoch |-> x.epoch]

Fact(authority, phase, epoch) == [authority |-> authority, phase |-> phase, epoch |-> epoch]

Changed(f, e) ==
    CASE e \in FreezeEvents -> Fact(f.authority, "frozen", f.epoch + 1)
      [] e = "target_activated" -> Fact(Target, "active", f.epoch)
      [] e = "source_reactivated" -> Fact(Source, "active", f.epoch)
      [] OTHER -> f

SaysOf(p, twice) ==
    CASE p.state \in {"created", "source_checkpointed"} -> Fact(Source, "active", 1)
      [] p.state \in {"freeze_applied", "frozen_confirmed"} -> Fact(Source, "frozen", 2)
      [] p.state \in {"target_activated", "target_checkpointed", "completed"} -> Fact(Target, "active", 2)
      [] p.state = "rollback_requested" ->
            IF p.needsFreeze THEN Fact(Target, "active", 2) ELSE Fact(Source, "frozen", 2)
      [] p.state \in {"rollback_freeze_applied", "rollback_frozen_confirmed"} ->
            IF twice THEN Fact(Target, "frozen", 3) ELSE Fact(Source, "frozen", 2)
      [] OTHER -> Fact(Source, "active", IF twice THEN 3 ELSE 2)

LEMMA SaysOfBy ==
  ASSUME NEW p \in Projections, NEW twice \in BOOLEAN
  PROVE  /\ p.state \in {"created", "source_checkpointed"} => SaysOf(p, twice) = Fact(Source, "active", 1)
         /\ p.state \in {"freeze_applied", "frozen_confirmed"} =>
               SaysOf(p, twice) = Fact(Source, "frozen", 2)
         /\ p.state \in {"target_activated", "target_checkpointed", "completed"} =>
               SaysOf(p, twice) = Fact(Target, "active", 2)
         /\ p.state = "rollback_requested" /\ p.needsFreeze => SaysOf(p, twice) = Fact(Target, "active", 2)
         /\ p.state = "rollback_requested" /\ ~p.needsFreeze => SaysOf(p, twice) = Fact(Source, "frozen", 2)
         /\ p.state \in {"rollback_freeze_applied", "rollback_frozen_confirmed"} =>
               /\ twice => SaysOf(p, twice) = Fact(Target, "frozen", 3)
               /\ ~twice => SaysOf(p, twice) = Fact(Source, "frozen", 2)
         /\ p.state \in {"source_reactivated", "rollback_checkpointed", "rolled_back"} =>
               /\ twice => SaysOf(p, twice) = Fact(Source, "active", 3)
               /\ ~twice => SaysOf(p, twice) = Fact(Source, "active", 2)
  <1>1. CASE p.state \in {"created", "source_checkpointed"}
    BY <1>1 DEF SaysOf
  <1>2. CASE p.state \in {"freeze_applied", "frozen_confirmed"}
    BY <1>2 DEF SaysOf
  <1>3. CASE p.state \in {"target_activated", "target_checkpointed", "completed"}
    BY <1>3 DEF SaysOf
  <1>4. CASE p.state = "rollback_requested"
    <2>1. SaysOf(p, twice) = IF p.needsFreeze THEN Fact(Target, "active", 2) ELSE Fact(Source, "frozen", 2)
      BY <1>4 DEF SaysOf
    <2>2. /\ p.needsFreeze => SaysOf(p, twice) = Fact(Target, "active", 2)
          /\ ~p.needsFreeze => SaysOf(p, twice) = Fact(Source, "frozen", 2)
      BY <2>1
    <2> QED BY <1>4, <2>2
  <1>5. CASE p.state \in {"rollback_freeze_applied", "rollback_frozen_confirmed"}
    <2>1. SaysOf(p, twice) = IF twice THEN Fact(Target, "frozen", 3) ELSE Fact(Source, "frozen", 2)
      BY <1>5 DEF SaysOf
    <2>2. /\ twice => SaysOf(p, twice) = Fact(Target, "frozen", 3)
          /\ ~twice => SaysOf(p, twice) = Fact(Source, "frozen", 2)
      BY <2>1
    <2> QED BY <1>5, <2>2
  <1>6. CASE p.state \in {"source_reactivated", "rollback_checkpointed", "rolled_back"}
    <2>1. SaysOf(p, twice) = Fact(Source, "active", IF twice THEN 3 ELSE 2)
      BY <1>6 DEF SaysOf
    <2>2. /\ twice => SaysOf(p, twice) = Fact(Source, "active", 3)
          /\ ~twice => SaysOf(p, twice) = Fact(Source, "active", 2)
      BY <2>1
    <2> QED BY <1>6, <2>2
  <1> QED BY <1>1, <1>2, <1>3, <1>4, <1>5, <1>6, StateNames DEF Projections

LEMMA SaysOfType ==
  ASSUME NEW p \in Projections, NEW twice \in BOOLEAN
  PROVE  SaysOf(p, twice) \in Facts
  <1>1. \A a \in Authorities, ph \in Phases, e \in 1..3 : Fact(a, ph, e) \in Facts
    BY DEF Fact, Facts, Epochs
  <1>2. Source \in Authorities /\ Target \in Authorities /\ "active" \in Phases /\ "frozen" \in Phases
    BY DEF Authorities, Phases
  <1> QED BY <1>1, <1>2, SaysOfBy, StateNames DEF Projections

\* How a transition changes the fence, event by event.
LEMMA ChangedBy ==
  ASSUME NEW a \in Authorities, NEW ph \in Phases, NEW k \in Nat
  PROVE  /\ \A e \in FreezeEvents : Changed(Fact(a, ph, k), e) = Fact(a, "frozen", k + 1)
         /\ Changed(Fact(a, ph, k), "target_activated") = Fact(Target, "active", k)
         /\ Changed(Fact(a, ph, k), "source_reactivated") = Fact(Source, "active", k)
         /\ \A e : e \notin Switches => Changed(Fact(a, ph, k), e) = Fact(a, ph, k)
  <1> DEFINE f == Fact(a, ph, k)
  <1>1. /\ \A e \in FreezeEvents : Changed(f, e) = Fact(f.authority, "frozen", f.epoch + 1)
        /\ Changed(f, "target_activated") = Fact(Target, "active", f.epoch)
        /\ Changed(f, "source_reactivated") = Fact(Source, "active", f.epoch)
        /\ \A e : e \notin Switches => Changed(f, e) = f
    <2> HIDE DEF f
    <2> QED BY DEF Changed, FreezeEvents, ActivateEvents, Switches
  <1>2. f.authority = a /\ f.epoch = k
    BY DEF Fact
  <1> QED BY <1>1, <1>2

\* An event that a state accepts changes what is said in the way the transition
\* changes the fence, and no other event changes it.
LEMMA Says1 ==
  ASSUME NEW p \in Projections, NEW e \in Events, Accepts(p, e), NEW twice \in BOOLEAN,
         Stage[p.state] <= 3 => ~twice
  PROVE  SaysOf(After(p, e), twice \/ e = "rollback_freeze_applied") = Changed(SaysOf(p, twice), e)
  <1> DEFINE q == After(p, e)
             again == twice \/ e = "rollback_freeze_applied"
  <1>0. /\ again \in BOOLEAN
        /\ Source \in Authorities /\ Target \in Authorities
        /\ "active" \in Phases /\ "frozen" \in Phases /\ 1 \in Nat /\ 2 \in Nat /\ 3 \in Nat
        /\ 1 + 1 = 2 /\ 2 + 1 = 3
        /\ "freeze_applied" \in FreezeEvents /\ "rollback_freeze_applied" \in FreezeEvents
    BY DEF Authorities, Phases, FreezeEvents
  <1>1. CASE e = "lease_renewed"
    <2>1. q \in Projections /\ (q.needsFreeze <=> p.needsFreeze) /\ <<p.state, q.state>> \in Returns
      BY <1>1, RenewalReturns
    <2>2. again = twice
      BY <1>1
    <2>3. Changed(SaysOf(p, twice), e) = SaysOf(p, twice)
      BY <1>1 DEF Changed, FreezeEvents
    <2> HIDE DEF q, again
    <2>4. SaysOf(q, twice) = SaysOf(p, twice)
      BY <2>1, SaysOfBy DEF Returns
    <2> QED BY <2>2, <2>3, <2>4 DEF q, again
  <1>2. CASE e # "lease_renewed"
    <2>1. /\ q \in Projections /\ q.state = e /\ <<p.state, e>> \in Moves
          /\ p.state = "rollback_requested" => (p.needsFreeze <=> e = "rollback_freeze_applied")
          /\ e = "rollback_requested" =>
               (q.needsFreeze <=> p.state \in {"target_activated", "target_checkpointed", "completed"})
      BY <1>2, EventMoves
    <2>2. /\ e = "rollback_freeze_applied" => again
          /\ e # "rollback_freeze_applied" => (again <=> twice)
      OBVIOUS
    <2> HIDE DEF q, again
    <2>3. CASE e = "freeze_applied"
      <3>1. p.state = "source_checkpointed"
        BY <2>1, <2>3 DEF Moves
      <3>2. SaysOf(p, twice) = Fact(Source, "active", 1) /\ SaysOf(q, again) = Fact(Source, "frozen", 2)
        BY <1>0, <2>1, <2>3, <3>1, SaysOfBy
      <3>3. Changed(SaysOf(p, twice), e) = Fact(Source, "frozen", 2)
        BY <1>0, <2>3, <3>2, ChangedBy
      <3> QED BY <3>2, <3>3 DEF q, again
    <2>4. CASE e = "target_activated"
      <3>1. p.state = "frozen_confirmed"
        BY <2>1, <2>4 DEF Moves
      <3>2. SaysOf(p, twice) = Fact(Source, "frozen", 2) /\ SaysOf(q, again) = Fact(Target, "active", 2)
        BY <1>0, <2>1, <2>4, <3>1, SaysOfBy
      <3>3. Changed(SaysOf(p, twice), e) = Fact(Target, "active", 2)
        BY <1>0, <2>4, <3>2, ChangedBy
      <3> QED BY <3>2, <3>3 DEF q, again
    <2>5. CASE e = "rollback_freeze_applied"
      <3>1. p.state = "rollback_requested" /\ p.needsFreeze /\ again
        BY <2>1, <2>2, <2>5 DEF Moves
      <3>2. SaysOf(p, twice) = Fact(Target, "active", 2)
        BY <3>1, SaysOfBy
      <3>3. SaysOf(q, again) = Fact(Target, "frozen", 3)
        BY <1>0, <2>1, <2>5, <3>1, SaysOfBy
      <3>4. Changed(SaysOf(p, twice), e) = Fact(Target, "frozen", 3)
        BY <1>0, <2>5, <3>2, ChangedBy
      <3> QED BY <3>2, <3>3, <3>4 DEF q, again
    <2>6. CASE e = "source_reactivated"
      <3>1. p.state = "rollback_frozen_confirmed"
        BY <2>1, <2>6 DEF Moves
      <3>2. CASE twice
        <4>1. SaysOf(p, twice) = Fact(Target, "frozen", 3) /\ SaysOf(q, again) = Fact(Source, "active", 3)
          BY <1>0, <2>1, <2>2, <2>6, <3>1, <3>2, SaysOfBy
        <4>2. Changed(SaysOf(p, twice), e) = Fact(Source, "active", 3)
          BY <1>0, <2>6, <4>1, ChangedBy
        <4> QED BY <4>1, <4>2 DEF q, again
      <3>3. CASE ~twice
        <4>1. SaysOf(p, twice) = Fact(Source, "frozen", 2) /\ SaysOf(q, again) = Fact(Source, "active", 2)
          BY <1>0, <2>1, <2>2, <2>6, <3>1, <3>3, SaysOfBy
        <4>2. Changed(SaysOf(p, twice), e) = Fact(Source, "active", 2)
          BY <1>0, <2>6, <4>1, ChangedBy
        <4> QED BY <4>1, <4>2 DEF q, again
      <3> QED BY <3>2, <3>3
    <2>7. CASE e \notin Switches
      <3>1. Changed(SaysOf(p, twice), e) = SaysOf(p, twice)
        BY <2>7, SwitchNames DEF Changed, FreezeEvents
      <3>2. again <=> twice
        BY <2>2, <2>7, SwitchNames
      <3>3. Stage["rollback_requested"] = 3
        BY DEF Stage
      <3>4. p.state = "rollback_requested" => ~twice
        BY <3>3
      <3>5. <<p.state, e>> \in Moves /\ e \notin {"freeze_applied", "target_activated",
                                     "rollback_freeze_applied", "source_reactivated"}
        BY <2>1, <2>7, SwitchNames
      <3>6. \/ p.state = "created" /\ e = "source_checkpointed"
            \/ p.state = "freeze_applied" /\ e = "frozen_confirmed"
            \/ p.state \in {"freeze_applied", "frozen_confirmed"} /\ e = "rollback_requested"
            \/ /\ p.state \in {"target_activated", "target_checkpointed", "completed"}
               /\ e = "rollback_requested"
            \/ /\ p.state \in {"target_activated", "target_checkpointed"}
               /\ e \in {"target_checkpointed", "completed"}
            \/ p.state = "rollback_requested" /\ e = "rollback_frozen_confirmed"
            \/ p.state = "rollback_freeze_applied" /\ e = "rollback_frozen_confirmed"
            \/ /\ p.state \in {"source_reactivated", "rollback_checkpointed"}
               /\ e \in {"rollback_checkpointed", "rolled_back"}
        BY <3>5 DEF Moves
      <3>7. SaysOf(q, again) = SaysOf(p, twice)
        BY <1>0, <2>1, <3>2, <3>4, <3>6, SaysOfBy
      <3> QED BY <3>1, <3>7 DEF q, again
    <2> QED BY <2>3, <2>4, <2>5, <2>6, <2>7, SwitchNames
  <1> QED BY <1>1, <1>2

-----------------------------------------------------------------------------
(* The kinds of steps *)

Entries == [event : Events, from : Nat \ {0}, at : Nat, after : Projections]

\* The types that do not depend on what the attempt does.
Typed ==
    /\ fence \in Fences \union {None}
    /\ receipts \subseteq Payloads /\ IsFiniteSet(receipts)
    /\ artifacts \subseteq Payloads /\ IsFiniteSet(artifacts)
    /\ \A r \in receipts : r.event \in LeaseEvents /\ r.seq > 0
    /\ \A x \in artifacts : x.event \in Events /\ x.seq > 0
    /\ journal \in Seq(Entries)
    /\ late \in BOOLEAN
    /\ owner \in Controllers \union {None}
    /\ loop \in [Controllers -> {"off", "on", "blocked"}]
    /\ doing \in [Actors -> Tasks \union {None}]
    /\ conf \in [Nodes -> [authority : Authorities, epoch : Epochs]]
    /\ \A n \in Nodes : conf[n] \in Deployments[n]
    /\ observation \in [Nodes -> Observations \union {None}]
    /\ inflight \in [Nodes -> Nat]

LEMMA JournalTyped ==
  ASSUME Typed
  PROVE  /\ Len(journal) \in Nat
         /\ \A k \in 1..Len(journal) : journal[k] \in Entries
         /\ \A k \in 0..Len(journal) : Projection(k) \in Projections
         /\ Now \in Projections
  <1>1. journal \in Seq(Entries)
    BY DEF Typed
  <1>2. Len(journal) \in Nat /\ \A k \in 1..Len(journal) : journal[k] \in Entries
    BY <1>1
  <1>3. \A k \in 0..Len(journal) : Projection(k) \in Projections
    <2> SUFFICES ASSUME NEW k \in 0..Len(journal) PROVE Projection(k) \in Projections
      OBVIOUS
    <2>1. CASE k = 0
      BY <2>1, StateNames DEF Projection, Projections
    <2>2. CASE k # 0
      <3>1. journal[k] \in Entries
        BY <1>2, <2>2
      <3> QED BY <2>2, <3>1 DEF Projection, Entries
    <2> QED BY <2>1, <2>2
  <1> QED BY <1>2, <1>3 DEF Now

\* What an actor asks for is accepted in the state it was derived from.
LEMMA NextAccepted ==
  ASSUME Typed, ~Terminal
  PROVE  NextEvent \in Events /\ Accepts(Now, NextEvent)
  <1>1. Now \in Projections /\ Now.state \in States /\ Now.needsFreeze \in BOOLEAN
    BY JournalTyped DEF Projections
  <1>2. Now.state \notin {"completed", "rolled_back"}
    BY DEF Terminal
  <1>3. CASE late /\ Now.state \in {"freeze_applied", "frozen_confirmed"}
    <2>1. NextEvent = "rollback_requested"
      BY <1>3 DEF NextEvent
    <2> QED BY <1>3, <2>1, StateNames, Orders DEF Events, Accepts
  <1>4. CASE Now.state = "rollback_requested"
    <2>1. NextEvent = IF Now.needsFreeze THEN "rollback_freeze_applied" ELSE "rollback_frozen_confirmed"
      BY <1>4 DEF NextEvent
    <2>2. CASE Now.needsFreeze
      <3>1. NextEvent = "rollback_freeze_applied"
        BY <2>1, <2>2
      <3> QED BY <1>4, <2>2, <3>1, StateNames, Orders DEF Events, Accepts
    <2>3. CASE ~Now.needsFreeze
      <3>1. NextEvent = "rollback_frozen_confirmed"
        BY <2>1, <2>3
      <3> QED BY <1>4, <2>3, <3>1, StateNames, Orders DEF Events, Accepts
    <2> QED BY <2>2, <2>3
  <1>5. CASE /\ ~(late /\ Now.state \in {"freeze_applied", "frozen_confirmed"})
             /\ Now.state # "rollback_requested"
    <2>1. NextEvent = CHOOSE e \in Order[Now.state] : e # "rollback_requested"
      BY <1>5 DEF NextEvent
    <2>2. \E e \in Order[Now.state] : e # "rollback_requested"
      <3>1. /\ "source_checkpointed" \in Order["created"] /\ "freeze_applied" \in Order["source_checkpointed"]
            /\ "frozen_confirmed" \in Order["freeze_applied"] /\ "target_activated" \in Order["frozen_confirmed"]
            /\ "target_checkpointed" \in Order["target_activated"]
            /\ "completed" \in Order["target_checkpointed"]
            /\ "rollback_frozen_confirmed" \in Order["rollback_freeze_applied"]
            /\ "source_reactivated" \in Order["rollback_frozen_confirmed"]
            /\ "rollback_checkpointed" \in Order["source_reactivated"]
            /\ "rolled_back" \in Order["rollback_checkpointed"]
        BY Orders
      <3>2. \A s \in {"created", "source_checkpointed", "freeze_applied", "frozen_confirmed",
                       "target_activated", "target_checkpointed", "rollback_freeze_applied",
                       "rollback_frozen_confirmed", "source_reactivated", "rollback_checkpointed"} :
               \E e \in Order[s] : e # "rollback_requested"
        BY <3>1
      <3>3. Now.state \in {"created", "source_checkpointed", "freeze_applied", "frozen_confirmed",
                           "target_activated", "target_checkpointed", "rollback_freeze_applied",
                           "rollback_frozen_confirmed", "source_reactivated", "rollback_checkpointed"}
        BY <1>1, <1>2, <1>5, StateNames
      <3> QED BY <3>2, <3>3
    <2>3. NextEvent \in Order[Now.state]
      BY <2>1, <2>2
    <2>4. NextEvent \in States /\ NextEvent # "created" /\ NextEvent # "lease_renewed"
      BY <1>1, <2>3, StateNames, Orders
    <2> QED BY <1>5, <2>3, <2>4 DEF Events, Accepts
  <1> QED BY <1>3, <1>4, <1>5

New(e) == [seq |-> Len(journal) + 1, event |-> e, phase |-> "execute"]

\* Steps that only move actors, and begin what is accepted now.
Quiet ==
    /\ UNCHANGED <<fence, receipts, artifacts, journal, conf, observation, inflight>>
    /\ \/ UNCHANGED doing
       \/ \E a \in Actors : doing' = [doing EXCEPT ![a] = None]
       \/ \E a \in Actors, e \in Events : Accepts(Now, e) /\ doing' = [doing EXCEPT ![a] = New(e)]

LEMMA QuietSteps ==
  ASSUME Typed,
         \/ \E a \in Actors : Fail(a)
         \/ \E o \in Operators : Command(o)
         \/ \E c \in Controllers : Acquire(c) \/ Advance(c) \/ RenewAuthority(c) \/ Return(c) \/ Crash(c)
         \/ KeyLapses \/ DeadlinePasses \/ UNCHANGED vars
  PROVE  Quiet
  <1> USE DEF attemptVars, nodeVars
  <1>1. /\ "rollback_requested" \in Events /\ "lease_renewed" \in Events
        /\ Controllers \subseteq Actors /\ Operators \subseteq Actors
    BY StateNames DEF Events, Actors
  <1>2. ASSUME NEW a \in Actors, NEW e \in Events, Accepts(Now, e), Begin(a, e),
               UNCHANGED <<fence, receipts, artifacts, journal, conf, observation, inflight>>
        PROVE  Quiet
    BY <1>2 DEF Begin, New, Quiet
  <1>3. ASSUME NEW a \in Actors, Fail(a) PROVE Quiet
    BY <1>3 DEF Fail, Quiet
  <1>4. ASSUME NEW o \in Operators, Command(o) PROVE Quiet
    BY <1>1, <1>2, <1>4, NextAccepted DEF Command
  <1>5. ASSUME NEW c \in Controllers, Acquire(c) PROVE Quiet
    BY <1>5 DEF Acquire, Quiet
  <1>6. ASSUME NEW c \in Controllers, Advance(c) PROVE Quiet
    <2>1. CASE Terminal
      BY <1>6, <2>1 DEF Advance, Quiet
    <2>2. CASE ~Terminal
      BY <1>1, <1>2, <1>6, <2>2, NextAccepted DEF Advance
    <2> QED BY <2>1, <2>2
  <1>7. ASSUME NEW c \in Controllers, RenewAuthority(c) PROVE Quiet
    <2>1. CASE UNCHANGED doing
      BY <1>7, <2>1 DEF RenewAuthority, Quiet
    <2>2. CASE Accepts(Now, "lease_renewed") /\ Begin(c, "lease_renewed")
      BY <1>1, <1>2, <1>7, <2>2 DEF RenewAuthority
    <2> QED BY <1>7, <2>1, <2>2 DEF RenewAuthority
  <1>8. ASSUME NEW c \in Controllers, Return(c) \/ Crash(c) PROVE Quiet
    BY <1>1, <1>8 DEF Return, Crash, Quiet
  <1>9. ASSUME KeyLapses \/ DeadlinePasses \/ UNCHANGED vars PROVE Quiet
    BY <1>9 DEF KeyLapses, DeadlinePasses, vars, Quiet
  <1> QED BY <1>3, <1>4, <1>5, <1>6, <1>7, <1>8, <1>9

-----------------------------------------------------------------------------
(* Numbers *)

\* Of finitely many numbers one is the greatest, and one the least.
LEMMA Greatest ==
  ASSUME NEW S \in SUBSET Nat, IsFiniteSet(S), S # {}
  PROVE  \E x \in S : \A y \in S : y <= x
  <1> DEFINE above(x) == {y \in S : x < y}
             tops == {above(x) : x \in S}
  <1>1. tops \subseteq FiniteSubsetsOf(S) /\ tops # {}
    <2>1. \A x \in S : above(x) \in SUBSET S
      OBVIOUS
    <2>2. tops \subseteq SUBSET S /\ tops # {}
      <3> HIDE DEF above
      <3>1. tops \subseteq SUBSET S
        BY <2>1
      <3>2. PICK x \in S : TRUE
        OBVIOUS
      <3>3. above(x) \in tops
        BY <3>2
      <3> QED BY <3>1, <3>3
    <2>3. FiniteSubsetsOf(S) = SUBSET S
      BY FS_FiniteSubsetsOfFinite
    <2> QED BY <2>2, <2>3
  <1>2. PICK t \in tops : \A s \in tops : ~ (<<s, t>> \in StrictSubsetOrdering(S))
    <2> HIDE DEF tops
    <2> QED BY <1>1, FS_StrictSubsetOrderingWellFounded, WFMin
  <1>3. PICK x \in S : t = above(x)
    OBVIOUS
  <1>4. ASSUME NEW y \in S, x < y PROVE FALSE
    <2>0. x \in Nat /\ y \in Nat
      OBVIOUS
    <2>1. above(y) \subseteq above(x) /\ y \in above(x) /\ y \notin above(y)
      <3>1. \A z \in Nat : y < z => x < z
        BY <1>4, <2>0
      <3>2. ~ (y < y)
        BY <2>0
      <3> QED BY <1>4, <3>1, <3>2
    <2>2. above(y) \in tops
      OBVIOUS
    <2>3. <<above(y), above(x)>> \in StrictSubsetOrdering(S)
      BY <2>1 DEF StrictSubsetOrdering
    <2> QED BY <1>2, <1>3, <2>2, <2>3
  <1> QED BY <1>4

LEMMA Least ==
  ASSUME NEW S \in SUBSET Nat, IsFiniteSet(S), S # {}
  PROVE  \E x \in S : \A y \in S : x <= y
  <1> DEFINE below(x) == {y \in S : y < x}
             bottoms == {below(x) : x \in S}
  <1>1. bottoms \subseteq FiniteSubsetsOf(S) /\ bottoms # {}
    <2>1. \A x \in S : below(x) \in SUBSET S
      OBVIOUS
    <2>2. bottoms \subseteq SUBSET S /\ bottoms # {}
      <3> HIDE DEF below
      <3>1. bottoms \subseteq SUBSET S
        BY <2>1
      <3>2. PICK x \in S : TRUE
        OBVIOUS
      <3>3. below(x) \in bottoms
        BY <3>2
      <3> QED BY <3>1, <3>3
    <2>3. FiniteSubsetsOf(S) = SUBSET S
      BY FS_FiniteSubsetsOfFinite
    <2> QED BY <2>2, <2>3
  <1>2. PICK t \in bottoms : \A s \in bottoms : ~ (<<s, t>> \in StrictSubsetOrdering(S))
    <2> HIDE DEF bottoms
    <2> QED BY <1>1, FS_StrictSubsetOrderingWellFounded, WFMin
  <1>3. PICK x \in S : t = below(x)
    OBVIOUS
  <1>4. ASSUME NEW y \in S, y < x PROVE FALSE
    <2>0. x \in Nat /\ y \in Nat
      OBVIOUS
    <2>1. below(y) \subseteq below(x) /\ y \in below(x) /\ y \notin below(y)
      <3>1. \A z \in Nat : z < y => z < x
        BY <1>4, <2>0
      <3>2. ~ (y < y)
        BY <2>0
      <3> QED BY <1>4, <3>1, <3>2
    <2>2. below(y) \in bottoms
      OBVIOUS
    <2>3. <<below(y), below(x)>> \in StrictSubsetOrdering(S)
      BY <2>1 DEF StrictSubsetOrdering
    <2> QED BY <1>2, <1>3, <2>2, <2>3
  <1> QED BY <1>4

\* The places of the events that changed the lease.
Places(k) == {p \in 1..k : journal[p].event \in LeaseEvents}
Count(k) == Cardinality(Places(k))

LEMMA PlacesFinite ==
  ASSUME NEW k \in Nat
  PROVE  Places(k) \in SUBSET Nat /\ IsFiniteSet(Places(k)) /\ Count(k) \in Nat
  <1>1. IsFiniteSet(1..k)
    BY FS_Interval
  <1>2. Places(k) \in SUBSET (1..k) /\ Places(k) \in SUBSET Nat
    BY DEF Places
  <1>3. IsFiniteSet(Places(k)) /\ Cardinality(Places(k)) \in Nat
    BY <1>1, <1>2, FS_Subset, FS_CardinalityType
  <1> QED BY <1>2, <1>3 DEF Count

LEMMA CountStep ==
  ASSUME NEW k \in Nat \ {0}
  PROVE  /\ journal[k].event \in LeaseEvents => Count(k) = Count(k - 1) + 1
         /\ journal[k].event \notin LeaseEvents => Count(k) = Count(k - 1)
  <1>1. k - 1 \in Nat /\ 1..k = (1..(k - 1)) \union {k} /\ k \notin 1..(k - 1)
    <2>1. k - 1 \in Nat /\ k \notin 1..(k - 1)
      OBVIOUS
    <2>2. 1..k \subseteq (1..(k - 1)) \union {k}
      OBVIOUS
    <2>3. (1..(k - 1)) \union {k} \subseteq 1..k
      BY <2>1
    <2> QED BY <2>1, <2>2, <2>3
  <1>2. IsFiniteSet(Places(k - 1))
    BY <1>1, PlacesFinite
  <1>3. CASE journal[k].event \in LeaseEvents
    <2>1. Places(k) = Places(k - 1) \union {k} /\ k \notin Places(k - 1)
      BY <1>1, <1>3 DEF Places
    <2>2. Cardinality(Places(k - 1) \union {k}) = Cardinality(Places(k - 1)) + 1
      BY <1>2, <2>1, FS_AddElement
    <2> QED BY <1>3, <2>1, <2>2 DEF Count
  <1>4. CASE journal[k].event \notin LeaseEvents
    <2>1. Places(k) = Places(k - 1)
      BY <1>1, <1>4 DEF Places
    <2> QED BY <1>4, <2>1 DEF Count
  <1> QED BY <1>3, <1>4

\* Places that are no lease events do not count.
LEMMA CountSame ==
  ASSUME NEW k \in Nat, NEW l \in Nat, k <= l, \A i \in (k + 1)..l : journal[i].event \notin LeaseEvents
  PROVE  Places(k) = Places(l) /\ Count(k) = Count(l)
  <1>1. \A i : i \in 1..l <=> i \in 1..k \/ i \in (k + 1)..l
    OBVIOUS
  <1>2. Places(k) = Places(l)
    BY <1>1 DEF Places
  <1> QED BY <1>2 DEF Count

LEMMA CountMonotone ==
  ASSUME NEW k \in Nat, NEW l \in Nat, k <= l
  PROVE  Count(k) <= Count(l) /\ (\A p \in (k + 1)..l : journal[p].event \in LeaseEvents => Count(k) < Count(l))
  <1>1. Places(k) \in SUBSET Places(l) /\ IsFiniteSet(Places(l))
    BY PlacesFinite DEF Places
  <1>2. Count(k) <= Count(l) /\ Count(k) \in Nat /\ Count(l) \in Nat
    BY <1>1, FS_Subset, PlacesFinite DEF Count
  <1>3. ASSUME NEW p \in (k + 1)..l, journal[p].event \in LeaseEvents PROVE Count(k) # Count(l)
    <2>1. p \in Places(l) /\ p \notin Places(k)
      BY <1>3 DEF Places
    <2>2. Count(k) = Count(l) => Places(k) = Places(l)
      BY <1>1, FS_Subset DEF Count
    <2> QED BY <2>1, <2>2
  <1> QED BY <1>2, <1>3

-----------------------------------------------------------------------------
(* What the steps of an action find and make *)

LEMMA Found ==
  ASSUME NEW S, None \notin S, NEW d
  PROVE  /\ Find(S, d) # None <=> \E x \in S : Is(x, d)
         /\ Find(S, d) # None => Find(S, d) \in S /\ Is(Find(S, d), d)
  <1>1. CASE \E x \in S : Is(x, d)
    <2>1. Find(S, d) = CHOOSE x \in S : Is(x, d)
      BY <1>1 DEF Find
    <2>2. Find(S, d) \in S /\ Is(Find(S, d), d)
      BY <1>1, <2>1
    <2> QED BY <1>1, <2>2
  <1>2. CASE ~ \E x \in S : Is(x, d)
    BY <1>2 DEF Find
  <1> QED BY <1>1, <1>2

LEMMA NoneApart ==
  ASSUME Typed
  PROVE  /\ None \notin receipts /\ None \notin artifacts /\ None \notin Tasks
         /\ None \notin Fences /\ None \notin Payloads /\ None \notin Observations
         /\ InitialTransition \in Payloads
         /\ \A a \in Actors : doing[a] # None => doing[a] \in Tasks
         /\ fence # None => fence \in Fences
         /\ Time \in Nat
  <1>1. InitialTransition \in Payloads
    BY DEF InitialTransition, Payloads, Authorities, Phases
  <1>2. Time \in Nat
    BY FS_CardinalityType DEF Typed, Time
  <1> QED BY <1>1, <1>2, NoneAssumption DEF Typed, NoneAssumption

\* The newest transition before a place: the artifact of the last event that
\* changed the lease.
LEMMA Latest ==
  ASSUME Typed, NEW d, d.seq \in 1..(Len(journal) + 1), LatestTransition(d) # None
  PROVE  \/ Places(d.seq - 1) = {} /\ LatestTransition(d) = InitialTransition
         \/ \E p \in Places(d.seq - 1) :
               /\ \A q \in Places(d.seq - 1) : q <= p
               /\ LatestTransition(d) \in artifacts
               /\ LatestTransition(d).seq = p /\ LatestTransition(d).event = journal[p].event
  <1> DEFINE k == d.seq - 1
             L == LeaseChange(d)
             place(p) == [seq |-> p, event |-> journal[p].event]
  <1>1. k \in Nat /\ Len(journal) \in Nat
    BY JournalTyped
  <1>2. L = {place(p) : p \in Places(k)}
    BY DEF LeaseChange, Places
  <1>3. CASE Places(k) = {}
    <2>1. L = {}
      BY <1>2, <1>3
    <2> QED BY <1>3, <2>1 DEF LatestTransition
  <1>4. CASE Places(k) # {}
    <2>1. PICK p \in Places(k) : \A q \in Places(k) : q <= p
      BY <1>1, <1>4, PlacesFinite, Greatest
    <2>2. place(p) \in L /\ \A y \in L : y.seq <= place(p).seq
      BY <1>2, <2>1
    <2>3. L # {} /\ Newest(L) \in L /\ \A y \in L : y.seq <= Newest(L).seq
      <3> HIDE DEF L, place
      <3> QED BY <2>2 DEF Newest
    <2>4. PICK m \in Places(k) : Newest(L) = place(m)
      BY <1>2, <2>3
    <2>5. \A q \in Places(k) : q <= m
      <3>1. place(m).seq = m /\ place(p).seq = p
        OBVIOUS
      <3>2. p <= m
        BY <2>2, <2>3, <2>4, <3>1
      <3>3. p \in Nat /\ m \in Nat /\ Places(k) \subseteq Nat
        BY <1>1, PlacesFinite
      <3> HIDE DEF place, L, k
      <3>4. \A q \in Places(k) : q \in Nat /\ q <= p
        BY <2>1, <3>3
      <3> QED BY <3>2, <3>3, <3>4
    <2>6. LatestTransition(d) = Find(artifacts, place(m))
      BY <2>3, <2>4 DEF LatestTransition
    <2>7. /\ LatestTransition(d) \in artifacts
          /\ LatestTransition(d).seq = m /\ LatestTransition(d).event = journal[m].event
      BY <2>6, Found, NoneApart DEF Is
    <2> QED BY <2>5, <2>7
  <1> QED BY <1>3, <1>4

\* A transition that is made: the record it replaces is the expected one.
Replaces(a, r) ==
    LET d == doing[a] IN
    /\ r \in Payloads /\ Is(r, d) /\ r.lease = fence.lease + 1
    /\ Fields(r) = Changed(Fields(fence), d.event)
    /\ receipts' = receipts \union {r} /\ ~ (\E q \in receipts : Is(q, d))
    /\ fence \in Fences /\ fence' \in Fences
    /\ fence'.lease = r.lease /\ Fields(fence') = Fields(r)
    /\ fence.lease = ExpectedLease(d)
    /\ d.event \in FreezeEvents => fence.phase = "active"
    /\ d.event \in ActivateEvents => fence.phase = "frozen"

LEMMA NextRecordBy ==
  ASSUME Typed, fence \in Fences, NEW d \in Tasks, d.event \in LeaseEvents
  PROVE  /\ NextRecord(d) \in Fences /\ NextRecord(d).lease = fence.lease + 1
         /\ Fields(NextRecord(d)) = Changed(Fields(fence), d.event)
  <1> DEFINE next == [fence EXCEPT !.lease = @ + 1]
  <1>1. /\ next \in Fences /\ next.lease = fence.lease + 1 /\ next.authority = fence.authority
        /\ next.phase = fence.phase /\ next.epoch = fence.epoch
    BY DEF Fences
  <1>2. /\ "active" \in Phases /\ "frozen" \in Phases /\ Source \in Authorities /\ Target \in Authorities
        /\ next.epoch \in Nat \ {0} /\ next.epoch + 1 \in Nat \ {0}
    BY <1>1 DEF Phases, Authorities, Fences
  <1> HIDE DEF next
  <1>3. CASE d.event \in FreezeEvents
    <2>1. NextRecord(d) = [next EXCEPT !.phase = "frozen", !.epoch = @ + 1]
      BY <1>3 DEF NextRecord, next, FreezeEvents
    <2>2. /\ NextRecord(d) \in Fences /\ NextRecord(d).lease = next.lease
          /\ NextRecord(d).authority = next.authority /\ NextRecord(d).phase = "frozen"
          /\ NextRecord(d).epoch = next.epoch + 1
      BY <1>1, <1>2, <2>1 DEF Fences
    <2>3. Changed(Fields(fence), d.event) = Fact(fence.authority, "frozen", fence.epoch + 1)
      BY <1>3 DEF Changed, Fields, FreezeEvents
    <2> QED BY <1>1, <2>2, <2>3 DEF Fields, Fact
  <1>4. CASE d.event = "target_activated"
    <2>1. NextRecord(d) = [next EXCEPT !.phase = "active", !.authority = Target]
      BY <1>4 DEF NextRecord, next, FreezeEvents
    <2>2. /\ NextRecord(d) \in Fences /\ NextRecord(d).lease = next.lease
          /\ NextRecord(d).authority = Target /\ NextRecord(d).phase = "active"
          /\ NextRecord(d).epoch = next.epoch
      BY <1>1, <1>2, <2>1 DEF Fences
    <2>3. Changed(Fields(fence), d.event) = Fact(Target, "active", fence.epoch)
      BY <1>4 DEF Changed, Fields, FreezeEvents
    <2> QED BY <1>1, <2>2, <2>3 DEF Fields, Fact
  <1>5. CASE d.event = "source_reactivated"
    <2>1. NextRecord(d) = [next EXCEPT !.phase = "active", !.authority = Source]
      BY <1>5 DEF NextRecord, next, FreezeEvents
    <2>2. /\ NextRecord(d) \in Fences /\ NextRecord(d).lease = next.lease
          /\ NextRecord(d).authority = Source /\ NextRecord(d).phase = "active"
          /\ NextRecord(d).epoch = next.epoch
      BY <1>1, <1>2, <2>1 DEF Fences
    <2>3. Changed(Fields(fence), d.event) = Fact(Source, "active", fence.epoch)
      BY <1>5 DEF Changed, Fields, FreezeEvents
    <2> QED BY <1>1, <2>2, <2>3 DEF Fields, Fact
  <1>6. CASE d.event = "lease_renewed"
    <2>1. NextRecord(d) = next
      BY <1>6 DEF NextRecord, next, FreezeEvents
    <2>2. Changed(Fields(fence), d.event) = Fields(fence)
      BY <1>6 DEF Changed, FreezeEvents
    <2> QED BY <1>1, <2>1, <2>2 DEF Fields
  <1> QED BY <1>3, <1>4, <1>5, <1>6 DEF LeaseEvents, ActivateEvents

LEMMA TransitionMade ==
  ASSUME Typed, NEW a \in Actors, Transition(a)
  PROVE  /\ doing[a] \in Tasks /\ doing[a].event \in LeaseEvents /\ ExpectedLease(doing[a]) # None
         /\ doing' = [doing EXCEPT ![a].phase = "publish"]
         /\ UNCHANGED <<artifacts, journal, late, owner, loop, conf, observation, inflight>>
         /\ \/ UNCHANGED <<fence, receipts>> /\ \E q \in receipts : Is(q, doing[a])
            \/ \E r : Replaces(a, r)
  <1>1. doing[a] # None /\ doing[a] \in Tasks /\ doing[a].event \in LeaseEvents
    BY NoneApart DEF Transition, At
  <1>2. /\ doing' = [doing EXCEPT ![a].phase = "publish"]
        /\ UNCHANGED <<artifacts, journal, late, owner, loop, conf, observation, inflight>>
    BY DEF Transition, Proceed, nodeVars
  <1>3. CASE Find(receipts, doing[a]) # None /\ UNCHANGED <<fence, receipts>>
    <2>1. \E q \in receipts : Is(q, doing[a])
      BY <1>3, Found, NoneApart
    <2> QED BY <1>1, <1>2, <1>3, <2>1 DEF Transition
  <1>4. CASE ~(Find(receipts, doing[a]) # None /\ UNCHANGED <<fence, receipts>>)
    <2> DEFINE d == doing[a]
               r == [seq |-> d.seq, event |-> d.event, at |-> Time, lease |-> fence'.lease,
                     authority |-> fence'.authority, phase |-> fence'.phase, epoch |-> fence'.epoch]
    <2>1. /\ Find(receipts, d) = None /\ fence # None /\ fence.lease = ExpectedLease(d)
          /\ d.event \in FreezeEvents => fence.phase = "active"
          /\ d.event \in ActivateEvents => fence.phase = "frozen"
          /\ fence' = NextRecord(d)
          /\ receipts' = receipts \union {r}
      BY <1>4 DEF Transition
    <2>2. fence \in Fences /\ ~ \E q \in receipts : Is(q, d)
      BY <2>1, Found, NoneApart
    <2>3. /\ fence' \in Fences /\ fence'.lease = fence.lease + 1
          /\ Fields(fence') = Changed(Fields(fence), d.event)
      BY <1>1, <2>1, <2>2, NextRecordBy
    <2>4. d.seq \in Nat /\ d.event \in Events /\ Time \in Nat
      BY <1>1, NoneApart DEF Tasks
    <2>5. r \in Payloads /\ Is(r, d) /\ r.lease = fence'.lease /\ Fields(r) = Fields(fence')
      BY <2>3, <2>4 DEF Payloads, Fences, Is, Fields
    <2> HIDE DEF r
    <2>6. Replaces(a, r)
      BY <2>1, <2>2, <2>3, <2>5 DEF Replaces
    <2> QED BY <1>1, <1>2, <2>6 DEF Transition
  <1> QED BY <1>3, <1>4

\* An action was derived from a place of the journal whose state accepts its
\* event, and what it did so far can be found.
Tasked ==
    \A a \in Actors : doing[a] # None =>
       /\ doing[a].seq <= Len(journal) + 1
       /\ Accepts(Projection(doing[a].seq - 1), doing[a].event)
       /\ doing[a].phase = "publish" => \E r \in receipts : Is(r, doing[a])
       /\ doing[a].phase = "append" => \E x \in artifacts : Is(x, doing[a])

\* What is published.
Publishes(a, x) ==
    /\ doing[a] \in Tasks /\ x \in Payloads /\ Is(x, doing[a])
    /\ artifacts' = artifacts \union {x}
    /\ doing' = [doing EXCEPT ![a].phase = "append"]
    /\ UNCHANGED <<fence, receipts, journal, late, owner, loop, conf, observation, inflight>>
    /\ \/ x \in receipts
       \/ /\ x.event \notin LeaseEvents
          /\ \E t \in artifacts \union {InitialTransition} :
                /\ x.lease = t.lease /\ Fields(x) = Fields(t)
                /\ x.event \in ProofEvents => Aggregate(Manifest(x.event), t)

LEMMA Publications ==
  ASSUME Typed, Tasked, NEW a \in Actors, Capture(a) \/ Decide(a) \/ Publish(a)
  PROVE  \E x : Publishes(a, x)
  <1> DEFINE d == doing[a]
  <1>1. /\ d # None /\ d \in Tasks /\ d.seq \in 1..(Len(journal) + 1) /\ d.event \in Events
        /\ Time \in Nat
    <2>1. d # None /\ d \in Tasks /\ Time \in Nat
      BY NoneApart DEF Capture, Decide, Publish, At
    <2>2. d.seq \in Nat \ {0} /\ d.event \in Events
      BY <2>1 DEF Tasks
    <2>3. d.seq <= Len(journal) + 1 /\ Len(journal) \in Nat
      BY <2>1, JournalTyped DEF Tasked
    <2> QED BY <2>1, <2>2, <2>3
  <1>2. /\ ~Publish(a) => doing' = [doing EXCEPT ![a].phase = "append"]
        /\ UNCHANGED <<fence, receipts, journal, late, owner, loop, conf, observation, inflight>>
        /\ doing' = [doing EXCEPT ![a].phase = "append"]
    BY DEF Capture, Decide, Publish, Proceed, nodeVars
  <1>3. ASSUME NEW t \in Payloads, NEW x, x = [t EXCEPT !.seq = d.seq, !.event = d.event, !.at = Time]
        PROVE  x \in Payloads /\ Is(x, d) /\ x.lease = t.lease /\ Fields(x) = Fields(t) /\ x.event = d.event
    <2>1. d.seq \in Nat
      BY <1>1
    <2> HIDE DEF d
    <2> QED BY <1>1, <1>3, <2>1 DEF Payloads, Is, Fields
  <1>4. CASE Capture(a)
    <2> DEFINE t == LatestTransition(d)
               x == [t EXCEPT !.seq = d.seq, !.event = d.event, !.at = Time]
    <2>1. /\ t # None /\ d.event \notin LeaseEvents /\ artifacts' = artifacts \union {x}
          /\ Aggregate(Manifest(d.event), t)
      BY <1>4 DEF Capture
    <2>2. t \in artifacts \union {InitialTransition}
      BY <1>1, <2>1, Latest
    <2>3. t \in Payloads
      BY <2>2, NoneApart DEF Typed
    <2> HIDE DEF t
    <2>4. x \in Payloads /\ Is(x, d) /\ x.lease = t.lease /\ Fields(x) = Fields(t) /\ x.event = d.event
      BY <1>3, <2>3
    <2> HIDE DEF x
    <2>5. Publishes(a, x)
      BY <1>1, <1>2, <2>1, <2>2, <2>4 DEF Publishes
    <2> QED BY <2>5
  <1>5. CASE Decide(a)
    <2> DEFINE t == InitialTransition
               x == [t EXCEPT !.seq = d.seq, !.event = d.event, !.at = Time]
    <2>1. d.event \in DecisionEvents /\ artifacts' = artifacts \union {x} /\ t \in Payloads
      BY <1>5, NoneApart DEF Decide
    <2>2. d.event \notin LeaseEvents /\ d.event \notin ProofEvents
      BY <2>1 DEF DecisionEvents, ProofEvents, LeaseEvents, FreezeEvents, ActivateEvents
    <2> HIDE DEF t
    <2>4. x \in Payloads /\ Is(x, d) /\ x.lease = t.lease /\ Fields(x) = Fields(t) /\ x.event = d.event
      BY <1>3, <2>1
    <2> HIDE DEF x
    <2>5. \E s \in artifacts \union {InitialTransition} :
             /\ x.lease = s.lease /\ Fields(x) = Fields(s)
             /\ x.event \in ProofEvents => Aggregate(Manifest(x.event), s)
      BY <2>2, <2>4 DEF t
    <2>6. Publishes(a, x)
      BY <1>1, <1>2, <2>1, <2>2, <2>4, <2>5 DEF Publishes
    <2> QED BY <2>6
  <1>6. CASE Publish(a)
    <2> DEFINE x == Find(receipts, d)
    <2>1. d.phase = "publish" /\ artifacts' = artifacts \union {x}
      BY <1>6 DEF Publish, At
    <2>2. \E r \in receipts : Is(r, d)
      BY <1>1, <2>1 DEF Tasked
    <2>3. x \in receipts /\ Is(x, d) /\ receipts \subseteq Payloads
      BY <2>2, Found, NoneApart DEF Typed
    <2> HIDE DEF x
    <2>4. Publishes(a, x)
      BY <1>1, <1>2, <2>1, <2>3 DEF Publishes
    <2> QED BY <2>4
  <1> QED BY <1>4, <1>5, <1>6

\* What is journaled.
Journals(a, entry) ==
    /\ doing[a] \in Tasks /\ entry \in Entries /\ journal' = Append(journal, entry)
    /\ entry.event = doing[a].event /\ entry.from = doing[a].seq
    /\ entry.after = After(Now, entry.event) /\ Accepts(Now, entry.event)
    /\ \E x \in artifacts : Is(x, doing[a])
    /\ doing' = [doing EXCEPT ![a] = None]
    /\ UNCHANGED <<fence, receipts, artifacts, late, conf, observation, inflight>>
    /\ owner' \in {owner, None}
    /\ loop' = loop \/ \E c \in Controllers : loop' = [loop EXCEPT ![c] = "off"]

LEMMA Accepted ==
  ASSUME NEW p \in Projections, NEW e \in Events, Accepts(p, e)
  PROVE  After(p, e) \in Projections
  <1>1. CASE e = "lease_renewed"
    BY <1>1, RenewalReturns
  <1>2. CASE e # "lease_renewed"
    BY <1>2, EventMoves
  <1> QED BY <1>1, <1>2

LEMMA Appends ==
  ASSUME Typed, Tasked, NEW a \in Actors, AppendEvent(a)
  PROVE  \E entry : Journals(a, entry)
  <1> DEFINE d == doing[a]
             x == Find(artifacts, d)
             entry == [event |-> d.event, from |-> d.seq, at |-> x.at, after |-> After(Now, d.event)]
  <1>1. d \in Tasks /\ d.phase = "append" /\ d # None
    BY NoneApart DEF AppendEvent, At
  <1>2. \E y \in artifacts : Is(y, d)
    BY <1>1 DEF Tasked
  <1>3. x \in artifacts /\ Is(x, d) /\ x.at \in Nat
    <2>1. x \in artifacts /\ Is(x, d)
      BY <1>2, Found, NoneApart
    <2>2. artifacts \subseteq Payloads
      BY DEF Typed
    <2> HIDE DEF x
    <2> QED BY <2>1, <2>2 DEF Payloads
  <1>4. d.event \in Events /\ d.seq \in Nat \ {0} /\ Accepts(Now, d.event)
    BY <1>1 DEF Tasks, AppendEvent
  <1>5. After(Now, d.event) \in Projections
    BY <1>4, JournalTyped, Accepted
  <1>6. /\ entry \in Entries /\ entry.event = d.event /\ entry.from = d.seq
        /\ entry.after = After(Now, d.event)
    <2> HIDE DEF d, x
    <2> QED BY <1>3, <1>4, <1>5 DEF Entries
  <1>7. /\ journal' = Append(journal, entry)
        /\ doing' = [doing EXCEPT ![a] = None]
        /\ UNCHANGED <<fence, receipts, artifacts, late, conf, observation, inflight>>
    BY DEF AppendEvent, nodeVars
  <1>8. /\ owner' \in {owner, None}
        /\ loop' = loop \/ \E c \in Controllers : loop' = [loop EXCEPT ![c] = "off"]
    <2>1. UNCHANGED <<loop, owner>> \/ (a \notin Operators /\ Leave(a))
      BY DEF AppendEvent
    <2>2. a \notin Operators => a \in Controllers
      BY DEF Actors
    <2> QED BY <2>1, <2>2 DEF Leave, Release
  <1> HIDE DEF entry
  <1>9. Journals(a, entry)
    BY <1>1, <1>2, <1>4, <1>6, <1>7, <1>8 DEF Journals
  <1> QED BY <1>9

\* The journal only grows.
LEMMA Grown ==
  ASSUME Typed, NEW entry \in Entries, journal' = Append(journal, entry)
  PROVE  /\ journal' \in Seq(Entries) /\ Len(journal') = Len(journal) + 1 /\ Len(journal) \in Nat
         /\ \A k \in 1..Len(journal) : journal'[k] = journal[k]
         /\ journal'[Len(journal) + 1] = entry
         /\ \A k \in 0..Len(journal) : Projection(k)' = Projection(k)
         /\ \A n \in Nat : n = Len(journal) + 1 => Projection(n)' = entry.after
         /\ \A k \in 0..Len(journal) : Places(k)' = Places(k) /\ Count(k)' = Count(k)
  <1>1. journal \in Seq(Entries)
    BY DEF Typed
  <1>2. /\ journal' \in Seq(Entries) /\ Len(journal') = Len(journal) + 1 /\ Len(journal) \in Nat
        /\ \A k \in 1..Len(journal) : journal'[k] = journal[k]
        /\ journal'[Len(journal) + 1] = entry
    BY <1>1
  <1>3. \A k \in 0..Len(journal) : Projection(k)' = Projection(k)
    BY <1>2 DEF Projection
  <1>4. \A n \in Nat : n = Len(journal) + 1 => Projection(n)' = entry.after
    BY <1>2 DEF Projection
  <1>5. \A k \in 0..Len(journal) : Places(k)' = Places(k)
    <2> SUFFICES ASSUME NEW k \in 0..Len(journal) PROVE Places(k)' = Places(k)
      OBVIOUS
    <2>1. \A p \in 1..k : journal'[p] = journal[p]
      BY <1>2
    <2> QED BY <2>1 DEF Places
  <1>6. \A k \in 0..Len(journal) : Count(k)' = Count(k)
    BY <1>5 DEF Count
  <1> QED BY <1>2, <1>3, <1>4, <1>5, <1>6

LEMMA Kinds ==
  ASSUME Typed, Tasked, [Next]_vars
  PROVE  \/ Quiet
         \/ \E a \in Actors : Recall(a) \/ Transition(a)
         \/ \E a \in Actors : \E x : Publishes(a, x)
         \/ \E a \in Actors : \E entry : Journals(a, entry)
         \/ LeaseLapses
         \/ \E n \in Nodes : Redeploy(n) \/ Observe(n) \/ Admit(n) \/ Complete(n)
  BY QuietSteps, Publications, Appends DEF Next

-----------------------------------------------------------------------------
(* Types *)

LEMMA TypedInit == Init => Typed
  <1> SUFFICES ASSUME Init PROVE Typed
    OBVIOUS
  <1>1. fence \in Fences
    BY DEF Init, Fences, Authorities, Phases
  <1>2. receipts = {} /\ artifacts = {} /\ IsFiniteSet({})
    BY FS_EmptySet DEF Init
  <1>3. journal \in Seq(Entries) /\ doing \in [Actors -> Tasks \union {None}]
    BY DEF Init
  <1>4. /\ conf \in [Nodes -> [authority : Authorities, epoch : Epochs]]
        /\ \A n \in Nodes : conf[n] \in Deployments[n]
    BY DEF Init
  <1>5. /\ late \in BOOLEAN /\ owner \in Controllers \union {None}
        /\ loop \in [Controllers -> {"off", "on", "blocked"}]
        /\ observation \in [Nodes -> Observations \union {None}] /\ inflight \in [Nodes -> Nat]
    BY DEF Init
  <1> QED BY <1>1, <1>2, <1>3, <1>4, <1>5 DEF Typed

\* What belongs to the loops of controllers.
LEMMA LoopsTyped ==
  ASSUME Typed, Tasked, [Next]_vars
  PROVE  /\ late' \in BOOLEAN /\ owner' \in Controllers \union {None}
         /\ loop' \in [Controllers -> {"off", "on", "blocked"}]
  <1>1. /\ late \in BOOLEAN /\ owner \in Controllers \union {None}
        /\ loop \in [Controllers -> {"off", "on", "blocked"}]
    BY DEF Typed
  <1>2. ASSUME NEW c \in Controllers, NEW s \in {"off", "on", "blocked"}, loop' = [loop EXCEPT ![c] = s]
        PROVE  loop' \in [Controllers -> {"off", "on", "blocked"}]
    BY <1>1, <1>2
  <1>3. ASSUME NEW c \in Controllers, Leave(c)
        PROVE  /\ owner' \in Controllers \union {None}
               /\ loop' \in [Controllers -> {"off", "on", "blocked"}]
    BY <1>1, <1>3 DEF Leave, Release
  <1>4. ASSUME NEW a \in Actors, Recall(a) \/ Transition(a) \/ Capture(a) \/ Decide(a) \/ Publish(a)
        PROVE  UNCHANGED <<late, owner, loop>>
    BY <1>4 DEF Recall, Transition, Capture, Decide, Publish, Proceed
  <1>5. ASSUME NEW a \in Actors, AppendEvent(a)
        PROVE  /\ late' = late /\ owner' \in Controllers \union {None}
               /\ loop' \in [Controllers -> {"off", "on", "blocked"}]
    <2>1. PICK entry : Journals(a, entry)
      BY <1>5, Appends
    <2> QED BY <1>1, <1>2, <2>1 DEF Journals
  <1>6. ASSUME NEW a \in Actors, Fail(a)
        PROVE  UNCHANGED <<late, owner>> /\ loop' \in [Controllers -> {"off", "on", "blocked"}]
    BY <1>1, <1>6 DEF Fail, Actors
  <1>7. ASSUME NEW c \in Controllers, Acquire(c) \/ RenewAuthority(c) \/ Crash(c)
        PROVE  /\ late' = late /\ owner' \in Controllers \union {None}
               /\ loop' \in [Controllers -> {"off", "on", "blocked"}]
    BY <1>1, <1>7 DEF Acquire, RenewAuthority, Crash
  <1>8. ASSUME NEW c \in Controllers, Advance(c) \/ Return(c)
        PROVE  /\ late' = late /\ owner' \in Controllers \union {None}
               /\ loop' \in [Controllers -> {"off", "on", "blocked"}]
    <2>1. late' = late /\ (Leave(c) \/ UNCHANGED <<loop, owner>>)
      BY <1>8 DEF Advance, Return
    <2> QED BY <1>1, <1>3, <2>1
  <1>9. ASSUME NEW n \in Nodes, Redeploy(n) \/ Observe(n) \/ Admit(n) \/ Complete(n)
        PROVE  UNCHANGED <<late, owner, loop>>
    BY <1>9 DEF Redeploy, Observe, Admit, Complete
  <1>10. ASSUME NEW o \in Operators, Command(o) PROVE UNCHANGED <<late, owner, loop>>
    BY <1>10 DEF Command
  <1>11. ASSUME KeyLapses \/ LeaseLapses \/ DeadlinePasses \/ UNCHANGED vars
         PROVE  late' \in BOOLEAN /\ owner' \in {owner, None} /\ loop' = loop
    BY <1>1, <1>11 DEF KeyLapses, LeaseLapses, DeadlinePasses, vars
  <1> QED BY <1>1, <1>4, <1>5, <1>6, <1>7, <1>8, <1>9, <1>10, <1>11 DEF Next

\* The tasks of actors.
LEMMA TaskTyped ==
  ASSUME Typed, Tasked, [Next]_vars
  PROVE  doing' \in [Actors -> Tasks \union {None}]
  <1>1. doing \in [Actors -> Tasks \union {None}] /\ Len(journal) \in Nat
    BY JournalTyped DEF Typed
  <1>2. ASSUME NEW a \in Actors, doing[a] # None, NEW ph \in {"execute", "publish", "append"},
               doing' = [doing EXCEPT ![a].phase = ph]
        PROVE  doing' \in [Actors -> Tasks \union {None}]
    <2>1. [doing[a] EXCEPT !.phase = ph] \in Tasks
      BY <1>1, <1>2 DEF Tasks
    <2>2. doing' = [doing EXCEPT ![a] = [doing[a] EXCEPT !.phase = ph]]
      BY <1>2
    <2> QED BY <1>1, <2>1, <2>2
  <1>3. CASE Quiet
    <2>1. \A e \in Events : New(e) \in Tasks
      BY <1>1 DEF New, Tasks
    <2> QED BY <1>1, <1>3, <2>1 DEF Quiet
  <1>4. ASSUME NEW a \in Actors, Recall(a) PROVE doing' \in [Actors -> Tasks \union {None}]
    BY <1>2, <1>4 DEF Recall, At, Proceed
  <1>5. ASSUME NEW a \in Actors, Transition(a) PROVE doing' \in [Actors -> Tasks \union {None}]
    BY <1>2, <1>5, TransitionMade, NoneApart
  <1>6. ASSUME NEW a \in Actors, NEW x, Publishes(a, x) PROVE doing' \in [Actors -> Tasks \union {None}]
    BY <1>2, <1>6, NoneApart DEF Publishes
  <1>7. ASSUME NEW a \in Actors, NEW entry, Journals(a, entry) PROVE doing' \in [Actors -> Tasks \union {None}]
    BY <1>1, <1>7 DEF Journals
  <1>8. ASSUME \/ LeaseLapses
               \/ \E n \in Nodes : Redeploy(n) \/ Observe(n) \/ Admit(n) \/ Complete(n)
        PROVE  doing' = doing
    BY <1>8 DEF LeaseLapses, Redeploy, Observe, Admit, Complete
  <1> QED BY <1>1, <1>3, <1>4, <1>5, <1>6, <1>7, <1>8, Kinds

\* The processes of the data planes.
LEMMA NodesTyped ==
  ASSUME Typed, Tasked, [Next]_vars
  PROVE  /\ conf' \in [Nodes -> [authority : Authorities, epoch : Epochs]]
         /\ \A n \in Nodes : conf'[n] \in Deployments[n]
         /\ observation' \in [Nodes -> Observations \union {None}]
         /\ inflight' \in [Nodes -> Nat]
         /\ \A n \in Nodes : conf[n].epoch <= conf'[n].epoch /\ conf'[n].epoch \in Epochs
  <1>1. /\ conf \in [Nodes -> [authority : Authorities, epoch : Epochs]]
        /\ \A n \in Nodes : conf[n] \in Deployments[n]
        /\ observation \in [Nodes -> Observations \union {None}] /\ inflight \in [Nodes -> Nat]
        /\ fence # None => fence \in Fences
    BY DEF Typed
  <1>2. \A n \in Nodes : conf[n].epoch \in 1..3 /\ conf[n].epoch \in Nat
    BY <1>1 DEF Epochs
  <1>3. CASE UNCHANGED <<conf, observation, inflight>>
    BY <1>1, <1>2, <1>3 DEF Epochs
  <1>4. ASSUME NEW n \in Nodes, Redeploy(n)
        PROVE  /\ conf' \in [Nodes -> [authority : Authorities, epoch : Epochs]]
               /\ \A m \in Nodes : conf'[m] \in Deployments[m]
               /\ \A m \in Nodes : conf[m].epoch <= conf'[m].epoch /\ conf'[m].epoch \in Epochs
               /\ observation' = observation /\ inflight' \in [Nodes -> Nat]
    <2>1. PICK d \in Deployments[n] : d.epoch >= conf[n].epoch /\ conf' = [conf EXCEPT ![n] = d]
      BY <1>4 DEF Redeploy
    <2>2. d \in [authority : Authorities, epoch : Epochs] /\ d.epoch \in 1..3
      BY DEF Epochs
    <2>3. inflight' \in [Nodes -> Nat] /\ observation' = observation
      BY <1>1, <1>4 DEF Redeploy
    <2>4. conf' \in [Nodes -> [authority : Authorities, epoch : Epochs]]
      BY <1>1, <2>1, <2>2
    <2>5. ASSUME NEW m \in Nodes
          PROVE  /\ conf'[m] \in Deployments[m] /\ conf'[m].epoch \in Epochs
                 /\ conf[m].epoch <= conf'[m].epoch
      <3>1. CASE m = n
        <4>1. conf'[m] = d
          BY <1>1, <2>1, <3>1
        <4> QED BY <1>2, <2>1, <2>2, <3>1, <4>1 DEF Epochs
      <3>2. CASE m # n
        <4>1. conf'[m] = conf[m]
          BY <1>1, <2>1, <3>2
        <4> QED BY <1>1, <1>2, <4>1 DEF Epochs
      <3> QED BY <3>1, <3>2
    <2> QED BY <2>3, <2>4, <2>5
  <1>5. ASSUME NEW n \in Nodes, Observe(n)
        PROVE  UNCHANGED <<conf, inflight>> /\ observation' \in [Nodes -> Observations \union {None}]
    <2>1. fence \in Fences /\ conf[n] \in [authority : Authorities, epoch : Epochs]
      BY <1>1, <1>5 DEF Observe
    <2>2. [authority |-> conf[n].authority, epoch |-> conf[n].epoch, lease |-> fence.lease] \in Observations
      BY <1>2, <2>1 DEF Observations, Fences
    <2> QED BY <1>1, <1>5, <2>2 DEF Observe
  <1>6. ASSUME NEW n \in Nodes, Admit(n) \/ Complete(n)
        PROVE  UNCHANGED <<conf, observation>> /\ inflight' \in [Nodes -> Nat]
    <2>1. Admit(n) => fence.epoch \in Nat
      BY <1>1 DEF Admit, Fences
    <2> QED BY <1>1, <1>6, <2>1 DEF Admit, Complete
  <1>7. ASSUME NEW n \in Nodes, Redeploy(n) \/ Observe(n) \/ Admit(n) \/ Complete(n)
        PROVE  /\ conf' \in [Nodes -> [authority : Authorities, epoch : Epochs]]
               /\ \A m \in Nodes : conf'[m] \in Deployments[m]
               /\ observation' \in [Nodes -> Observations \union {None}]
               /\ inflight' \in [Nodes -> Nat]
               /\ \A m \in Nodes : conf[m].epoch <= conf'[m].epoch /\ conf'[m].epoch \in Epochs
    BY <1>1, <1>2, <1>4, <1>5, <1>6, <1>7 DEF Epochs
  <1>8. \/ UNCHANGED <<conf, observation, inflight>>
        \/ \E n \in Nodes : Redeploy(n) \/ Observe(n) \/ Admit(n) \/ Complete(n)
    BY Kinds, TransitionMade DEF Quiet, Recall, Proceed, Publishes, Journals, LeaseLapses, nodeVars
  <1> QED BY <1>3, <1>7, <1>8

LEMMA TypedStep == Typed /\ Tasked /\ [Next]_vars => Typed'
  <1> SUFFICES ASSUME Typed, Tasked, [Next]_vars PROVE Typed'
    OBVIOUS
  <1> DEFINE Shared == /\ fence' \in Fences \union {None}
                       /\ receipts' \subseteq Payloads /\ IsFiniteSet(receipts')
                       /\ artifacts' \subseteq Payloads /\ IsFiniteSet(artifacts')
                       /\ \A r \in receipts' : r.event \in LeaseEvents /\ r.seq > 0
                       /\ \A x \in artifacts' : x.event \in Events /\ x.seq > 0
                       /\ journal' \in Seq(Entries)
  <1>1. ASSUME UNCHANGED <<receipts, artifacts, journal>>, fence' \in {fence, None} PROVE Shared
    BY <1>1 DEF Typed
  <1>2. ASSUME NEW a \in Actors, Transition(a) PROVE Shared
    <2>1. UNCHANGED <<artifacts, journal>> /\ doing[a] \in Tasks /\ doing[a].event \in LeaseEvents
      BY <1>2, TransitionMade
    <2>2. CASE UNCHANGED <<fence, receipts>>
      BY <1>1, <2>1, <2>2
    <2>3. ASSUME NEW r, Replaces(a, r) PROVE Shared
      <3>1. /\ r \in Payloads /\ Is(r, doing[a]) /\ receipts' = receipts \union {r} /\ fence' \in Fences
        BY <2>3 DEF Replaces
      <3>2. r.event \in LeaseEvents /\ r.seq > 0
        BY <2>1, <3>1 DEF Is, Tasks
      <3>3. IsFiniteSet(receipts')
        BY <3>1, FS_AddElement DEF Typed
      <3> QED BY <2>1, <3>1, <3>2, <3>3 DEF Typed
    <2> QED BY <1>2, <2>2, <2>3, TransitionMade
  <1>3. ASSUME NEW a \in Actors, NEW x, Publishes(a, x) PROVE Shared
    <2>1. /\ doing[a] \in Tasks /\ x \in Payloads /\ Is(x, doing[a]) /\ artifacts' = artifacts \union {x}
          /\ UNCHANGED <<fence, receipts, journal>>
      BY <1>3 DEF Publishes
    <2>2. x.event \in Events /\ x.seq > 0
      BY <2>1 DEF Is, Tasks
    <2>3. IsFiniteSet(artifacts')
      BY <2>1, FS_AddElement DEF Typed
    <2> QED BY <2>1, <2>2, <2>3 DEF Typed
  <1>4. ASSUME NEW a \in Actors, NEW entry, Journals(a, entry) PROVE Shared
    <2>1. entry \in Entries /\ journal' = Append(journal, entry) /\ UNCHANGED <<fence, receipts, artifacts>>
      BY <1>4 DEF Journals
    <2>2. journal' \in Seq(Entries)
      BY <2>1, Grown
    <2> QED BY <2>1, <2>2 DEF Typed
  <1>5. ASSUME \/ Quiet \/ LeaseLapses \/ \E a \in Actors : Recall(a)
               \/ \E n \in Nodes : Redeploy(n) \/ Observe(n) \/ Admit(n) \/ Complete(n)
        PROVE  Shared
    <2>1. UNCHANGED <<receipts, artifacts, journal>> /\ fence' \in {fence, None}
      BY <1>5 DEF Quiet, LeaseLapses, Recall, Redeploy, Observe, Admit, Complete, attemptVars
    <2> QED BY <1>1, <2>1
  <1>6. Shared
    BY <1>2, <1>3, <1>4, <1>5, Kinds
  <1> QED BY <1>6, LoopsTyped, TaskTyped, NodesTyped DEF Typed

LEMMA TaskedStep == Typed /\ Tasked /\ [Next]_vars => Tasked'
  <1> SUFFICES ASSUME Typed, Tasked, [Next]_vars, NEW b \in Actors, doing'[b] # None
               PROVE  /\ doing'[b].seq <= Len(journal') + 1
                      /\ \E k : k = doing'[b].seq - 1 /\ Accepts(Projection(k)', doing'[b].event)
                      /\ doing'[b].phase = "publish" => \E r \in receipts' : Is(r, doing'[b])
                      /\ doing'[b].phase = "append" => \E x \in artifacts' : Is(x, doing'[b])
    BY DEF Tasked, Projection
  <1>0. /\ doing \in [Actors -> Tasks \union {None}] /\ Len(journal) \in Nat
        /\ doing[b] # None => doing[b] \in Tasks /\ doing[b].seq \in Nat \ {0}
    BY JournalTyped DEF Typed, Tasks
  <1> DEFINE Kept == /\ doing[b] # None
                     /\ doing'[b].seq = doing[b].seq /\ doing'[b].event = doing[b].event
             Grows == /\ receipts \subseteq receipts' /\ artifacts \subseteq artifacts'
                      /\ Len(journal) <= Len(journal') /\ Len(journal') \in Nat
                      /\ \A k \in 0..Len(journal) : Projection(k)' = Projection(k)
             Goal == /\ doing'[b].seq <= Len(journal') + 1
                     /\ \E k : k = doing'[b].seq - 1 /\ Accepts(Projection(k)', doing'[b].event)
                     /\ doing'[b].phase = "publish" => \E r \in receipts' : Is(r, doing'[b])
                     /\ doing'[b].phase = "append" => \E x \in artifacts' : Is(x, doing'[b])
  <1>1. ASSUME Kept, Grows,
               doing'[b].phase = "publish" => \E r \in receipts' : Is(r, doing[b]),
               doing'[b].phase = "append" => \E x \in artifacts' : Is(x, doing[b])
        PROVE  Goal
    <2>1. doing[b].seq \in 1..(Len(journal) + 1) /\ Accepts(Projection(doing[b].seq - 1), doing[b].event)
      BY <1>0, <1>1 DEF Tasked
    <2>2. doing[b].seq - 1 \in 0..Len(journal)
      BY <1>0, <2>1
    <2>3. \E k : k = doing'[b].seq - 1 /\ Accepts(Projection(k)', doing'[b].event)
      <3> DEFINE k == doing[b].seq - 1
      <3>1. k = doing'[b].seq - 1 /\ Projection(k)' = Projection(k)
        BY <1>1, <2>2
      <3> QED BY <1>1, <2>1, <3>1
    <2>4. doing'[b].seq <= Len(journal') + 1
      BY <1>0, <1>1, <2>1
    <2> QED BY <1>1, <2>3, <2>4 DEF Is
  <1>2. ASSUME doing'[b] = doing[b], Grows PROVE Goal
    <2>1. doing[b] # None /\ Kept
      BY <1>2
    <2>2. /\ doing'[b].phase = "publish" => \E r \in receipts' : Is(r, doing[b])
          /\ doing'[b].phase = "append" => \E x \in artifacts' : Is(x, doing[b])
      BY <1>2, <2>1 DEF Tasked
    <2> QED BY <1>1, <1>2, <2>1, <2>2
  <1>3. ASSUME UNCHANGED <<receipts, artifacts, journal>> PROVE Grows
    BY <1>0, <1>3 DEF Projection
  <1>4. CASE Quiet
    <2>1. Grows
      BY <1>3, <1>4 DEF Quiet
    <2>2. CASE doing'[b] = doing[b]
      BY <1>2, <2>1, <2>2
    <2>3. ASSUME NEW e \in Events, Accepts(Now, e), doing'[b] = New(e) PROVE Goal
      <3>1. /\ doing'[b].seq = Len(journal) + 1 /\ doing'[b].event = e /\ doing'[b].phase = "execute"
        BY <2>3 DEF New
      <3>2. PICK k : k = Len(journal)
        OBVIOUS
      <3>3. Projection(k)' = Now /\ Len(journal') = Len(journal) /\ k = doing'[b].seq - 1
        BY <1>0, <1>4, <3>1, <3>2 DEF Now, Projection, Quiet
      <3> QED BY <1>0, <2>3, <3>1, <3>3
    <2>4. \/ doing'[b] = doing[b]
          \/ \E e \in Events : Accepts(Now, e) /\ doing'[b] = New(e)
      BY <1>0, <1>4 DEF Quiet
    <2> QED BY <2>2, <2>3, <2>4
  <1>5. ASSUME NEW a \in Actors, Recall(a) PROVE Goal
    <2>1. Grows /\ doing[a] # None /\ doing' = [doing EXCEPT ![a].phase = "append"]
      BY <1>3, <1>5 DEF Recall, attemptVars, Proceed, At
    <2>2. \E x \in artifacts' : Is(x, doing[a])
      BY <1>5, Found, NoneApart DEF Recall, attemptVars
    <2>3. CASE b = a
      <3>1. Kept /\ doing'[b].phase = "append"
        BY <1>0, <2>1, <2>3 DEF Tasks
      <3> QED BY <1>1, <2>1, <2>2, <2>3, <3>1
    <2>4. CASE b # a
      BY <1>0, <1>2, <2>1, <2>4
    <2> QED BY <2>3, <2>4
  <1>6. ASSUME NEW a \in Actors, Transition(a) PROVE Goal
    <2>1. /\ doing[a] \in Tasks /\ doing[a] # None /\ doing' = [doing EXCEPT ![a].phase = "publish"]
          /\ UNCHANGED <<artifacts, journal>>
      BY <1>6, TransitionMade, NoneApart
    <2>2. receipts \subseteq receipts' /\ \E r \in receipts' : Is(r, doing[a])
      BY <1>6, TransitionMade DEF Replaces
    <2>3. Grows
      BY <1>0, <2>1, <2>2 DEF Projection
    <2>4. CASE b = a
      <3>1. Kept /\ doing'[b].phase = "publish"
        BY <1>0, <2>1, <2>4 DEF Tasks
      <3> QED BY <1>1, <2>2, <2>3, <2>4, <3>1
    <2>5. CASE b # a
      BY <1>0, <1>2, <2>1, <2>3, <2>5
    <2> QED BY <2>4, <2>5
  <1>7. ASSUME NEW a \in Actors, NEW x, Publishes(a, x) PROVE Goal
    <2>1. /\ doing[a] \in Tasks /\ doing[a] # None /\ doing' = [doing EXCEPT ![a].phase = "append"]
          /\ UNCHANGED <<receipts, journal>> /\ artifacts' = artifacts \union {x} /\ Is(x, doing[a])
      BY <1>7, NoneApart DEF Publishes
    <2>2. \E y \in artifacts' : Is(y, doing[a])
      BY <2>1
    <2>3. Grows
      BY <1>0, <2>1 DEF Projection
    <2>4. CASE b = a
      <3>1. Kept /\ doing'[b].phase = "append"
        BY <1>0, <2>1, <2>4 DEF Tasks
      <3> QED BY <1>1, <2>2, <2>3, <2>4, <3>1
    <2>5. CASE b # a
      BY <1>0, <1>2, <2>1, <2>3, <2>5
    <2> QED BY <2>4, <2>5
  <1>8. ASSUME NEW a \in Actors, NEW entry, Journals(a, entry) PROVE Goal
    <2>1. /\ entry \in Entries /\ journal' = Append(journal, entry) /\ doing' = [doing EXCEPT ![a] = None]
          /\ UNCHANGED <<receipts, artifacts>>
      BY <1>8 DEF Journals
    <2>2. Grows
      BY <2>1, Grown
    <2>3. doing'[b] = doing[b]
      BY <1>0, <2>1
    <2> QED BY <1>2, <2>2, <2>3
  <1>9. ASSUME \/ LeaseLapses
               \/ \E n \in Nodes : Redeploy(n) \/ Observe(n) \/ Admit(n) \/ Complete(n)
        PROVE  Goal
    <2>1. UNCHANGED <<receipts, artifacts, journal, doing>>
      BY <1>9 DEF LeaseLapses, Redeploy, Observe, Admit, Complete, attemptVars
    <2> QED BY <1>2, <1>3, <2>1
  <1> QED BY <1>4, <1>5, <1>6, <1>7, <1>8, <1>9, Kinds

-----------------------------------------------------------------------------
(* The fence, its receipts and what is published of them *)

\* The steps that change what is shared.
LEMMA Shares ==
  ASSUME Typed, Tasked, [Next]_vars
  PROVE  \/ UNCHANGED <<fence, receipts, artifacts, journal>>
         \/ \E a \in Actors : \E r :
               /\ Replaces(a, r) /\ doing[a] \in Tasks /\ doing[a].event \in LeaseEvents
               /\ ExpectedLease(doing[a]) # None
               /\ UNCHANGED <<artifacts, journal, conf, observation, inflight>>
         \/ \E a \in Actors : \E x : Publishes(a, x)
         \/ \E a \in Actors : \E entry : Journals(a, entry)
         \/ fence' = None /\ UNCHANGED <<receipts, artifacts, journal, conf, observation, inflight>>
  <1>1. ASSUME NEW a \in Actors, Transition(a)
        PROVE  \/ UNCHANGED <<fence, receipts, artifacts, journal>>
               \/ \E r : /\ Replaces(a, r) /\ doing[a] \in Tasks /\ doing[a].event \in LeaseEvents
                         /\ ExpectedLease(doing[a]) # None
                         /\ UNCHANGED <<artifacts, journal, conf, observation, inflight>>
    BY <1>1, TransitionMade
  <1>2. ASSUME \/ Quiet \/ \E a \in Actors : Recall(a)
               \/ \E n \in Nodes : Redeploy(n) \/ Observe(n) \/ Admit(n) \/ Complete(n)
        PROVE  UNCHANGED <<fence, receipts, artifacts, journal>>
    BY <1>2 DEF Quiet, Recall, Redeploy, Observe, Admit, Complete, attemptVars
  <1>3. LeaseLapses => fence' = None /\ UNCHANGED <<receipts, artifacts, journal, conf, observation, inflight>>
    BY DEF LeaseLapses, attemptVars, nodeVars
  <1> QED BY <1>1, <1>2, <1>3, Kinds

Made == receipts \union {InitialTransition}

\* The fence is the newest of the records that were made; no two of them bear
\* the same lease or were made for the same action; what was published of a
\* transition is its receipt, and a proof tells of a record that was made.
FenceMade ==
    fence # None =>
       /\ \E q \in Made : q.lease = fence.lease /\ Fields(q) = Fields(fence)
       /\ \A q \in Made : q.lease <= fence.lease

Distinct == \A q, r \in Made : q.lease = r.lease \/ Is(q, r) => q = r

Published ==
    /\ \A x \in artifacts : x.event \in LeaseEvents => x \in receipts
    /\ \A x \in artifacts : \E q \in Made : x.lease = q.lease /\ Fields(x) = Fields(q)

Records == FenceMade /\ Distinct /\ Published

LEMMA RecordsInit == Init => Records
  <1> SUFFICES ASSUME Init PROVE Records
    OBVIOUS
  <1>1. Made = {InitialTransition} /\ artifacts = {}
    BY DEF Init, Made
  <1>2. InitialTransition.lease = fence.lease /\ Fields(InitialTransition) = Fields(fence) /\ fence.lease = 1
    BY DEF Init, InitialTransition, Fields
  <1> QED BY <1>1, <1>2 DEF Records, FenceMade, Distinct, Published

LEMMA MadeTyped ==
  ASSUME Typed, NEW q \in Made
  PROVE  q \in Payloads /\ q.lease \in Nat \ {0} /\ q.epoch \in Nat \ {0} /\ q.seq \in Nat
  BY NoneApart DEF Typed, Made, Payloads

LEMMA RecordsStep == Typed /\ Tasked /\ Records /\ [Next]_vars => Records'
  <1> SUFFICES ASSUME Typed, Tasked, Records, [Next]_vars PROVE Records'
    OBVIOUS
  <1> USE DEF Records
  <1>1. CASE UNCHANGED <<fence, receipts, artifacts, journal>>
    BY <1>1 DEF FenceMade, Distinct, Published, Made
  <1>2. ASSUME NEW a \in Actors, NEW r, Replaces(a, r), doing[a] \in Tasks, artifacts' = artifacts
        PROVE  Records'
    <2>1. /\ r \in Payloads /\ Is(r, doing[a]) /\ r.lease = fence.lease + 1
          /\ receipts' = receipts \union {r} /\ ~ (\E q \in receipts : Is(q, doing[a]))
          /\ fence \in Fences /\ fence' \in Fences /\ fence'.lease = r.lease /\ Fields(fence') = Fields(r)
      BY <1>2 DEF Replaces
    <2>2. Made' = Made \union {r}
      BY <2>1 DEF Made, InitialTransition
    <2>3. ASSUME NEW q \in Made PROVE q.lease < r.lease /\ ~Is(q, r) /\ ~Is(r, q)
      <3>1. q.lease <= fence.lease /\ fence.lease \in Nat /\ q.lease \in Nat
        BY <2>1, MadeTyped, NoneApart DEF FenceMade, Fences
      <3>2. CASE q \in receipts
        BY <2>1, <3>1, <3>2 DEF Is
      <3>3. CASE q = InitialTransition
        <4>1. r.seq # 0 /\ q.seq = 0
          BY <1>2, <2>1, <3>3 DEF Is, Tasks, InitialTransition
        <4> QED BY <2>1, <3>1, <4>1 DEF Is
      <3> QED BY <3>2, <3>3 DEF Made
    <2>4. r.lease \in Nat /\ \A q \in Made : q.lease \in Nat
      BY <2>1, MadeTyped DEF Payloads
    <2>5. FenceMade'
      <3>1. \A q \in Made' : q.lease <= fence'.lease
        BY <2>1, <2>2, <2>3, <2>4
      <3>2. r \in Made' /\ r.lease = fence'.lease /\ Fields(r) = Fields(fence')
        BY <2>1, <2>2
      <3>3. Fields(r)' = Fields(r) /\ \A q : Fields(q)' = Fields(q)
        BY DEF Fields
      <3> QED BY <3>1, <3>2 DEF FenceMade, Fields
    <2>6. Distinct'
      BY <2>2, <2>3, <2>4 DEF Distinct, Is
    <2>7. Published'
      BY <1>2, <2>1, <2>2 DEF Published, Fields
    <2> QED BY <2>5, <2>6, <2>7
  <1>3. ASSUME NEW a \in Actors, NEW x, Publishes(a, x) PROVE Records'
    <2>1. /\ UNCHANGED <<fence, receipts>> /\ artifacts' = artifacts \union {x}
          /\ \/ x \in receipts
             \/ /\ x.event \notin LeaseEvents
                /\ \E t \in artifacts \union {InitialTransition} : x.lease = t.lease /\ Fields(x) = Fields(t)
      BY <1>3 DEF Publishes
    <2>2. Made' = Made
      BY <2>1 DEF Made, InitialTransition
    <2>3. \E q \in Made : x.lease = q.lease /\ Fields(x) = Fields(q)
      BY <2>1 DEF Published, Made
    <2>4. Published'
      BY <2>1, <2>2, <2>3 DEF Published, Fields
    <2> QED BY <2>1, <2>2, <2>4 DEF FenceMade, Distinct
  <1>4. ASSUME NEW a \in Actors, NEW entry, Journals(a, entry) PROVE Records'
    BY <1>1, <1>4 DEF Journals, FenceMade, Distinct, Published, Made
  <1>5. CASE fence' = None /\ UNCHANGED <<receipts, artifacts>>
    BY <1>5 DEF FenceMade, Distinct, Published, Made, InitialTransition
  <1> QED BY <1>1, <1>2, <1>3, <1>4, <1>5, Shares

\* What the record to be replaced is derived from.
LEMMA Expected ==
  ASSUME Typed, NEW d \in Tasks, d.seq <= Len(journal) + 1, ExpectedLease(d) # None
  PROVE  /\ LatestTransition(d) # None /\ ExpectedLease(d) = LatestTransition(d).lease
         /\ d.event = "target_activated" =>
               \E x \in artifacts : x.event = "frozen_confirmed" /\ x.lease = ExpectedLease(d)
         /\ d.event = "source_reactivated" =>
               \E x \in artifacts : x.event = "rollback_frozen_confirmed" /\ x.lease = ExpectedLease(d)
  <1> DEFINE t == LatestTransition(d)
             evidence == CASE d.event = "freeze_applied" -> LatestPayload(d, "source_checkpointed")
                           [] d.event = "target_activated" -> LatestPayload(d, "frozen_confirmed")
                           [] d.event = "source_reactivated" -> LatestPayload(d, "rollback_frozen_confirmed")
                           [] OTHER -> t
  <1>1. /\ t # None /\ evidence # None /\ evidence.lease = t.lease /\ ExpectedLease(d) = t.lease
    <2>1. ExpectedLease(d) = IF t = None \/ evidence = None THEN None
                             ELSE IF evidence.lease # t.lease THEN None ELSE t.lease
      BY DEF ExpectedLease
    <2> HIDE DEF t, evidence
    <2>2. ~(t = None \/ evidence = None)
      BY <2>1
    <2>3. ~(evidence.lease # t.lease)
      BY <2>1, <2>2
    <2> QED BY <2>1, <2>2, <2>3
  <1>2. ASSUME NEW e, LatestPayload(d, e) # None
        PROVE  LatestPayload(d, e) \in artifacts /\ LatestPayload(d, e).event = e
    <2> DEFINE S == {x \in artifacts : x.event = e /\ x.seq < d.seq}
               places == {x.seq : x \in S}
    <2>1. S # {} /\ LatestPayload(d, e) = Newest(S)
      <3>1. LatestPayload(d, e) = IF S = {} THEN None ELSE Newest(S)
        BY DEF LatestPayload
      <3> HIDE DEF S
      <3>2. S # {}
        BY <1>2, <3>1
      <3> QED BY <3>1, <3>2
    <2>2. d.seq \in Nat /\ \A x \in S : x.seq \in Nat /\ x.seq <= d.seq
      BY DEF Typed, Payloads, Tasks
    <2>3. places \subseteq 0..d.seq /\ places \in SUBSET Nat
      BY <2>2
    <2>4. IsFiniteSet(places)
      <3>1. IsFiniteSet(0..d.seq)
        BY <2>2, FS_Interval
      <3>2. places \in SUBSET (0..d.seq)
        BY <2>3
      <3> HIDE DEF places
      <3> QED BY <3>1, <3>2, FS_Subset
    <2>5. places # {}
      <3>1. PICK x \in S : TRUE
        BY <2>1
      <3>2. x.seq \in places
        BY <3>1
      <3> QED BY <3>2
    <2>6. PICK p \in places : \A q \in places : q <= p
      <3> HIDE DEF places
      <3> QED BY <2>3, <2>4, <2>5, Greatest
    <2>7. \E x \in S : \A y \in S : y.seq <= x.seq
      BY <2>6
    <2>8. Newest(S) \in S
      <3> HIDE DEF S
      <3> QED BY <2>7 DEF Newest
    <2> QED BY <2>1, <2>8
  <1>3. CASE d.event = "target_activated"
    <2>1. evidence = LatestPayload(d, "frozen_confirmed")
      BY <1>3
    <2> HIDE DEF evidence, t
    <2>2. evidence \in artifacts /\ evidence.event = "frozen_confirmed" /\ evidence.lease = ExpectedLease(d)
      BY <1>1, <1>2, <2>1
    <2> QED BY <1>1, <1>3, <2>2 DEF t
  <1>4. CASE d.event = "source_reactivated"
    <2>1. evidence = LatestPayload(d, "rollback_frozen_confirmed")
      BY <1>4
    <2> HIDE DEF evidence, t
    <2>2. evidence \in artifacts /\ evidence.event = "rollback_frozen_confirmed"
          /\ evidence.lease = ExpectedLease(d)
      BY <1>1, <1>2, <2>1
    <2> QED BY <1>1, <1>4, <2>2 DEF t
  <1>5. CASE d.event \notin {"target_activated", "source_reactivated"}
    <2> HIDE DEF evidence
    <2> QED BY <1>1, <1>5
  <1> QED BY <1>3, <1>4, <1>5

-----------------------------------------------------------------------------
(* Who confirmed a freeze has drained *)

\* The nodes that are asked before an authority is given the fence.
Asked(authority) == DOMAIN (IF authority = Target THEN FrozenNodes ELSE SourceNodes)

\* A node that confirmed a record is configured for its epoch or a later one;
\* what it delivers it was admitted to in the epoch it is configured for; and
\* whom an active record had to be confirmed by is configured for its epoch.
Confirmed ==
    /\ \A x \in artifacts : x.event \in ProofEvents =>
          \A n \in DOMAIN Manifest(x.event) : x.epoch <= conf[n].epoch
    /\ \A n \in Nodes : observation[n] # None => observation[n].epoch <= conf[n].epoch
    /\ \A n \in Nodes : inflight[n] # 0 =>
          inflight[n] = conf[n].epoch /\ (fence # None => conf[n].epoch <= fence.epoch)
    /\ fence # None /\ fence.phase = "active" =>
          \A n \in Asked(fence.authority) : fence.epoch <= conf[n].epoch

LEMMA AskedNodes ==
  /\ \A a : Asked(a) \subseteq Nodes
  /\ Asked(Target) = DOMAIN Manifest("frozen_confirmed")
  /\ Asked(Source) = DOMAIN Manifest("rollback_frozen_confirmed")
  /\ \A e : DOMAIN Manifest(e) \subseteq Nodes /\ \A n \in DOMAIN Manifest(e) : Manifest(e)[n] \in Authorities
  <1>1. /\ Manifest("frozen_confirmed") = FrozenNodes /\ Manifest("rollback_frozen_confirmed") = SourceNodes
        /\ \A e : Manifest(e) \in {FrozenNodes, TargetNodes, SourceNodes}
    BY DEF Manifest
  <1>2. Asked(Target) = DOMAIN FrozenNodes /\ Asked(Source) = DOMAIN SourceNodes
        /\ \A a : Asked(a) \in {DOMAIN FrozenNodes, DOMAIN SourceNodes}
    BY DEF Asked
  <1> QED BY <1>1, <1>2

LEMMA ConfirmedInit == Init => Confirmed
  <1> SUFFICES ASSUME Init PROVE Confirmed
    OBVIOUS
  <1>1. /\ artifacts = {} /\ \A n \in Nodes : observation[n] = None /\ inflight[n] = 0
        /\ fence.epoch = 1 /\ conf = Deployed
    BY DEF Init
  <1>2. \A n \in Nodes : conf[n].epoch \in 1..3
    BY <1>1 DEF Epochs
  <1>3. \A n \in Asked(fence.authority) : fence.epoch <= conf[n].epoch
    BY <1>1, <1>2, AskedNodes
  <1> QED BY <1>1, <1>3 DEF Confirmed

LEMMA ConfirmedStep == Typed /\ Tasked /\ Records /\ Confirmed /\ [Next]_vars => Confirmed'
  <1> SUFFICES ASSUME Typed, Tasked, Records, Confirmed, [Next]_vars PROVE Confirmed'
    OBVIOUS
  <1> DEFINE Proofs == \A x \in artifacts' : x.event \in ProofEvents =>
                          \A n \in DOMAIN Manifest(x.event) : x.epoch <= conf'[n].epoch
             Observed == \A n \in Nodes : observation'[n] # None => observation'[n].epoch <= conf'[n].epoch
             Admitted == \A n \in Nodes : inflight'[n] # 0 =>
                            inflight'[n] = conf'[n].epoch /\ (fence' # None => conf'[n].epoch <= fence'.epoch)
             Drained == fence' # None /\ fence'.phase = "active" =>
                            \A n \in Asked(fence'.authority) : fence'.epoch <= conf'[n].epoch
  <1>0. /\ \A n \in Nodes : /\ conf[n].epoch \in Nat /\ conf'[n].epoch \in Nat
                            /\ conf[n].epoch <= conf'[n].epoch /\ inflight[n] \in Nat
                            /\ observation[n] # None => observation[n] \in Observations
        /\ fence # None => fence.epoch \in Nat /\ fence.lease \in Nat
        /\ \A x \in artifacts : x.epoch \in Nat
    <2>1. \A n \in Nodes : conf[n].epoch \in 1..3 /\ conf'[n].epoch \in 1..3 /\ conf[n].epoch <= conf'[n].epoch
      BY NodesTyped DEF Typed, Epochs
    <2>2. \A x \in artifacts : x.epoch \in Nat
      BY DEF Typed, Payloads
    <2>3. fence # None => fence.epoch \in Nat /\ fence.lease \in Nat
      BY NoneApart DEF Fences
    <2>4. \A n \in Nodes : inflight[n] \in Nat /\ (observation[n] # None => observation[n] \in Observations)
      BY DEF Typed
    <2>5. \A n \in Nodes : conf[n].epoch \in Nat /\ conf'[n].epoch \in Nat
      BY <2>1
    <2> QED BY <2>1, <2>2, <2>3, <2>4, <2>5
  \* Observations and configurations rise only.
  <1>1. ASSUME artifacts' = artifacts PROVE Proofs
    <2> SUFFICES ASSUME NEW x \in artifacts, x.event \in ProofEvents, NEW n \in DOMAIN Manifest(x.event)
                 PROVE  x.epoch <= conf'[n].epoch
      BY <1>1
    <2>1. n \in Nodes /\ x.epoch <= conf[n].epoch
      BY AskedNodes DEF Confirmed
    <2> QED BY <1>0, <2>1
  <1>2. ASSUME observation' = observation PROVE Observed
    <2> SUFFICES ASSUME NEW n \in Nodes, observation[n] # None PROVE observation[n].epoch <= conf'[n].epoch
      BY <1>2
    <2>1. observation[n].epoch <= conf[n].epoch /\ observation[n].epoch \in Nat
      BY <1>0 DEF Confirmed, Observations
    <2> QED BY <1>0, <2>1
  <1>3. ASSUME fence' = fence PROVE Drained
    <2> SUFFICES ASSUME fence # None, fence.phase = "active", NEW n \in Asked(fence.authority)
                 PROVE  fence.epoch <= conf'[n].epoch
      BY <1>3
    <2>1. n \in Nodes /\ fence.epoch <= conf[n].epoch
      BY AskedNodes DEF Confirmed
    <2> QED BY <1>0, <2>1
  <1>4. ASSUME UNCHANGED <<conf, inflight>>,
               fence' # None => fence # None /\ fence.epoch <= fence'.epoch /\ fence'.epoch \in Nat
        PROVE  Admitted
    <2> SUFFICES ASSUME NEW n \in Nodes, inflight[n] # 0
                 PROVE  /\ inflight[n] = conf[n].epoch
                        /\ fence' # None => conf[n].epoch <= fence'.epoch
      BY <1>4
    <2>1. inflight[n] = conf[n].epoch /\ (fence # None => conf[n].epoch <= fence.epoch)
      BY DEF Confirmed
    <2> QED BY <1>0, <1>4, <2>1
  <1>5. ASSUME UNCHANGED <<fence, artifacts, conf, observation, inflight>> PROVE Confirmed'
    BY <1>5 DEF Confirmed
  <1>6. ASSUME NEW a \in Actors, NEW r, Replaces(a, r), doing[a] \in Tasks, doing[a].event \in LeaseEvents,
               ExpectedLease(doing[a]) # None, UNCHANGED <<artifacts, conf, observation, inflight>>
        PROVE  Confirmed'
    <2> DEFINE d == doing[a]
    <2>1. /\ fence \in Fences /\ fence' \in Fences /\ fence.lease = ExpectedLease(d)
          /\ Fields(fence') = Changed(Fields(fence), d.event)
          /\ d.event \in FreezeEvents => fence.phase = "active"
          /\ d.event \in ActivateEvents => fence.phase = "frozen"
      BY <1>6 DEF Replaces
    <2>2. d # None /\ d.seq <= Len(journal) + 1 /\ fence # None /\ fence' # None /\ fence'.epoch \in Nat
      BY <1>6, <2>1, NoneApart DEF Tasked, Fences
    <2>3. \A f \in Fences : f.authority = Fields(f).authority /\ f.phase = Fields(f).phase
                              /\ f.epoch = Fields(f).epoch
      BY DEF Fields
    <2>4. CASE d.event \in FreezeEvents
      <3>1. fence'.phase = "frozen" /\ fence'.epoch = fence.epoch + 1
        <4>1. Fields(fence') = Fact(fence.authority, "frozen", fence.epoch + 1)
          BY <2>1, <2>4 DEF Changed, Fields, FreezeEvents
        <4> QED BY <2>1, <2>3, <4>1 DEF Fact
      <3>2. Drained /\ Admitted
        BY <1>0, <1>4, <1>6, <2>2, <3>1
      <3> QED BY <1>1, <1>2, <1>6, <3>2 DEF Confirmed
    <2>5. ASSUME NEW to \in {Source, Target}, NEW e \in ProofEvents,
                 Fields(fence') = Fact(to, "active", fence.epoch), Asked(to) = DOMAIN Manifest(e),
                 NEW x \in artifacts, x.event = e, x.lease = fence.lease
          PROVE  Confirmed'
      <3>1. fence'.authority = to /\ fence'.epoch = fence.epoch
        BY <2>1, <2>3, <2>5 DEF Fact
      <3>2. x.epoch = fence.epoch
        <4>1. PICK q \in Made : x.lease = q.lease /\ Fields(x) = Fields(q)
          BY DEF Records, Published
        <4>2. PICK s \in Made : s.lease = fence.lease /\ Fields(s) = Fields(fence)
          BY <2>2 DEF Records, FenceMade
        <4>3. q = s
          BY <2>5, <4>1, <4>2 DEF Records, Distinct
        <4>4. Fields(x) = Fields(fence)
          BY <4>1, <4>2, <4>3
        <4> QED BY <4>4 DEF Fields
      <3>3. \A n \in Asked(to) : fence'.epoch <= conf'[n].epoch
        BY <1>6, <2>5, <3>1, <3>2 DEF Confirmed
      <3>4. Drained
        BY <3>1, <3>3
      <3>5. Admitted
        BY <1>0, <1>4, <1>6, <2>2, <3>1
      <3> QED BY <1>1, <1>2, <1>6, <3>4, <3>5 DEF Confirmed
    <2>6. CASE d.event = "target_activated"
      <3>1. Fields(fence') = Fact(Target, "active", fence.epoch)
        BY <2>1, <2>6 DEF Changed, Fields, FreezeEvents
      <3>2. \E x \in artifacts : x.event = "frozen_confirmed" /\ x.lease = fence.lease
        BY <1>6, <2>1, <2>2, <2>6, Expected
      <3> QED BY <2>5, <3>1, <3>2, AskedNodes DEF ProofEvents
    <2>7. CASE d.event = "source_reactivated"
      <3>1. Fields(fence') = Fact(Source, "active", fence.epoch)
        BY <2>1, <2>7 DEF Changed, Fields, FreezeEvents
      <3>2. \E x \in artifacts : x.event = "rollback_frozen_confirmed" /\ x.lease = fence.lease
        BY <1>6, <2>1, <2>2, <2>7, Expected
      <3> QED BY <2>5, <3>1, <3>2, AskedNodes DEF ProofEvents
    <2>8. CASE d.event = "lease_renewed"
      <3>1. Fields(fence') = Fields(fence)
        BY <2>1, <2>8 DEF Changed, FreezeEvents
      <3>2. fence'.authority = fence.authority /\ fence'.phase = fence.phase /\ fence'.epoch = fence.epoch
        BY <2>1, <2>3, <3>1
      <3>3. Drained
        BY <1>6, <2>2, <3>2 DEF Confirmed
      <3>4. Admitted
        BY <1>0, <1>4, <1>6, <2>2, <3>2
      <3> QED BY <1>1, <1>2, <1>6, <3>3, <3>4 DEF Confirmed
    <2> QED BY <1>6, <2>4, <2>6, <2>7, <2>8, SwitchNames DEF FreezeEvents
  <1>7. ASSUME NEW a \in Actors, NEW x, Publishes(a, x) PROVE Confirmed'
    <2>1. /\ artifacts' = artifacts \union {x} /\ UNCHANGED <<fence, conf, observation, inflight>>
          /\ \/ x \in receipts
             \/ \E t \in artifacts \union {InitialTransition} :
                   /\ x.lease = t.lease /\ Fields(x) = Fields(t)
                   /\ x.event \in ProofEvents => Aggregate(Manifest(x.event), t)
      BY <1>7 DEF Publishes
    <2>2. ASSUME x.event \in ProofEvents, NEW n \in DOMAIN Manifest(x.event) PROVE x.epoch <= conf[n].epoch
      <3>1. x \notin receipts
        BY <2>2 DEF Typed, ProofEvents, LeaseEvents, FreezeEvents, ActivateEvents
      <3>2. PICK t \in artifacts \union {InitialTransition} :
               /\ x.lease = t.lease /\ Fields(x) = Fields(t) /\ Aggregate(Manifest(x.event), t)
        BY <2>1, <2>2, <3>1
      <3>3. /\ n \in Nodes
            /\ observation[n] = [authority |-> Manifest(x.event)[n], epoch |-> t.epoch, lease |-> t.lease]
        BY <2>2, <3>2, AskedNodes DEF Aggregate
      <3>4. t \in Payloads /\ Manifest(x.event)[n] \in Authorities
        BY <2>2, <3>2, AskedNodes, NoneApart DEF Typed
      <3>5. observation[n] \in Observations /\ observation[n].epoch = t.epoch
        BY <3>3, <3>4 DEF Observations, Payloads
      <3>6. observation[n].epoch <= conf[n].epoch
        BY <3>3, <3>5, NoneApart DEF Confirmed
      <3>7. x.epoch = t.epoch
        BY <3>2 DEF Fields
      <3> QED BY <3>5, <3>6, <3>7
    <2>3. Proofs
      BY <2>1, <2>2 DEF Confirmed
    <2> QED BY <2>1, <2>3 DEF Confirmed
  <1>8. ASSUME NEW a \in Actors, NEW entry, Journals(a, entry) PROVE Confirmed'
    BY <1>5, <1>8 DEF Journals
  <1>9. CASE Quiet \/ \E a \in Actors : Recall(a)
    BY <1>5, <1>9 DEF Quiet, Recall, Proceed, attemptVars, nodeVars
  <1>10. CASE LeaseLapses
    <2>1. fence' = None /\ UNCHANGED <<artifacts, conf, observation, inflight>>
      BY <1>10 DEF LeaseLapses, attemptVars, nodeVars
    <2> QED BY <2>1 DEF Confirmed
  <1>11. ASSUME NEW n \in Nodes, Redeploy(n) PROVE Confirmed'
    <2>1. /\ UNCHANGED <<fence, artifacts, observation>> /\ inflight' = [inflight EXCEPT ![n] = 0]
          /\ \E e \in Deployments[n] : conf' = [conf EXCEPT ![n] = e]
      BY <1>11 DEF Redeploy, attemptVars
    <2>2. Admitted
      <3> SUFFICES ASSUME NEW m \in Nodes, inflight'[m] # 0
                   PROVE  inflight'[m] = conf'[m].epoch /\ (fence' # None => conf'[m].epoch <= fence'.epoch)
        OBVIOUS
      <3>1. m # n /\ inflight'[m] = inflight[m] /\ conf'[m] = conf[m]
        BY <2>1 DEF Typed
      <3> QED BY <2>1, <3>1 DEF Confirmed
    <2>3. Proofs /\ Observed /\ Drained
      BY <1>1, <1>2, <1>3, <2>1
    <2> QED BY <2>2, <2>3 DEF Confirmed
  <1>12. ASSUME NEW n \in Nodes, Observe(n) PROVE Confirmed'
    <2>1. /\ UNCHANGED <<fence, artifacts, conf, inflight>>
          /\ observation' = [observation EXCEPT ![n] =
                [authority |-> conf[n].authority, epoch |-> conf[n].epoch, lease |-> fence.lease]]
      BY <1>12 DEF Observe, attemptVars
    <2>2. Observed
      <3> SUFFICES ASSUME NEW m \in Nodes, observation'[m] # None PROVE observation'[m].epoch <= conf'[m].epoch
        OBVIOUS
      <3>1. CASE m = n
        <4>1. observation'[m].epoch = conf[m].epoch
          BY <2>1, <3>1 DEF Typed
        <4> QED BY <1>0, <2>1, <4>1
      <3>2. CASE m # n
        <4>1. observation'[m] = observation[m]
          BY <2>1, <3>2 DEF Typed
        <4> QED BY <2>1, <4>1 DEF Confirmed
      <3> QED BY <3>1, <3>2
    <2>3. Proofs /\ Drained /\ Admitted
      BY <1>0, <1>1, <1>3, <1>4, <2>1
    <2> QED BY <2>2, <2>3 DEF Confirmed
  <1>13. ASSUME NEW n \in Nodes, Admit(n) \/ Complete(n) PROVE Confirmed'
    <2>1. /\ UNCHANGED <<fence, artifacts, conf, observation>>
          /\ \/ inflight' = [inflight EXCEPT ![n] = 0]
             \/ /\ fence # None /\ fence.epoch = conf[n].epoch
                /\ inflight' = [inflight EXCEPT ![n] = fence.epoch]
      BY <1>13 DEF Admit, Complete, attemptVars
    <2>2. Admitted
      <3> SUFFICES ASSUME NEW m \in Nodes, inflight'[m] # 0
                   PROVE  inflight'[m] = conf'[m].epoch /\ (fence' # None => conf'[m].epoch <= fence'.epoch)
        OBVIOUS
      <3>1. CASE m = n
        <4>1. inflight'[m] = fence.epoch /\ fence.epoch = conf[m].epoch
          BY <2>1, <3>1 DEF Typed
        <4> QED BY <1>0, <2>1, <4>1
      <3>2. CASE m # n
        <4>1. inflight'[m] = inflight[m]
          BY <2>1, <3>2 DEF Typed
        <4> QED BY <2>1, <4>1 DEF Confirmed
      <3> QED BY <3>1, <3>2
    <2>3. Proofs /\ Observed /\ Drained
      BY <1>1, <1>2, <1>3, <2>1
    <2> QED BY <2>2, <2>3 DEF Confirmed
  <1>14. ASSUME NEW a \in Actors, Transition(a) PROVE Confirmed'
    BY <1>5, <1>6, <1>14, TransitionMade
  <1> QED BY <1>7, <1>8, <1>9, <1>10, <1>11, <1>12, <1>13, <1>14, Kinds

LEMMA DrainedFollows == Typed /\ Confirmed => DrainedBeforeActivation
  <1> SUFFICES ASSUME Typed, Confirmed, fence # None, fence.phase = "active",
                      NEW n \in Asked(fence.authority), inflight[n] # 0
               PROVE  inflight[n] = fence.epoch
    BY DEF DrainedBeforeActivation, Asked
  <1>1. n \in Nodes /\ fence.epoch <= conf[n].epoch /\ inflight[n] = conf[n].epoch /\ conf[n].epoch <= fence.epoch
    BY AskedNodes DEF Confirmed
  <1>2. fence.epoch \in Nat
    BY NoneApart DEF Fences
  <1>3. conf[n].epoch \in 1..3
    BY <1>1 DEF Typed, Epochs
  <1> QED BY <1>1, <1>2, <1>3

-----------------------------------------------------------------------------
(* The moves of the fence are those of Authority *)

Grant == IF fence = None THEN None
         ELSE [epoch |-> fence.epoch, authority |-> fence.authority, frozen |-> Frozen(fence)]
NamedBy(r) == [epoch |-> r.epoch, authority |-> r.authority]
InForce == {NamedBy(r) : r \in {q \in Made : ~Frozen(q)}}
Granted == IF fence = None THEN {} ELSE InForce

LEMMA GrantBy ==
  /\ A!gvars = <<Grant, Granted>>
  /\ fence = None => Grant = None /\ Granted = {}
  /\ fence # None =>
        /\ Grant = [epoch |-> fence.epoch, authority |-> fence.authority, frozen |-> Frozen(fence)]
        /\ Granted = InForce
  BY DEF A!gvars, Grant, Granted, InForce, Made, NamedBy

LEMMA GrantMade ==
  ASSUME NEW f \in Fences, fence = f
  PROVE  Grant # None /\ Grant.frozen = Frozen(f) /\ Grant.epoch = f.epoch /\ Grant.authority = f.authority
  <1>1. f # None /\ f.epoch \in Nat \ {0} /\ f.authority \in Authorities /\ Frozen(f) \in BOOLEAN
    BY NoneAssumption DEF NoneAssumption, Fences, Frozen
  <1>2. Grant = [epoch |-> f.epoch, authority |-> f.authority, frozen |-> Frozen(f)]
    BY <1>1, GrantBy
  <1>3. Grant \in [epoch : Nat \ {0}, authority : Authorities, frozen : BOOLEAN]
    <2> DEFINE z == Frozen(f)
    <2>1. z \in BOOLEAN
      BY <1>1
    <2> HIDE DEF z
    <2> QED BY <1>1, <1>2, <2>1 DEF z
  <1> QED BY <1>2, <1>3, NoneAssumption DEF NoneAssumption

\* What a transition adds to the names in force.
LEMMA InForceGrows ==
  ASSUME Typed, NEW a \in Actors, NEW r, Replaces(a, r)
  PROVE  InForce' = InForce \union (IF Frozen(r) THEN {} ELSE {NamedBy(r)})
  <1>1. Made' = Made \union {r}
    BY DEF Replaces, Made, InitialTransition
  <1> QED BY <1>1 DEF InForce, NamedBy, Frozen

LEMMA MoveMade ==
  ASSUME Typed, Records, NEW a \in Actors, NEW r, Replaces(a, r), doing[a].event \in LeaseEvents
  PROVE  [A!ANext]_(A!gvars)
  <1> DEFINE e == doing[a].event
             named == [epoch |-> r.epoch, authority |-> r.authority]
  <1>1. /\ fence \in Fences /\ fence' \in Fences /\ Fields(fence') = Fields(r)
        /\ Fields(r) = Changed(Fields(fence), e)
        /\ e \in FreezeEvents => fence.phase = "active"
        /\ e \in ActivateEvents => fence.phase = "frozen"
    BY DEF Replaces
  <1>2. /\ fence # None /\ fence' # None
        /\ fence.phase = "frozen" <=> fence.phase # "active"
    BY <1>1, NoneApart DEF Fences, Phases
  <1>3. /\ r.authority = fence'.authority /\ r.phase = fence'.phase /\ r.epoch = fence'.epoch
    BY <1>1 DEF Fields
  <1>4. Granted = InForce /\ Granted' = InForce \union (IF Frozen(r) THEN {} ELSE {named})
    <2>1. Granted' = InForce'
      BY <1>2 DEF Granted
    <2> QED BY <1>2, <2>1, InForceGrows DEF Granted, NamedBy
  <1>5. Grant # None /\ Grant = [epoch |-> fence.epoch, authority |-> fence.authority, frozen |-> Frozen(fence)]
    BY <1>1, <1>2, GrantMade, GrantBy
  <1>6. Grant' = [epoch |-> fence'.epoch, authority |-> fence'.authority, frozen |-> Frozen(fence')]
    BY <1>2 DEF Grant, Frozen
  <1>7. CASE e \in FreezeEvents
    <2>1. Fields(r) = Fact(fence.authority, "frozen", fence.epoch + 1)
      BY <1>1, <1>7 DEF Changed, Fields, FreezeEvents
    <2>2. r.authority = fence.authority /\ r.phase = "frozen" /\ r.epoch = fence.epoch + 1
      BY <2>1 DEF Fields, Fact
    <2>3. ~Frozen(fence) /\ Frozen(fence') /\ Frozen(r)
      BY <1>1, <1>3, <1>7, <2>2 DEF Frozen
    <2>4. Grant' = [epoch |-> fence.epoch + 1, authority |-> fence.authority, frozen |-> TRUE]
      BY <1>3, <1>6, <2>2, <2>3
    <2>5. Grant # None /\ ~Grant.frozen /\ Grant.epoch = fence.epoch /\ Grant.authority = fence.authority
      BY <1>5, <2>3
    <2>6. Granted' = Granted
      BY <1>4, <2>3
    <2>7. A!Freeze
      BY <2>4, <2>5, <2>6 DEF A!Freeze, Grant, Granted, InForce, Made, NamedBy
    <2> QED BY <2>7 DEF A!ANext
  <1>8. CASE e \in ActivateEvents
    <2>1. Fields(r) = Fact(IF e = "target_activated" THEN Target ELSE Source, "active", fence.epoch)
      BY <1>1, <1>8 DEF Changed, Fields, FreezeEvents, ActivateEvents
    <2>2. r.authority \in Authorities /\ r.phase = "active" /\ r.epoch = fence.epoch
      BY <2>1 DEF Fields, Fact, Authorities
    <2>3. Frozen(fence) /\ ~Frozen(fence') /\ ~Frozen(r)
      BY <1>1, <1>3, <1>8, <2>2 DEF Frozen
    <2>4. Grant' = [epoch |-> fence.epoch, authority |-> r.authority, frozen |-> FALSE]
      <3>1. Frozen(fence') = FALSE
        BY <1>3, <2>2 DEF Frozen
      <3> QED BY <1>3, <1>6, <2>2, <3>1
    <2>5. Grant # None /\ Grant.frozen /\ Grant.epoch = fence.epoch
      BY <1>5, <2>3
    <2>6. Granted' = Granted \union {[epoch |-> fence.epoch, authority |-> r.authority]}
      BY <1>4, <2>2, <2>3
    <2>7. A!Activate(r.authority)
      BY <2>4, <2>5, <2>6 DEF A!Activate, A!Give, A!Named, Grant, Granted, InForce, Made, NamedBy
    <2> QED BY <2>2, <2>7 DEF A!ANext
  <1>9. CASE e \notin FreezeEvents \union ActivateEvents
    <2>1. Fields(r) = Fields(fence)
      BY <1>1, <1>9 DEF Changed, FreezeEvents, ActivateEvents
    <2>2. r.authority = fence.authority /\ r.phase = fence.phase /\ r.epoch = fence.epoch
      BY <2>1 DEF Fields
    <2>3. Frozen(fence') = Frozen(fence) /\ Frozen(r) = Frozen(fence)
      BY <1>3, <2>2 DEF Frozen
    <2>4. Grant' = Grant
      BY <1>3, <1>5, <1>6, <2>2, <2>3
    <2>5. ~Frozen(r) => named \in InForce
      <3>1. PICK q \in Made : Fields(q) = Fields(fence)
        BY <1>2 DEF Records, FenceMade
      <3>2. q.authority = r.authority /\ q.phase = r.phase /\ q.epoch = r.epoch
        BY <2>2, <3>1 DEF Fields
      <3> QED BY <3>2 DEF InForce, NamedBy, Frozen
    <2>6. Granted' = Granted
      BY <1>4, <2>5
    <2> QED BY <2>4, <2>6, GrantBy DEF A!gvars, Grant, Granted, InForce, Made, NamedBy
  <1> QED BY <1>7, <1>8, <1>9

LEMMA MovesStep == Typed /\ Tasked /\ Records /\ [Next]_vars => [A!ANext]_(A!gvars)
  <1> SUFFICES ASSUME Typed, Tasked, Records, [Next]_vars PROVE [A!ANext]_(A!gvars)
    OBVIOUS
  <1>1. ASSUME UNCHANGED <<fence, receipts>> PROVE UNCHANGED A!gvars
    BY <1>1 DEF A!gvars, InitialTransition, Frozen
  <1>2. ASSUME fence' = None PROVE A!Lapse
    BY <1>2 DEF A!Lapse
  <1>3. ASSUME NEW a \in Actors, NEW x, Publishes(a, x) PROVE UNCHANGED <<fence, receipts>>
    BY <1>3 DEF Publishes
  <1>4. ASSUME NEW a \in Actors, NEW entry, Journals(a, entry) PROVE UNCHANGED <<fence, receipts>>
    BY <1>4 DEF Journals
  <1>5. CASE UNCHANGED <<fence, receipts>>
    BY <1>1, <1>5
  <1>6. CASE fence' = None
    BY <1>2, <1>6 DEF A!ANext
  <1> QED BY <1>3, <1>4, <1>5, <1>6, MoveMade, Shares

LEMMA TaskedInit == Init => Tasked
  BY DEF Init, Tasked

\* The records are as they should be, and actors at work on what the journal has.
LEMMA RecordsAlways == Spec => [](Typed /\ Tasked /\ Records)
  BY TypedInit, TaskedInit, RecordsInit, TypedStep, TaskedStep, RecordsStep, PTL DEF Spec

\* Every transition that actors make, repeat or find made is a freeze in the next
\* epoch, an activation, a renewal that changes nothing, or a lapse.
THEOREM FenceMoves == Spec => AuthorityMoves
  <1>1. Typed /\ Tasked /\ Records /\ [Next]_vars => [A!ANext]_(A!gvars)
    BY MovesStep
  <1> QED BY <1>1, RecordsAlways, PTL DEF Spec, AuthorityMoves

\* No node that was asked to confirm a freeze still delivers what it was admitted
\* to before it when a plane is given the fence.
THEOREM DrainedFirst == Spec => []DrainedBeforeActivation
  <1>1. Spec => []Confirmed
    BY ConfirmedInit, ConfirmedStep, RecordsAlways, PTL DEF Spec
  <1> QED BY <1>1, RecordsAlways, DrainedFollows, PTL

-----------------------------------------------------------------------------
(* The journal is a run of the attempt *)

Level(k) == Stage[Projection(k).state]

\* Every event was accepted in the state before it and was derived no later than
\* it was written; the attempt never goes back a stage.
Journaled ==
    \A k \in 1..Len(journal) :
       /\ Accepts(Projection(k - 1), journal[k].event)
       /\ journal[k].after = After(Projection(k - 1), journal[k].event)
       /\ journal[k].from <= k
       /\ \E x \in artifacts : x.seq = journal[k].from /\ x.event = journal[k].event

Onward == \A l \in 0..Len(journal) : \A k \in 0..l : Level(k) <= Level(l)

Twice(k) == \E i \in 1..k : journal[i].event = "rollback_freeze_applied"
Says(k) == SaysOf(Projection(k), Twice(k))

\* What no switch changed is said still.
Unsaid == \A l \in 0..Len(journal) : \A k \in 0..l :
    (\A i \in (k + 1)..l : journal[i].event \notin Switches) => Says(k) = Says(l)

\* A place of the journal.
LEMMA Entered ==
  ASSUME Typed, Journaled, NEW k \in 1..Len(journal)
  PROVE  /\ k \in Nat /\ k - 1 \in 0..Len(journal) /\ k \in 0..Len(journal) /\ Len(journal) \in Nat
         /\ Projection(k - 1) \in Projections /\ Projection(k) \in Projections
         /\ journal[k].event \in Events /\ journal[k].from \in Nat \ {0} /\ journal[k].from <= k
         /\ Accepts(Projection(k - 1), journal[k].event)
         /\ Projection(k) = After(Projection(k - 1), journal[k].event)
         /\ \E x \in artifacts : x.seq = journal[k].from /\ x.event = journal[k].event
  <1>1. /\ k \in Nat /\ k - 1 \in 0..Len(journal) /\ k \in 0..Len(journal) /\ Len(journal) \in Nat /\ k # 0
        /\ journal[k] \in Entries
    BY JournalTyped
  <1>2. Projection(k - 1) \in Projections /\ Projection(k) \in Projections
    BY <1>1, JournalTyped
  <1>3. journal[k].event \in Events /\ journal[k].from \in Nat \ {0}
    BY <1>1 DEF Entries
  <1>4. Projection(k) = journal[k].after
    BY <1>1 DEF Projection
  <1> QED BY <1>1, <1>2, <1>3, <1>4 DEF Journaled

LEMMA LevelType == ASSUME Typed, NEW k \in 0..Len(journal) PROVE Level(k) \in 0..5
  BY JournalTyped, StageType DEF Level, Projections

\* A switch is a new stage, and so is made at one place at most.
LEMMA Switched ==
  ASSUME Typed, Journaled, NEW k \in 1..Len(journal)
  PROVE  /\ Level(k - 1) <= Level(k)
         /\ journal[k].event \in Switches =>
              Projection(k).state = journal[k].event /\ Level(k - 1) < Level(k)
  BY Entered, StageGrows DEF Level

LEMMA Once ==
  ASSUME Typed, Journaled, Onward, NEW k \in 1..Len(journal), NEW l \in 1..Len(journal),
         journal[k].event \in Switches, journal[l].event = journal[k].event
  PROVE  k = l
  <1>1. ASSUME NEW i \in 1..Len(journal), NEW j \in 1..Len(journal), i < j,
               journal[i].event \in Switches, journal[j].event = journal[i].event
        PROVE  FALSE
    <2>1. Level(j - 1) < Level(j) /\ Level(j) = Level(i)
      BY <1>1, Switched DEF Level
    <2>2. j - 1 \in 0..Len(journal) /\ i \in 0..(j - 1) /\ j \in 0..Len(journal)
      BY <1>1, Entered
    <2>3. Level(i) <= Level(j - 1)
      BY <2>2 DEF Onward
    <2>4. Level(i) \in 0..5 /\ Level(j - 1) \in 0..5 /\ Level(j) \in 0..5
      BY <2>1, <2>2, LevelType
    <2> QED BY <2>1, <2>3, <2>4
  <1>2. k \in Nat /\ l \in Nat
    BY Entered
  <1> QED BY <1>1, <1>2

\* The fence is frozen for the rollback late only.
LEMMA TwiceLate ==
  ASSUME Typed, Journaled, Onward, NEW k \in 0..Len(journal), Level(k) <= 3
  PROVE  ~Twice(k)
  <1> SUFFICES ASSUME NEW i \in 1..k, journal[i].event = "rollback_freeze_applied" PROVE FALSE
    BY DEF Twice
  <1>1. Len(journal) \in Nat
    BY JournalTyped
  <1>2. i \in 1..Len(journal) /\ i \in 0..k /\ i \in 0..Len(journal)
    BY <1>1
  <1>3. Projection(i).state = "rollback_freeze_applied"
    BY <1>2, Switched, SwitchNames
  <1>4. Level(i) = 4
    BY <1>3 DEF Level, Stage
  <1>5. Level(i) <= Level(k) /\ Level(k) \in 0..5
    BY <1>2, LevelType DEF Onward
  <1> QED BY <1>4, <1>5

\* What is said changes as the fence does.
LEMMA SaysNext ==
  ASSUME Typed, Journaled, Onward, NEW k \in 0..Len(journal), NEW e \in Events, Accepts(Projection(k), e)
  PROVE  /\ SaysOf(After(Projection(k), e), Twice(k) \/ e = "rollback_freeze_applied") = Changed(Says(k), e)
         /\ Changed(Says(k), e) \in Facts
  <1> DEFINE p == Projection(k)
             t == Twice(k)
  <1>1. p \in Projections /\ Accepts(p, e) /\ Says(k) = SaysOf(p, t)
    BY JournalTyped DEF Says
  <1>2. t \in BOOLEAN /\ (Stage[p.state] <= 3 => ~t)
    BY TwiceLate DEF Level, Twice
  <1>3. (t \/ e = "rollback_freeze_applied") \in BOOLEAN
    OBVIOUS
  <1> HIDE DEF p, t
  <1>4. SaysOf(After(p, e), t \/ e = "rollback_freeze_applied") = Changed(SaysOf(p, t), e)
    BY <1>1, <1>2, Says1
  <1>5. SaysOf(After(p, e), t \/ e = "rollback_freeze_applied") \in Facts
    BY <1>1, <1>3, Accepted, SaysOfType
  <1> QED BY <1>1, <1>4, <1>5 DEF p, t

LEMMA Follows ==
  ASSUME Typed, Journaled, Onward, NEW k \in 1..Len(journal)
  PROVE  Says(k) = Changed(Says(k - 1), journal[k].event)
  <1> DEFINE e == journal[k].event
  <1>1. /\ e \in Events /\ Accepts(Projection(k - 1), e) /\ Projection(k) = After(Projection(k - 1), e)
        /\ k \in Nat /\ k - 1 \in 0..Len(journal) /\ Len(journal) \in Nat
    BY Entered
  <1>2. Twice(k) <=> Twice(k - 1) \/ e = "rollback_freeze_applied"
    <2>1. \A i : i \in 1..k <=> i \in 1..(k - 1) \/ i = k
      BY <1>1
    <2> QED BY <2>1 DEF Twice
  <1>3. Twice(k) = (Twice(k - 1) \/ e = "rollback_freeze_applied")
    BY <1>2 DEF Twice
  <1>4. SaysOf(After(Projection(k - 1), e), Twice(k - 1) \/ e = "rollback_freeze_applied")
           = Changed(Says(k - 1), e)
    BY <1>1, SaysNext
  <1> QED BY <1>1, <1>3, <1>4 DEF Says

\* A place that is added, and what it says.
LEMMA Added ==
  ASSUME Typed, Journaled, Onward, NEW a \in Actors, NEW entry, Journals(a, entry)
  PROVE  \A n \in Nat : n = Len(journal) + 1 =>
           /\ Len(journal') = n
           /\ journal'[n] = entry /\ entry.event \in Events /\ entry.from = doing[a].seq
           /\ entry.event = doing[a].event
           /\ Accepts(Now, entry.event) /\ entry.after = After(Now, entry.event)
           /\ Projection(n)' = entry.after /\ Projection(n - 1)' = Now
           /\ \A k \in 0..Len(journal) : Projection(k)' = Projection(k) /\ Twice(k)' = Twice(k)
           /\ Level(n - 1)' <= Level(n)'
           /\ Says(n)' = Changed(Says(n - 1), entry.event)
  <1> SUFFICES ASSUME NEW n \in Nat, n = Len(journal) + 1
               PROVE  /\ Len(journal') = n
                      /\ journal'[n] = entry /\ entry.event \in Events /\ entry.from = doing[a].seq
                      /\ entry.event = doing[a].event
                      /\ Accepts(Now, entry.event) /\ entry.after = After(Now, entry.event)
                      /\ Projection(n)' = entry.after /\ Projection(n - 1)' = Now
                      /\ \A k \in 0..Len(journal) : Projection(k)' = Projection(k) /\ Twice(k)' = Twice(k)
                      /\ Level(n - 1)' <= Level(n)'
                      /\ Says(n)' = Changed(Says(n - 1), entry.event)
    OBVIOUS
  <1>1. /\ entry \in Entries /\ journal' = Append(journal, entry) /\ entry.event = doing[a].event
        /\ entry.from = doing[a].seq /\ entry.after = After(Now, entry.event) /\ Accepts(Now, entry.event)
    BY DEF Journals
  <1>2. /\ Len(journal') = n /\ Len(journal) \in Nat /\ journal'[n] = entry
        /\ \A k \in 1..Len(journal) : journal'[k] = journal[k]
        /\ \A k \in 0..Len(journal) : Projection(k)' = Projection(k)
        /\ Projection(n)' = entry.after
    BY <1>1, Grown
  <1>3. n - 1 = Len(journal) /\ n - 1 \in 0..Len(journal) /\ entry.event \in Events
    BY <1>1, <1>2 DEF Entries
  <1>4. Projection(n - 1)' = Now
    BY <1>2, <1>3 DEF Now
  <1>5. ASSUME NEW k \in 0..Len(journal) PROVE Twice(k)' = Twice(k)
    <2>1. \A i \in 1..k : journal'[i] = journal[i]
      BY <1>2
    <2> QED BY <2>1 DEF Twice
  <1>6. Stage[Now.state] <= Stage[After(Now, entry.event).state]
    BY <1>1, <1>3, JournalTyped, StageGrows
  <1>7. Level(n - 1)' <= Level(n)'
    BY <1>1, <1>2, <1>4, <1>6 DEF Level
  <1>8. Twice(n)' <=> Twice(n - 1) \/ entry.event = "rollback_freeze_applied"
    <2>1. \A i : i \in 1..n <=> i \in 1..(n - 1) \/ i = n
      OBVIOUS
    <2>2. \A i \in 1..(n - 1) : journal'[i] = journal[i]
      BY <1>2, <1>3
    <2> QED BY <1>2, <2>1, <2>2 DEF Twice
  <1>9. Says(n)' = Changed(Says(n - 1), entry.event)
    <2> DEFINE t == Twice(n - 1) \/ entry.event = "rollback_freeze_applied"
    <2>1. Twice(n)' = t
      BY <1>8 DEF Twice
    <2>2. Projection(n - 1) = Now
      BY <1>3 DEF Now
    <2>3. SaysOf(After(Projection(n - 1), entry.event), t) = Changed(Says(n - 1), entry.event)
      BY <1>1, <1>3, <2>2, SaysNext
    <2> HIDE DEF t
    <2>4. Says(n)' = SaysOf(Projection(n)', Twice(n)')
      BY DEF Says
    <2> QED BY <1>1, <1>2, <2>1, <2>2, <2>3, <2>4
  <1> QED BY <1>1, <1>2, <1>3, <1>4, <1>5, <1>7, <1>9

LEMMA JournaledStep == Typed /\ Tasked /\ Journaled /\ Onward /\ [Next]_vars => Journaled'
  <1> SUFFICES ASSUME Typed, Tasked, Journaled, Onward, [Next]_vars PROVE Journaled'
    OBVIOUS
  <1>1. ASSUME journal' = journal, artifacts \subseteq artifacts' PROVE Journaled'
    BY <1>1 DEF Journaled, Projection
  <1>2. ASSUME NEW a \in Actors, NEW entry, Journals(a, entry) PROVE Journaled'
    <2> SUFFICES ASSUME NEW k \in 1..Len(journal')
                 PROVE  /\ Accepts(Projection(k - 1)', journal'[k].event)
                        /\ journal'[k].after = After(Projection(k - 1)', journal'[k].event)
                        /\ journal'[k].from <= k
                        /\ \E x \in artifacts' : x.seq = journal'[k].from /\ x.event = journal'[k].event
      BY DEF Journaled, Projection
    <2>1. /\ entry \in Entries /\ journal' = Append(journal, entry) /\ artifacts' = artifacts
          /\ doing[a] \in Tasks /\ \E x \in artifacts : Is(x, doing[a])
      BY <1>2 DEF Journals
    <2>2. Len(journal) \in Nat /\ Len(journal') = Len(journal) + 1
      BY <2>1, Grown
    <2>3. CASE k \in 1..Len(journal)
      <3>1. journal'[k] = journal[k] /\ Projection(k - 1)' = Projection(k - 1)
        <4>1. k - 1 \in 0..Len(journal)
          BY <2>2, <2>3
        <4> QED BY <2>1, <2>3, <4>1, Grown
      <3> QED BY <2>1, <2>3, <3>1 DEF Journaled
    <2>4. CASE k = Len(journal) + 1
      <3>1. /\ k \in Nat /\ journal'[k] = entry /\ Projection(k - 1)' = Now /\ entry.from = doing[a].seq
            /\ entry.event = doing[a].event
            /\ Accepts(Now, entry.event) /\ entry.after = After(Now, entry.event)
        <4>1. k \in Nat
          BY <2>2, <2>4
        <4> QED BY <1>2, <2>4, <4>1, Added
      <3>2. doing[a].seq <= Len(journal) + 1
        BY <2>1, NoneApart DEF Tasked
      <3> QED BY <2>1, <2>4, <3>1, <3>2 DEF Is
    <2> QED BY <2>2, <2>3, <2>4
  <1>3. ASSUME NEW a \in Actors, NEW r, Replaces(a, r), UNCHANGED <<artifacts, journal>> PROVE Journaled'
    BY <1>1, <1>3
  <1>4. ASSUME NEW a \in Actors, NEW x, Publishes(a, x) PROVE Journaled'
    BY <1>1, <1>4 DEF Publishes
  <1> QED BY <1>1, <1>2, <1>3, <1>4, Shares

\* The journal changes only by an event that is appended.
LEMMA JournalSteps ==
  ASSUME Typed, Tasked, [Next]_vars
  PROVE  journal' = journal \/ \E a \in Actors : \E entry : Journals(a, entry)
  BY Shares DEF Publishes

LEMMA OnwardStep == Typed /\ Tasked /\ Journaled /\ Onward /\ [Next]_vars => Onward'
  <1> SUFFICES ASSUME Typed, Tasked, Journaled, Onward, [Next]_vars PROVE Onward'
    OBVIOUS
  <1>1. ASSUME journal' = journal PROVE Onward'
    BY <1>1 DEF Onward, Level, Projection
  <1>2. ASSUME NEW a \in Actors, NEW entry, Journals(a, entry) PROVE Onward'
    <2> SUFFICES ASSUME NEW l \in 0..Len(journal'), NEW k \in 0..l PROVE Level(k)' <= Level(l)'
      BY DEF Onward
    <2>1. entry \in Entries /\ journal' = Append(journal, entry)
      BY <1>2 DEF Journals
    <2>2. Len(journal) \in Nat /\ Len(journal') = Len(journal) + 1
      BY <2>1, Grown
    <2>3. \A j \in 0..Len(journal) : Level(j)' = Level(j) /\ Level(j) \in 0..5
      BY <2>1, Grown, LevelType DEF Level
    <2>4. CASE l \in 0..Len(journal)
      <3>1. k \in 0..Len(journal) /\ Level(k) <= Level(l)
        BY <2>2, <2>4 DEF Onward
      <3> QED BY <2>3, <2>4, <3>1
    <2>5. CASE l = Len(journal) + 1
      <3>1. l \in Nat /\ l - 1 = Len(journal) /\ Level(l - 1)' <= Level(l)'
        BY <1>2, <2>2, <2>5, Added
      <3>2. Level(l - 1)' = Level(l - 1) /\ Level(l - 1) \in 0..5 /\ l - 1 \in 0..Len(journal)
        BY <2>2, <2>3, <3>1
      <3>3. CASE k = l
        <4>1. Level(l)' \in 0..5
          <5>1. Projection(l)' = After(Now, entry.event) /\ Accepts(Now, entry.event) /\ entry.event \in Events
            BY <1>2, <2>5, <3>1, Added
          <5>2. Projection(l)'.state \in States
            BY <5>1, JournalTyped, Accepted DEF Projections
          <5> QED BY <5>2, StageType DEF Level
        <4> QED BY <3>3, <4>1
      <3>4. CASE k # l
        <4>1. k \in 0..(l - 1) /\ k \in 0..Len(journal)
          BY <2>2, <2>5, <3>1, <3>4
        <4>2. Level(k) <= Level(l - 1)
          BY <3>2, <4>1 DEF Onward
        <4>3. Level(k)' = Level(k) /\ Level(k) \in 0..5
          BY <2>3, <4>1
        <4>4. Level(l)' \in Nat
          <5>1. Projection(l)' = After(Now, entry.event) /\ Accepts(Now, entry.event) /\ entry.event \in Events
            BY <1>2, <2>5, <3>1, Added
          <5>2. Projection(l)'.state \in States
            BY <5>1, JournalTyped, Accepted DEF Projections
          <5>3. Level(l)' \in 0..5
            BY <5>2, StageType DEF Level
          <5> QED BY <5>3
        <4> QED BY <3>1, <3>2, <4>2, <4>3, <4>4
      <3> QED BY <3>3, <3>4
    <2> QED BY <2>2, <2>4, <2>5
  <1> QED BY <1>1, <1>2, JournalSteps

LEMMA UnsaidStep ==
  Typed /\ Tasked /\ Journaled /\ Onward /\ Unsaid /\ [Next]_vars => Unsaid'
  <1> SUFFICES ASSUME Typed, Tasked, Journaled, Onward, Unsaid, [Next]_vars PROVE Unsaid'
    OBVIOUS
  <1>1. ASSUME journal' = journal PROVE Unsaid'
    <2>1. \A k : Says(k)' = Says(k)
      <3>1. \A k : Projection(k)' = Projection(k) /\ Twice(k)' = Twice(k)
        BY <1>1 DEF Projection, Twice
      <3> QED BY <3>1 DEF Says
    <2> QED BY <1>1, <2>1 DEF Unsaid
  <1>2. ASSUME NEW a \in Actors, NEW entry, Journals(a, entry) PROVE Unsaid'
    <2> SUFFICES ASSUME NEW l \in 0..Len(journal'), NEW k \in 0..l,
                        \A i \in (k + 1)..l : journal'[i].event \notin Switches
                 PROVE  Says(k)' = Says(l)'
      BY DEF Unsaid
    <2>1. entry \in Entries /\ journal' = Append(journal, entry)
      BY <1>2 DEF Journals
    <2>2. /\ Len(journal) \in Nat /\ Len(journal') = Len(journal) + 1
          /\ \A j \in 1..Len(journal) : journal'[j] = journal[j]
      BY <2>1, Grown
    <2>3. \A j \in 0..Len(journal) : Says(j)' = Says(j)
      <3>1. \A j \in 0..Len(journal) : Projection(j)' = Projection(j) /\ Twice(j)' = Twice(j)
        <4>1. PICK n \in Nat : n = Len(journal) + 1
          BY <2>2
        <4> QED BY <1>2, <4>1, Added
      <3> QED BY <3>1 DEF Says
    <2>4. CASE l \in 0..Len(journal)
      <3>1. k \in 0..Len(journal) /\ \A i \in (k + 1)..l : journal[i].event \notin Switches
        BY <2>2, <2>4
      <3>2. Says(k) = Says(l)
        BY <2>4, <3>1 DEF Unsaid
      <3> QED BY <2>3, <2>4, <3>1, <3>2
    <2>5. CASE l = Len(journal) + 1 /\ k # l
      <3> DEFINE m == Len(journal)
      <3>1. k \in 0..m /\ m \in 0..m /\ \A i \in (k + 1)..m : journal[i].event \notin Switches
        BY <2>2, <2>5
      <3>2. Says(k) = Says(m)
        BY <3>1 DEF Unsaid
      <3>3. l \in Nat /\ l - 1 = m /\ journal'[l] = entry /\ Says(l)' = Changed(Says(l - 1), entry.event)
        <4>1. l \in Nat
          BY <2>2, <2>5
        <4> QED BY <1>2, <2>2, <2>5, <4>1, Added
      <3>4. Says(l)' = Changed(Says(m), journal'[l].event)
        BY <3>3
      <3>5. journal'[l].event \notin Switches
        BY <2>2, <2>5
      <3>6. Changed(Says(m), journal'[l].event) = Says(m)
        BY <3>5, SwitchNames DEF Changed, FreezeEvents
      <3> QED BY <2>3, <3>1, <3>2, <3>4, <3>6
    <2> QED BY <2>2, <2>4, <2>5
  <1> QED BY <1>1, <1>2, JournalSteps

-----------------------------------------------------------------------------
(* A record that was made counts the transitions before the place of its    *)
(* action, whether these were journaled by the actor that made them or not  *)

Levels ==
    \A r \in receipts :
       /\ r.seq <= Len(journal) + 1
       /\ Accepts(Projection(r.seq - 1), r.event)
       /\ r.lease = 2 + Count(r.seq - 1)
       /\ \A p \in Places(r.seq - 1) : \E x \in receipts : x.seq = p /\ x.event = journal[p].event
       /\ Fields(r) = Changed(Says(r.seq - 1), r.event)

\* A record, by the number of events before its action.
LEMMA Levelled ==
  ASSUME Typed, Levels, NEW r \in receipts
  PROVE  \E k \in 0..Len(journal) :
            /\ r.seq = k + 1 /\ k = r.seq - 1 /\ k \in Nat
            /\ r.event \in LeaseEvents /\ r.event \in Events
            /\ Accepts(Projection(k), r.event) /\ r.lease = 2 + Count(k) /\ Count(k) \in Nat
            /\ \A p \in Places(k) : \E x \in receipts : x.seq = p /\ x.event = journal[p].event
            /\ Fields(r) = Changed(Says(k), r.event)
  <1> DEFINE k == r.seq - 1
  <1>1. r.seq \in Nat \ {0} /\ Len(journal) \in Nat /\ r.event \in LeaseEvents
    <2>1. r \in Payloads /\ r.seq > 0 /\ r.event \in LeaseEvents
      BY DEF Typed
    <2> QED BY <2>1, JournalTyped DEF Payloads
  <1>2. k \in 0..Len(journal) /\ r.seq = k + 1 /\ k \in Nat
    <2>1. r.seq <= Len(journal) + 1
      BY DEF Levels
    <2> QED BY <1>1, <2>1
  <1>3. Count(k) \in Nat
    BY <1>2, PlacesFinite
  <1>4. /\ Accepts(Projection(k), r.event) /\ r.lease = 2 + Count(k)
        /\ \A p \in Places(k) : \E x \in receipts : x.seq = p /\ x.event = journal[p].event
        /\ Fields(r) = Changed(Says(k), r.event)
    BY DEF Levels
  <1> HIDE DEF k
  <1>5. k = r.seq - 1
    BY DEF k
  <1> QED BY <1>1, <1>2, <1>3, <1>4, <1>5, SwitchNames

\* The record a transition replaces is that of the newest of these places.
LEMMA NewLevel ==
  ASSUME Typed, Tasked, Records, Journaled, Onward, Unsaid, Levels,
         NEW a \in Actors, NEW r, Replaces(a, r), doing[a] \in Tasks, ExpectedLease(doing[a]) # None
  PROVE  \E k \in 0..Len(journal) :
            /\ r.seq = k + 1 /\ Accepts(Projection(k), r.event) /\ r.lease = 2 + Count(k)
            /\ \A p \in Places(k) : \E x \in receipts : x.seq = p /\ x.event = journal[p].event
            /\ Fields(r) = Changed(Says(k), r.event)
  <1> DEFINE d == doing[a]
             k == d.seq - 1
             t == LatestTransition(d)
  <1>1. /\ d # None /\ d.seq \in Nat \ {0} /\ d.seq <= Len(journal) + 1 /\ Len(journal) \in Nat
        /\ Accepts(Projection(k), d.event)
    BY NoneApart, JournalTyped DEF Tasked, Tasks
  <1>2. /\ k \in 0..Len(journal) /\ k \in Nat /\ d.seq = k + 1 /\ d.seq \in 1..(Len(journal) + 1)
        /\ Places(k) \in SUBSET Nat
    <2>1. k \in 0..Len(journal) /\ k \in Nat /\ d.seq = k + 1 /\ d.seq \in 1..(Len(journal) + 1)
      BY <1>1
    <2> HIDE DEF k
    <2>2. Places(k) \in SUBSET Nat
      BY <2>1, PlacesFinite
    <2> QED BY <2>1, <2>2
  <1>3. /\ Is(r, d) /\ r.lease = fence.lease + 1 /\ fence \in Fences
        /\ Fields(r) = Changed(Fields(fence), d.event) /\ fence.lease = ExpectedLease(d)
    BY DEF Replaces
  <1>4. r.seq = k + 1 /\ r.event = d.event
    BY <1>2, <1>3 DEF Is
  <1>5. t # None /\ fence.lease = t.lease
    BY <1>1, <1>3, Expected
  <1>6. PICK q \in Made : q.lease = fence.lease /\ Fields(q) = Fields(fence)
    BY <1>3, NoneApart DEF Records, FenceMade
  <1>7. ASSUME t \in Made, t.lease = 1 + Count(k), Fields(t) = Says(k),
               \A p \in Places(k) : \E x \in receipts : x.seq = p /\ x.event = journal[p].event
        PROVE  \E j \in 0..Len(journal) :
                  /\ r.seq = j + 1 /\ Accepts(Projection(j), r.event) /\ r.lease = 2 + Count(j)
                  /\ \A p \in Places(j) : \E x \in receipts : x.seq = p /\ x.event = journal[p].event
                  /\ Fields(r) = Changed(Says(j), r.event)
    <2>1. q = t
      BY <1>5, <1>6, <1>7 DEF Records, Distinct
    <2>2. Fields(r) = Changed(Says(k), r.event)
      BY <1>3, <1>4, <1>6, <1>7, <2>1
    <2>3. Count(k) \in Nat
      BY <1>2, PlacesFinite
    <2> HIDE DEF k, t
    <2>4. r.lease = 2 + Count(k)
      BY <1>3, <1>5, <1>7, <2>3
    <2> QED BY <1>1, <1>2, <1>4, <1>7, <2>2, <2>4
  <1>8. CASE Places(k) = {} /\ t = InitialTransition
    <2>1. Count(k) = 0
      BY <1>8, FS_EmptySet DEF Count
    <2>2. t \in Made /\ t.lease = 1 /\ Fields(t) = Fact(Source, "active", 1)
      BY <1>8 DEF Made, InitialTransition, Fields, Fact
    <2>3. Says(0) = Fact(Source, "active", 1)
      <3>1. Projection(0).state = "created"
        BY DEF Projection
      <3> QED BY <3>1 DEF Says, SaysOf
    <2>4. \A i \in 1..k : journal[i].event \notin Switches
      BY <1>8, SwitchNames DEF Places
    <2>5. Says(0) = Says(k)
      BY <1>2, <2>4 DEF Unsaid
    <2> HIDE DEF k, t
    <2> QED BY <1>7, <1>8, <2>1, <2>2, <2>3, <2>5
  <1>9. ASSUME NEW p \in Places(k), \A m \in Places(k) : m <= p,
               t \in artifacts, t.seq = p, t.event = journal[p].event
        PROVE  \E j \in 0..Len(journal) :
                  /\ r.seq = j + 1 /\ Accepts(Projection(j), r.event) /\ r.lease = 2 + Count(j)
                  /\ \A m \in Places(j) : \E x \in receipts : x.seq = m /\ x.event = journal[m].event
                  /\ Fields(r) = Changed(Says(j), r.event)
    <2>1. /\ p \in 1..k /\ p \in 1..Len(journal) /\ p \in Nat \ {0} /\ p \in 0..k
          /\ journal[p].event \in LeaseEvents
      BY <1>2 DEF Places
    <2>2. t \in receipts
      BY <1>9, <2>1 DEF Records, Published
    <2>3. PICK j \in 0..Len(journal) :
             /\ t.seq = j + 1 /\ t.lease = 2 + Count(j) /\ j \in Nat /\ Count(j) \in Nat
             /\ \A m \in Places(j) : \E x \in receipts : x.seq = m /\ x.event = journal[m].event
             /\ Fields(t) = Changed(Says(j), t.event)
      BY <2>2, Levelled
    <2>4. j = p - 1
      BY <1>9, <2>1, <2>3
    <2>5. Count(p) = Count(p - 1) + 1
      BY <2>1, CountStep
    <2>6. \A i \in (p + 1)..k : journal[i].event \notin LeaseEvents
      <3> SUFFICES ASSUME NEW i \in (p + 1)..k, journal[i].event \in LeaseEvents PROVE FALSE
        OBVIOUS
      <3>1. i \in 1..k /\ ~(i <= p)
        BY <1>2, <2>1
      <3> QED BY <1>9, <3>1 DEF Places
    <2>7. Count(p) = Count(k)
      <3>1. p <= k
        BY <1>2, <2>1
      <3> HIDE DEF k
      <3> QED BY <1>2, <2>1, <2>6, <3>1, CountSame
    <2>8. t.lease = 1 + Count(k)
      BY <2>3, <2>4, <2>5, <2>7
    <2>9. Fields(t) = Says(k)
      <3>1. Says(p) = Changed(Says(p - 1), journal[p].event)
        BY <2>1, Follows
      <3>2. Says(p) = Says(k)
        BY <1>2, <2>1, <2>6, SwitchNames DEF Unsaid
      <3> QED BY <1>9, <2>3, <2>4, <3>1, <3>2
    <2>10. \A m \in Places(k) : \E x \in receipts : x.seq = m /\ x.event = journal[m].event
      <3> SUFFICES ASSUME NEW m \in Places(k) PROVE \E x \in receipts : x.seq = m /\ x.event = journal[m].event
        OBVIOUS
      <3>1. CASE m = p
        BY <1>9, <2>2, <3>1
      <3>2. CASE m # p
        <4>1. m <= p /\ m \in Nat /\ m \in 1..k /\ journal[m].event \in LeaseEvents
          BY <1>2, <1>9 DEF Places
        <4>2. m \in 1..(p - 1)
          BY <2>1, <3>2, <4>1
        <4>3. m \in Places(j)
          BY <2>4, <4>1, <4>2 DEF Places
        <4> QED BY <2>3, <4>3
      <3> QED BY <3>1, <3>2
    <2>11. t \in Made
      BY <2>2 DEF Made
    <2> HIDE DEF t, k
    <2> QED BY <1>7, <2>8, <2>9, <2>10, <2>11
  <1>10. \/ Places(k) = {} /\ t = InitialTransition
         \/ \E p \in Places(k) :
               /\ \A m \in Places(k) : m <= p
               /\ t \in artifacts /\ t.seq = p /\ t.event = journal[p].event
    BY <1>2, <1>5, Latest
  <1> QED BY <1>8, <1>9, <1>10

LEMMA LevelsStep ==
  Typed /\ Tasked /\ Records /\ Journaled /\ Onward /\ Unsaid /\ Levels /\ [Next]_vars => Levels'
  <1> SUFFICES ASSUME Typed, Tasked, Records, Journaled, Onward, Unsaid, Levels, [Next]_vars PROVE Levels'
    OBVIOUS
  <1> DEFINE Made1(r, k) ==
               /\ r.seq = k + 1 /\ Accepts(Projection(k), r.event) /\ r.lease = 2 + Count(k)
               /\ \A p \in Places(k) : \E x \in receipts' : x.seq = p /\ x.event = journal[p].event
               /\ Fields(r) = Changed(Says(k), r.event)
  <1>0. Len(journal) \in Nat
    BY JournalTyped
  <1>1. ASSUME receipts \subseteq receipts', \A r \in receipts' : \E k \in 0..Len(journal) : Made1(r, k),
               Len(journal') \in Nat, Len(journal) <= Len(journal'),
               \A k \in 1..Len(journal) : journal'[k] = journal[k]
        PROVE  Levels'
    <2> SUFFICES ASSUME NEW r \in receipts', NEW k \in Nat, k = r.seq - 1
                 PROVE  /\ r.seq <= Len(journal') + 1
                        /\ Accepts(Projection(k)', r.event)
                        /\ r.lease = 2 + Count(k)'
                        /\ \A p \in Places(k)' : \E x \in receipts' : x.seq = p /\ x.event = journal'[p].event
                        /\ Fields(r)' = Changed(Says(k)', r.event)
      <3>1. \A r \in receipts' : r.seq - 1 \in Nat
        BY <1>1
      <3> QED BY <3>1 DEF Levels
    <2>1. PICK j \in 0..Len(journal) : Made1(r, j)
      BY <1>1
    <2>2. /\ k \in 0..Len(journal) /\ r.seq = k + 1 /\ Accepts(Projection(k), r.event)
          /\ r.lease = 2 + Count(k)
          /\ \A p \in Places(k) : \E x \in receipts' : x.seq = p /\ x.event = journal[p].event
          /\ Fields(r) = Changed(Says(k), r.event)
      <3>1. j = k
        BY <2>1
      <3> QED BY <2>1, <3>1
    <2>3. Projection(k)' = Projection(k)
      BY <1>0, <1>1, <2>2 DEF Projection
    <2>4. \A i \in 1..k : journal'[i] = journal[i]
      BY <1>0, <1>1, <2>2
    <2>5. Places(k)' = Places(k) /\ Twice(k)' = Twice(k)
      BY <2>4 DEF Places, Twice
    <2>6. Count(k)' = Count(k) /\ Says(k)' = Says(k)
      BY <2>3, <2>5 DEF Count, Says
    <2>7. Fields(r)' = Fields(r)
      BY DEF Fields
    <2>8. \A p \in Places(k) : journal'[p] = journal[p]
      BY <2>4 DEF Places
    <2>9. r.seq <= Len(journal') + 1
      BY <1>0, <1>1, <2>2
    <2>10. \A p \in Places(k)' : \E x \in receipts' : x.seq = p /\ x.event = journal'[p].event
      <3> HIDE DEF Made1
      <3> QED BY <2>2, <2>5, <2>8
    <2>11. Fields(r)' = Changed(Says(k)', r.event)
      BY <2>2, <2>6, <2>7
    <2> HIDE DEF Made1
    <2> QED BY <2>2, <2>3, <2>6, <2>9, <2>10, <2>11
  <1>2. ASSUME receipts' = receipts, NEW r \in receipts' PROVE \E k \in 0..Len(journal) : Made1(r, k)
    <2>1. r \in receipts
      BY <1>2
    <2> QED BY <1>2, <2>1, Levelled
  <1>3. CASE UNCHANGED <<receipts, journal>>
    <2>1. \A r \in receipts' : \E k \in 0..Len(journal) : Made1(r, k)
      BY <1>2, <1>3
    <2> HIDE DEF Made1
    <2> QED BY <1>0, <1>1, <1>3, <2>1
  <1>4. ASSUME NEW a \in Actors, NEW entry, Journals(a, entry) PROVE Levels'
    <2>1. receipts' = receipts /\ entry \in Entries /\ journal' = Append(journal, entry)
      BY <1>4 DEF Journals
    <2>2. /\ Len(journal') \in Nat /\ Len(journal) <= Len(journal')
          /\ \A k \in 1..Len(journal) : journal'[k] = journal[k]
      BY <2>1, Grown
    <2>3. \A r \in receipts' : \E k \in 0..Len(journal) : Made1(r, k)
      BY <1>2, <2>1
    <2> HIDE DEF Made1
    <2> QED BY <1>1, <2>1, <2>2, <2>3
  <1>5. ASSUME NEW a \in Actors, NEW r, Replaces(a, r), doing[a] \in Tasks, ExpectedLease(doing[a]) # None,
               journal' = journal
        PROVE  Levels'
    <2>1. receipts' = receipts \union {r}
      BY <1>5 DEF Replaces
    <2>2. ASSUME NEW q \in receipts' PROVE \E k \in 0..Len(journal) : Made1(q, k)
      <3>1. CASE q = r
        <4>1. PICK k \in 0..Len(journal) :
                 /\ r.seq = k + 1 /\ Accepts(Projection(k), r.event) /\ r.lease = 2 + Count(k)
                 /\ \A p \in Places(k) : \E x \in receipts : x.seq = p /\ x.event = journal[p].event
                 /\ Fields(r) = Changed(Says(k), r.event)
          BY <1>5, NewLevel
        <4>2. Made1(r, k)
          BY <2>1, <4>1
        <4> QED BY <3>1, <4>2
      <3>2. CASE q \in receipts
        <4>1. PICK k \in 0..Len(journal) :
                 /\ q.seq = k + 1 /\ Accepts(Projection(k), q.event) /\ q.lease = 2 + Count(k)
                 /\ \A p \in Places(k) : \E x \in receipts : x.seq = p /\ x.event = journal[p].event
                 /\ Fields(q) = Changed(Says(k), q.event)
          BY <3>2, Levelled
        <4>2. Made1(q, k)
          BY <2>1, <4>1
        <4> QED BY <4>2
      <3> QED BY <2>1, <3>1, <3>2
    <2> HIDE DEF Made1
    <2>3. \A q \in receipts' : \E k \in 0..Len(journal) : Made1(q, k)
      BY <2>2
    <2>4. receipts \subseteq receipts' /\ Len(journal') = Len(journal)
      BY <1>5, <2>1
    <2>5. Len(journal') \in Nat /\ Len(journal) <= Len(journal')
      BY <1>0, <2>4
    <2>6. \A k \in 1..Len(journal) : journal'[k] = journal[k]
      BY <1>5
    <2> QED BY <1>1, <2>3, <2>4, <2>5, <2>6
  <1>6. ASSUME NEW a \in Actors, NEW x, Publishes(a, x) PROVE UNCHANGED <<receipts, journal>>
    BY <1>6 DEF Publishes
  <1> QED BY <1>3, <1>4, <1>5, <1>6, Shares

\* All that holds in every state.
Attempt == Typed /\ Tasked /\ Records /\ Confirmed /\ Journaled /\ Onward /\ Unsaid /\ Levels

LEMMA AttemptInit == Init => Attempt
  <1> SUFFICES ASSUME Init PROVE Attempt
    OBVIOUS
  <1>1. Typed /\ Tasked /\ Records /\ Confirmed
    BY TypedInit, TaskedInit, RecordsInit, ConfirmedInit
  <1>2. journal = <<>> /\ receipts = {} /\ Len(journal) = 0
    BY DEF Init
  <1>3. Journaled /\ Levels
    BY <1>2 DEF Journaled, Levels
  <1>4. Onward
    <2>1. Level(0) \in 0..5
      BY <1>1, <1>2, LevelType
    <2> QED BY <1>2, <2>1 DEF Onward
  <1>5. Unsaid
    BY <1>2 DEF Unsaid
  <1> QED BY <1>1, <1>3, <1>4, <1>5 DEF Attempt

LEMMA AttemptStep == Attempt /\ [Next]_vars => Attempt'
  BY TypedStep, TaskedStep, RecordsStep, ConfirmedStep, JournaledStep, OnwardStep, UnsaidStep, LevelsStep
     DEF Attempt

LEMMA AttemptAlways == Spec => []Attempt
  BY AttemptInit, AttemptStep, PTL DEF Spec

-----------------------------------------------------------------------------
(* What follows from it *)

\* No record is of a fourth epoch: what an action makes of the fence is what the
\* journal will say of it.
LEMMA EpochsReached ==
  ASSUME Attempt
  PROVE  /\ \A q \in Made : q.epoch \in Epochs
         /\ \A x \in artifacts : x.epoch \in Epochs
         /\ fence # None => fence.epoch \in Epochs
  <1>1. ASSUME NEW q \in Made PROVE q.epoch \in Epochs
    <2>1. CASE q = InitialTransition
      BY <2>1 DEF InitialTransition, Epochs
    <2>2. CASE q \in receipts
      <3>1. PICK k \in 0..Len(journal) :
               q.event \in Events /\ Accepts(Projection(k), q.event) /\ Fields(q) = Changed(Says(k), q.event)
        BY <2>2, Levelled DEF Attempt
      <3>2. Fields(q) \in Facts
        BY <3>1, SaysNext DEF Attempt
      <3> QED BY <3>2 DEF Fields, Facts
    <2> QED BY <2>1, <2>2 DEF Made
  <1>2. ASSUME NEW x \in artifacts PROVE x.epoch \in Epochs
    <2>1. PICK q \in Made : Fields(x) = Fields(q)
      BY DEF Attempt, Records, Published
    <2> QED BY <1>1, <2>1 DEF Fields
  <1>3. ASSUME fence # None PROVE fence.epoch \in Epochs
    <2>1. PICK q \in Made : Fields(q) = Fields(fence)
      BY <1>3 DEF Attempt, Records, FenceMade
    <2> QED BY <1>1, <2>1 DEF Fields
  <1> QED BY <1>1, <1>2, <1>3

LEMMA TypeFollows == Attempt => TypeOK
  <1> SUFFICES ASSUME Attempt PROVE TypeOK
    OBVIOUS
  <1>1. Typed /\ Tasked /\ Confirmed /\ Journaled
    BY DEF Attempt
  <1>2. /\ fence \in Fences \union {None} /\ (fence # None => fence.epoch \in Epochs)
        /\ receipts \subseteq Payloads /\ artifacts \subseteq Payloads
        /\ \A r \in receipts : r.event \in LeaseEvents /\ r.epoch \in Epochs
        /\ \A x \in artifacts : x.event \in Events /\ x.epoch \in Epochs /\ x.seq > 0
    BY <1>1, EpochsReached DEF Typed, Made
  <1>3. ASSUME NEW k \in 1..Len(journal)
        PROVE  journal[k].event \in Events /\ journal[k].after.state \in States /\ journal[k].from \in 1..k
    <2>1. journal[k].event \in Events /\ journal[k].from \in Nat \ {0} /\ journal[k].from <= k /\ k \in Nat
      BY <1>1, Entered
    <2>2. journal[k].after \in Projections
      BY <1>1, JournalTyped DEF Entries
    <2> QED BY <2>1, <2>2 DEF Projections
  <1>4. /\ late \in BOOLEAN /\ owner \in Controllers \union {None}
        /\ loop \in [Controllers -> {"off", "on", "blocked"}]
        /\ doing \in [Actors -> Tasks \union {None}]
        /\ \A a \in Actors : doing[a] # None => doing[a].seq <= Len(journal) + 1
    BY <1>1 DEF Typed, Tasked
  <1>5. ASSUME NEW n \in Nodes
        PROVE  /\ conf[n] \in Deployments[n] /\ observation[n] \in Observations \union {None}
               /\ inflight[n] \in {0} \union Epochs
    <2>1. conf[n].epoch \in Epochs
      BY <1>1 DEF Typed
    <2> QED BY <1>1, <2>1 DEF Typed, Confirmed
  <1> QED BY <1>2, <1>3, <1>4, <1>5 DEF TypeOK

LEMMA AheadFollows == Attempt => AtMostOneAhead
  <1> SUFFICES ASSUME Attempt, fence # None PROVE fence.lease - 1 <= Count(Len(journal)) + 1
    BY DEF AtMostOneAhead, Count, Places
  <1>1. PICK q \in Made : q.lease = fence.lease
    BY DEF Attempt, Records, FenceMade
  <1>2. Len(journal) \in Nat /\ Count(Len(journal)) \in Nat
    BY JournalTyped, PlacesFinite DEF Attempt
  <1>3. CASE q = InitialTransition
    BY <1>1, <1>2, <1>3 DEF InitialTransition
  <1>4. CASE q \in receipts
    <2>1. PICK k \in 0..Len(journal) : q.lease = 2 + Count(k) /\ k \in Nat /\ Count(k) \in Nat
      BY <1>4, Levelled DEF Attempt
    <2>2. Count(k) <= Count(Len(journal))
      BY <1>2, <2>1, CountMonotone
    <2> QED BY <1>1, <1>2, <2>1, <2>2
  <1> QED BY <1>3, <1>4 DEF Made

-----------------------------------------------------------------------------
(* The journal is true of the fence.                                         *)
(*                                                                           *)
(* The record in force was made by an action derived at some place.  No      *)
(* switch of the fence was journaled after it but by that very action: its   *)
(* record would be of a lower lease, so that a transition counted before the *)
(* later action had the place of the earlier one, and a switch would have    *)
(* been journaled twice.                                                     *)

LEMMA SaysFence ==
  ASSUME Attempt, Fields(fence) = Says(Len(journal))
  PROVE  SaysOfFence
  <1> DEFINE twice == \E k \in 1..Len(journal) : journal[k].event = "rollback_freeze_applied"
             Reads(authority, phase, epoch) ==
                fence.authority = authority /\ fence.phase = phase /\ fence.epoch = epoch
  <1>1. Now \in Projections /\ Now.state \in States /\ twice \in BOOLEAN
    BY JournalTyped DEF Attempt, Projections
  <1>2. Fields(fence) = SaysOf(Now, twice)
    BY DEF Says, Now, Twice
  <1>3. ASSUME NEW a, NEW ph, NEW e, SaysOf(Now, twice) = Fact(a, ph, e) PROVE Reads(a, ph, e)
    <2>1. Fields(fence) = Fact(a, ph, e)
      BY <1>2, <1>3
    <2>2. fence.authority = a /\ fence.phase = ph /\ fence.epoch = e
      BY <2>1 DEF Fields, Fact
    <2> QED BY <2>2
  <1>4. SaysOfFence =
          CASE Now.state \in {"created", "source_checkpointed"} -> Reads(Source, "active", 1)
            [] Now.state \in {"freeze_applied", "frozen_confirmed"} -> Reads(Source, "frozen", 2)
            [] Now.state \in {"target_activated", "target_checkpointed", "completed"} ->
                  Reads(Target, "active", 2)
            [] Now.state = "rollback_requested" ->
                  IF Now.needsFreeze THEN Reads(Target, "active", 2) ELSE Reads(Source, "frozen", 2)
            [] Now.state \in {"rollback_freeze_applied", "rollback_frozen_confirmed"} ->
                  IF twice THEN Reads(Target, "frozen", 3) ELSE Reads(Source, "frozen", 2)
            [] OTHER -> Reads(Source, "active", IF twice THEN 3 ELSE 2)
    BY DEF SaysOfFence
  <1> HIDE DEF twice, Reads
  <1>5. CASE Now.state \in {"created", "source_checkpointed"}
    BY <1>1, <1>3, <1>4, <1>5, SaysOfBy
  <1>6. CASE Now.state \in {"freeze_applied", "frozen_confirmed"}
    BY <1>1, <1>3, <1>4, <1>6, SaysOfBy
  <1>7. CASE Now.state \in {"target_activated", "target_checkpointed", "completed"}
    BY <1>1, <1>3, <1>4, <1>7, SaysOfBy
  <1>8. CASE Now.state = "rollback_requested"
    BY <1>1, <1>3, <1>4, <1>8, SaysOfBy
  <1>9. CASE Now.state \in {"rollback_freeze_applied", "rollback_frozen_confirmed"}
    BY <1>1, <1>3, <1>4, <1>9, SaysOfBy
  <1>10. CASE Now.state \in {"source_reactivated", "rollback_checkpointed", "rolled_back"}
    BY <1>1, <1>3, <1>4, <1>10, SaysOfBy
  <1> QED BY <1>1, <1>5, <1>6, <1>7, <1>8, <1>9, <1>10, StateNames

\* The receipt of a transition in the journal.
LEMMA Received ==
  ASSUME Attempt, NEW k \in 1..Len(journal), journal[k].event \in LeaseEvents
  PROVE  /\ journal[k].from \in 1..k
         /\ \E x \in receipts : x.seq = journal[k].from /\ x.event = journal[k].event
  <1>1. /\ journal[k].from \in Nat \ {0} /\ journal[k].from <= k /\ k \in Nat
        /\ \E x \in artifacts : x.seq = journal[k].from /\ x.event = journal[k].event
    BY Entered DEF Attempt
  <1> QED BY <1>1 DEF Attempt, Records, Published

LEMMA NewestJournaled ==
  ASSUME Attempt
  PROVE  \/ Places(Len(journal)) = {} /\ JournaledLease = 1
         \/ \E k \in 1..Len(journal) : \E x \in receipts :
               /\ x.seq = journal[k].from /\ x.event = journal[k].event /\ x.lease = JournaledLease
               /\ journal[k].from \in 1..k
  <1> DEFINE S == {k \in 1..Len(journal) : journal[k].event \in LeaseEvents}
             top == CHOOSE k \in S : \A j \in S : j <= k
             d == [seq |-> journal[top].from, event |-> journal[top].event]
  <1>1. S = Places(Len(journal)) /\ S \in SUBSET Nat /\ IsFiniteSet(S)
    BY PlacesFinite, JournalTyped DEF Attempt, Places
  <1>2. JournaledLease = IF S = {} THEN 1 ELSE Find(receipts, d).lease
    BY DEF JournaledLease
  <1>3. CASE S = {}
    BY <1>1, <1>2, <1>3
  <1>4. CASE S # {}
    <2>1. \E k \in S : \A j \in S : j <= k
      <3> HIDE DEF S
      <3> QED BY <1>1, <1>4, Greatest
    <2>2. top \in S
      <3> HIDE DEF S
      <3> QED BY <2>1
    <2>3. top \in 1..Len(journal) /\ journal[top].event \in LeaseEvents
      BY <2>2
    <2> HIDE DEF top
    <2>4. /\ journal[top].from \in 1..top
          /\ \E x \in receipts : x.seq = journal[top].from /\ x.event = journal[top].event
      BY <2>3, Received
    <2>5. Find(receipts, d) \in receipts /\ Is(Find(receipts, d), d)
      BY <2>4, Found, NoneApart DEF Attempt, Is
    <2>6. JournaledLease = Find(receipts, d).lease
      BY <1>2, <1>4
    <2> QED BY <2>3, <2>4, <2>5, <2>6 DEF Is
  <1> QED BY <1>3, <1>4

\* A switch that was journaled after the action of the newest record was made by
\* that action.
LEMMA SameSwitch ==
  ASSUME Attempt, NEW r \in receipts, \A q \in receipts : q.lease <= r.lease,
         NEW i \in 1..Len(journal), r.seq <= i, journal[i].event \in Switches
  PROVE  journal[i].event = r.event
  <1>1. PICK x \in receipts : x.seq = journal[i].from /\ x.event = journal[i].event
    BY SwitchNames, Received
  <1>2. PICK k \in 0..Len(journal) :
           /\ r.seq = k + 1 /\ k \in Nat /\ r.lease = 2 + Count(k) /\ Count(k) \in Nat
           /\ \A p \in Places(k) : \E y \in receipts : y.seq = p /\ y.event = journal[p].event
    BY Levelled DEF Attempt
  <1>3. PICK f \in 0..Len(journal) :
           x.seq = f + 1 /\ f \in Nat /\ x.lease = 2 + Count(f) /\ Count(f) \in Nat
    BY Levelled DEF Attempt
  <1>4. i \in Nat /\ k < i
    BY <1>2
  <1>5. CASE x.lease = r.lease
    BY <1>1, <1>5 DEF Attempt, Records, Distinct, Made
  <1>6. CASE x.lease < r.lease
    <2> DEFINE S == {p \in Places(k) : f < p}
    <2>0. Count(f) < Count(k)
      BY <1>2, <1>3, <1>6
    <2>1. Places(k) \in SUBSET Nat /\ IsFiniteSet(Places(k))
      BY <1>2, PlacesFinite
    <2>2. S \in SUBSET Nat /\ IsFiniteSet(S)
      <3>1. S \in SUBSET Places(k)
        OBVIOUS
      <3> HIDE DEF S
      <3> QED BY <2>1, <3>1, FS_Subset
    <2>3. S # {}
      <3>1. SUFFICES ASSUME S = {} PROVE FALSE
        OBVIOUS
      <3>2. f < k
        <4>1. CASE k <= f
          <5>1. Count(k) <= Count(f)
            BY <1>2, <1>3, <4>1, CountMonotone
          <5> QED BY <1>2, <1>3, <2>0, <5>1
        <4> QED BY <1>2, <1>3, <4>1
      <3>3. \A j \in (f + 1)..k : journal[j].event \notin LeaseEvents
        <4> SUFFICES ASSUME NEW j \in (f + 1)..k, journal[j].event \in LeaseEvents PROVE FALSE
          OBVIOUS
        <4>1. j \in 1..k /\ f < j
          BY <1>2, <1>3
        <4> QED BY <3>1, <4>1 DEF Places
      <3>4. Count(f) = Count(k)
        BY <1>2, <1>3, <3>2, <3>3, CountSame
      <3> QED BY <1>2, <1>3, <2>0, <3>4
    <2>4. PICK p \in S : \A q \in S : p <= q
      <3> HIDE DEF S
      <3> QED BY <2>2, <2>3, Least
    <2>5. p \in Places(k) /\ f < p /\ p \in 1..k /\ p \in Nat \ {0} /\ p - 1 \in Nat /\ f <= p - 1
      BY <1>2, <1>3 DEF Places
    <2>6. \A j \in (f + 1)..(p - 1) : journal[j].event \notin LeaseEvents
      <3> SUFFICES ASSUME NEW j \in (f + 1)..(p - 1), journal[j].event \in LeaseEvents PROVE FALSE
        OBVIOUS
      <3>1. j \in 1..k /\ f < j /\ ~(p <= j)
        BY <1>2, <1>3, <2>5
      <3>2. j \in S
        BY <3>1 DEF Places
      <3> QED BY <2>4, <3>1, <3>2
    <2>7. Count(f) = Count(p - 1)
      BY <1>3, <2>5, <2>6, CountSame
    <2>8. PICK y \in receipts : y.seq = p /\ y.event = journal[p].event
      BY <1>2, <2>5
    <2>9. PICK g \in 0..Len(journal) : y.seq = g + 1 /\ y.lease = 2 + Count(g) /\ g \in Nat
      BY Levelled DEF Attempt
    <2>10. g = p - 1
      BY <2>5, <2>8, <2>9
    <2>11. y = x
      BY <1>3, <2>7, <2>9, <2>10 DEF Attempt, Records, Distinct, Made
    <2>12. journal[p].event = journal[i].event /\ p \in 1..Len(journal)
      BY <1>1, <1>2, <2>5, <2>8, <2>11
    <2>13. p = i
      BY <2>12, Once DEF Attempt
    <2> QED BY <1>2, <1>4, <2>5, <2>13
  <1>7. x.lease <= r.lease /\ x.lease \in Nat /\ r.lease \in Nat
    BY <1>2, <1>3
  <1> QED BY <1>5, <1>6, <1>7

\* An attempt that has ended says what no switch that is still accepted would
\* find.
LEMMA EndedSays ==
  ASSUME Attempt, Terminal, NEW k \in 0..Len(journal), NEW e \in Switches, Accepts(Projection(k), e)
  PROVE  Says(k) # Says(Len(journal))
  <1> DEFINE n == Len(journal)
             p == Projection(k)
             t == Twice(k)
             u == Twice(n)
  <1>1. /\ p \in Projections /\ Now \in Projections /\ n \in 0..n /\ n \in Nat /\ e \in Events
        /\ t \in BOOLEAN /\ u \in BOOLEAN
        /\ Says(k) = SaysOf(p, t) /\ Says(n) = SaysOf(Now, u)
    BY JournalTyped, SwitchNames DEF Attempt, Says, Now, Twice
  <1>2. e # "lease_renewed" /\ <<p.state, e>> \in Moves
        /\ (p.state = "rollback_requested" => (p.needsFreeze <=> e = "rollback_freeze_applied"))
    <2>1. e # "lease_renewed" /\ e \in Events /\ p \in Projections
      BY <1>1, SwitchNames
    <2> QED BY <2>1, EventMoves
  <1>3. Level(k) <= Level(n) /\ Level(k) = Stage[p.state] /\ Level(n) = Stage[Now.state]
    BY <1>1 DEF Attempt, Onward, Level, Now
  <1>4. Now.state \in {"completed", "rolled_back"}
    BY DEF Terminal
  <1>5. \/ p.state = "source_checkpointed" \/ p.state = "frozen_confirmed"
        \/ p.state = "rollback_requested" /\ p.needsFreeze
        \/ p.state = "rollback_frozen_confirmed"
    BY <1>2, SwitchNames DEF Moves
  <1> HIDE DEF p, t, u, n
  <1>6. /\ Now.state = "completed" => Says(n) = Fact(Target, "active", 2)
        /\ Now.state = "rolled_back" => Says(n) \in {Fact(Source, "active", 3), Fact(Source, "active", 2)}
    BY <1>1, SaysOfBy
  <1>7. /\ p.state = "source_checkpointed" => Says(k) = Fact(Source, "active", 1)
        /\ p.state = "frozen_confirmed" => Says(k) = Fact(Source, "frozen", 2)
        /\ p.state = "rollback_requested" /\ p.needsFreeze => Says(k) = Fact(Target, "active", 2)
        /\ p.state = "rollback_frozen_confirmed" =>
              Says(k) \in {Fact(Target, "frozen", 3), Fact(Source, "frozen", 2)}
    BY <1>1, SaysOfBy
  <1>8. ~(p.state = "rollback_requested" /\ Now.state = "completed")
    BY <1>3 DEF Stage
  <1>9. \A a, b, ph, qh, x, y : Fact(a, ph, x) = Fact(b, qh, y) => a = b /\ ph = qh /\ x = y
    BY DEF Fact
  <1>10. Says(k) # Says(n)
    BY <1>4, <1>5, <1>6, <1>7, <1>8, <1>9
  <1> QED BY <1>10 DEF n

LEMMA TrueFollows == Attempt => JournalIsTrue
  <1> SUFFICES ASSUME Attempt, fence # None, fence.lease = JournaledLease \/ Terminal
               PROVE  Fields(fence) = Says(Len(journal))
    BY SaysFence DEF JournalIsTrue
  <1> DEFINE n == Len(journal)
  <1>0. n \in Nat /\ n \in 0..n
    BY JournalTyped DEF Attempt
  <1>1. PICK q \in Made : q.lease = fence.lease /\ Fields(q) = Fields(fence)
    BY DEF Attempt, Records, FenceMade
  <1>2. \A y \in Made : y.lease <= q.lease
    BY <1>1 DEF Attempt, Records, FenceMade
  <1>3. CASE q = InitialTransition
    <2>1. receipts = {}
      <3> SUFFICES ASSUME NEW r \in receipts PROVE FALSE
        OBVIOUS
      <3>1. PICK k : r.lease = 2 + Count(k) /\ Count(k) \in Nat
        BY Levelled DEF Attempt
      <3>2. r.lease <= 1
        BY <1>2, <1>3 DEF Made, InitialTransition
      <3> QED BY <3>1, <3>2
    <2>2. \A i \in 1..n : journal[i].event \notin Switches
      BY <2>1, Received, SwitchNames
    <2>3. Says(0) = Says(n)
      BY <1>0, <2>2 DEF Attempt, Unsaid
    <2>4. Says(0) = Fact(Source, "active", 1)
      <3>1. Projection(0).state = "created"
        BY DEF Projection
      <3> QED BY <3>1 DEF Says, SaysOf
    <2> QED BY <1>1, <1>3, <2>3, <2>4 DEF InitialTransition, Fields, Fact
  <1>4. CASE q \in receipts
    <2> DEFINE e == q.event
    <2>1. PICK k \in 0..n :
             /\ q.seq = k + 1 /\ k \in Nat /\ e \in Events /\ Accepts(Projection(k), e)
             /\ q.lease = 2 + Count(k) /\ Count(k) \in Nat /\ Fields(q) = Changed(Says(k), e)
      BY <1>4, Levelled DEF Attempt
    <2>2. ASSUME NEW i \in (k + 1)..n, journal[i].event \in Switches
          PROVE  Fields(fence) = Says(n)
      <3>1. /\ i \in 1..n /\ i \in Nat \ {0} /\ i - 1 \in 0..n /\ k \in 0..(i - 1) /\ q.seq <= i
            /\ i \in 0..n
        BY <1>0, <2>1
      <3>2. \A y \in receipts : y.lease <= q.lease
        BY <1>2 DEF Made
      <3>3. \A j \in 1..n : q.seq <= j /\ journal[j].event \in Switches => journal[j].event = e
        BY <1>4, <3>2, SameSwitch
      <3>4. journal[i].event = e
        BY <2>2, <3>1, <3>3
      <3>5. ASSUME NEW j \in (k + 1)..n, journal[j].event \in Switches PROVE j = i
        <4>1. j \in 1..n /\ q.seq <= j
          BY <1>0, <2>1
        <4>2. journal[j].event = journal[i].event
          BY <3>3, <3>4, <3>5, <4>1
        <4> QED BY <2>2, <3>1, <3>5, <4>1, <4>2, Once DEF Attempt
      <3>6. \A j \in (k + 1)..(i - 1) : journal[j].event \notin Switches
        BY <1>0, <2>1, <3>1, <3>5
      <3>7. \A j \in (i + 1)..n : journal[j].event \notin Switches
        BY <1>0, <2>1, <3>1, <3>5
      <3>8. Says(k) = Says(i - 1)
        BY <3>1, <3>6 DEF Attempt, Unsaid
      <3>9. Says(i) = Says(n)
        BY <1>0, <3>1, <3>7 DEF Attempt, Unsaid
      <3>10. Says(i) = Changed(Says(i - 1), journal[i].event)
        BY <3>1, Follows DEF Attempt
      <3> QED BY <1>1, <2>1, <3>4, <3>8, <3>9, <3>10
    <2>3. CASE \A i \in (k + 1)..n : journal[i].event \notin Switches
      <3>1. Says(k) = Says(n)
        BY <1>0, <2>1, <2>3 DEF Attempt, Unsaid
      <3>2. CASE e \notin Switches
        <4>1. Changed(Says(k), e) = Says(k)
          BY <3>2, SwitchNames DEF Changed, FreezeEvents
        <4> QED BY <1>1, <2>1, <3>1, <4>1
      <3>3. CASE e \in Switches
        <4>1. ~Terminal
          BY <2>1, <3>1, <3>3, EndedSays
        <4>2. q.lease = JournaledLease
          BY <1>1, <4>1
        <4>3. q.lease # 1
          BY <2>1
        <4>4. PICK i \in 1..n : \E x \in receipts :
                 /\ x.seq = journal[i].from /\ x.event = journal[i].event /\ x.lease = JournaledLease
                 /\ journal[i].from \in 1..i
          BY <4>2, <4>3, NewestJournaled
        <4>5. q.seq = journal[i].from /\ e = journal[i].event /\ journal[i].from \in 1..i
          BY <1>4, <4>2, <4>4 DEF Attempt, Records, Distinct, Made
        <4>6. i \in (k + 1)..n
          BY <1>0, <2>1, <4>5
        <4> QED BY <2>3, <3>3, <4>5, <4>6
      <3> QED BY <3>2, <3>3
    <2> QED BY <2>2, <2>3
  <1> QED BY <1>3, <1>4 DEF Made

-----------------------------------------------------------------------------
(* The theorems *)

\* Whatever actors do, repeat and lose, no record is of a fourth epoch, and every
\* action was derived from a place the journal has.
THEOREM TypeCorrect == Spec => []TypeOK
  BY AttemptAlways, TypeFollows, PTL

\* However many actors advance, renew and roll back at once, and whatever crashes
\* before it is journaled, one transition at most is not counted by the journal.
THEOREM OneAhead == Spec => []AtMostOneAhead
  BY AttemptAlways, AheadFollows, PTL

\* The fence is as the journal says when the journal has its transition, and
\* when the attempt has ended.
THEOREM TrueJournal == Spec => []JournalIsTrue
  BY AttemptAlways, TrueFollows, PTL

=============================================================================
