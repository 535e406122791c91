------------------------------ MODULE Cutover ------------------------------
(***************************************************************************)
(* One attempt to hand the delivery of messages from one data plane to     *)
(* another, or to take it back: the journal of the attempt, the executor   *)
(* that changes the fence and collects evidence, the controllers and the   *)
(* commands of operators that drive it, and the data plane processes whose *)
(* observations are the evidence.                                          *)
(*                                                                         *)
(* A fence record is named by its SHA-256; here every record is numbered,  *)
(* the source's record of before the attempt being 1.  How the fence is    *)
(* compared and replaced is the subject of DeliveryFence; here Apply is    *)
(* one step.  Epochs are counted from the epoch of before the attempt.     *)
(*                                                                         *)
(* The time of a receipt, a proof or a decision is compared with that of   *)
(* the last event; the machines' clocks are taken to agree.  It is counted *)
(* in what was written before, so that what nothing was written between    *)
(* bears the same time.                                                    *)
(***************************************************************************)
EXTENDS Naturals, Sequences, FiniteSets

CONSTANTS
    Controllers,     \* processes of "run", which own the attempt one at a time
    Operators,       \* one-shot commands, which own nothing
    Nodes,           \* data plane processes, by their stable observer id
    Plane,           \* the authority under which a node has an effect on clients
    Deployments,     \* the configurations a node can be started with
    Deployed,        \* and the one it has at the beginning
    SourceNodes, FrozenNodes, TargetNodes,   \* node manifests: node -> its authority
    Source, Target,
    MaxRenewals,     \* bound on the renewals begun
    MaxCommands,     \* bound on the commands of operators
    None

Authorities == {Source, Target}
Epochs == 1..3
Actors == Controllers \union Operators

ASSUME CutoverAssumption ==
    /\ Controllers \intersect Operators = {} /\ Source # Target
    /\ Plane \in [Nodes -> Authorities]
    /\ Deployments \in [Nodes -> SUBSET [authority : Authorities, epoch : Epochs]]
    /\ Deployed \in [Nodes -> [authority : Authorities, epoch : Epochs]]
    /\ \A n \in Nodes : Deployed[n] \in Deployments[n]
    /\ \A manifest \in {SourceNodes, FrozenNodes, TargetNodes} :
          /\ DOMAIN manifest \subseteq Nodes
          /\ \A n \in DOMAIN manifest : manifest[n] \in Authorities
    /\ MaxRenewals \in Nat /\ MaxCommands \in Nat

VARIABLES
    fence,        \* the record under the fence key, or None
    receipts,     \* transitions that were made, with the action that made them
    artifacts,    \* what was published for an action
    journal,      \* the events of the attempt
    late,         \* the first freeze has lasted longer than the attempt allows
    owner,        \* the controller under the ownership key, or None
    loop,         \* where a controller is in its loop
    doing,        \* the action an actor executes
    commands,     \* how many commands were given
    conf,         \* the configuration of a node's running process
    observation,  \* the last observation a node published
    inflight      \* the epoch a delivery was admitted in that is not over, or 0

attemptVars == <<receipts, artifacts, journal>>
nodeVars == <<conf, observation, inflight>>
vars == <<fence, attemptVars, late, owner, loop, doing, commands, nodeVars>>

-----------------------------------------------------------------------------
(* The journal.  The state after an event other than a renewal bears the    *)
(* name of the event.                                                       *)

Order == [
    created |-> {"source_checkpointed"},
    source_checkpointed |-> {"freeze_applied"},
    freeze_applied |-> {"frozen_confirmed", "rollback_requested"},
    frozen_confirmed |-> {"target_activated", "rollback_requested"},
    target_activated |-> {"target_checkpointed", "rollback_requested"},
    target_checkpointed |-> {"completed", "rollback_requested"},
    completed |-> {"rollback_requested"},
    rollback_requested |-> {"rollback_freeze_applied", "rollback_frozen_confirmed"},
    rollback_freeze_applied |-> {"rollback_frozen_confirmed"},
    rollback_frozen_confirmed |-> {"source_reactivated"},
    source_reactivated |-> {"rollback_checkpointed"},
    rollback_checkpointed |-> {"rolled_back"},
    rolled_back |-> {}]

\* A renewal sends the evidence that is bound to the old lease back to be
\* collected again.
Renewed == [
    created |-> "created", source_checkpointed |-> "created",
    freeze_applied |-> "freeze_applied", frozen_confirmed |-> "freeze_applied",
    target_activated |-> "target_activated", target_checkpointed |-> "target_activated",
    rollback_requested |-> "rollback_requested",
    rollback_freeze_applied |-> "rollback_freeze_applied",
    rollback_frozen_confirmed |-> "rollback_freeze_applied",
    source_reactivated |-> "source_reactivated"]

States == DOMAIN Order
Events == (States \ {"created"}) \union {"lease_renewed"}

Phases == {"active", "frozen"}
Fences == [lease : Nat \ {0}, authority : Authorities, phase : Phases, epoch : Nat \ {0}]
Payloads == [seq : Nat, event : Events \union {"created"}, at : Nat, lease : Nat \ {0},
             authority : Authorities, phase : Phases, epoch : Nat \ {0}]
Tasks == [seq : Nat \ {0}, event : Events, phase : {"execute", "publish", "append"}]
Observations == [authority : Authorities, epoch : Nat, lease : Nat]

ASSUME NoneAssumption ==
    /\ None \notin Fences \union Payloads \union Tasks \union Observations
    /\ None \notin [epoch : Nat \ {0}, authority : Authorities, frozen : BOOLEAN]

Accepts(p, e) ==
    IF e = "lease_renewed" THEN p.state \in DOMAIN Renewed
    ELSE /\ e \in Order[p.state]
         /\ p.state = "rollback_requested" => (p.needsFreeze <=> e = "rollback_freeze_applied")

\* Variant: it is forgotten that the fence has to be frozen again.
AfterWithoutFreeze(p, e) ==
    IF e = "lease_renewed" THEN [p EXCEPT !.state = Renewed[@]]
    ELSE [state |-> e, needsFreeze |-> FALSE]

After(p, e) ==
    IF e = "lease_renewed" THEN [p EXCEPT !.state = Renewed[@]]
    ELSE [state |-> e,
          needsFreeze |->
              \/ /\ e = "rollback_requested"
                 /\ p.state \in {"target_activated", "target_checkpointed", "completed"}
              \/ e = "rollback_freeze_applied"
              \/ e = "rollback_frozen_confirmed" /\ p.state = "rollback_freeze_applied"]

\* The projection of the first k events.
Projection(k) ==
    IF k = 0 THEN [state |-> "created", needsFreeze |-> FALSE] ELSE journal[k].after

Now == Projection(Len(journal))
Terminal == Now.state \in {"completed", "rolled_back"}

NextEvent ==
    CASE late /\ Now.state \in {"freeze_applied", "frozen_confirmed"} -> "rollback_requested"
      [] Now.state = "rollback_requested" ->
            IF Now.needsFreeze THEN "rollback_freeze_applied" ELSE "rollback_frozen_confirmed"
      [] OTHER -> CHOOSE e \in Order[Now.state] : e # "rollback_requested"

-----------------------------------------------------------------------------
(* Actions.  An action is identified by the place its event would take in   *)
(* the journal and by the event, and derived from the events before it.     *)

FreezeEvents == {"freeze_applied", "rollback_freeze_applied"}
ActivateEvents == {"target_activated", "source_reactivated"}
LeaseEvents == FreezeEvents \union ActivateEvents \union {"lease_renewed"}
DecisionEvents == {"completed", "rollback_requested", "rolled_back"}
ProofEvents == {"frozen_confirmed", "rollback_frozen_confirmed"}

Is(x, d) == x.seq = d.seq /\ x.event = d.event
Find(S, d) == IF \E x \in S : Is(x, d) THEN CHOOSE x \in S : Is(x, d) ELSE None

Newest(S) == CHOOSE x \in S : \A y \in S : y.seq <= x.seq

InitialTransition ==
    [seq |-> 0, event |-> "created", at |-> 0, lease |-> 1, authority |-> Source,
     phase |-> "active", epoch |-> 1]

Time == Cardinality(receipts) + Cardinality(artifacts)

\* The last event before d that changed the lease, by its place in the journal.
LeaseChange(d) ==
    LET places == {[seq |-> k, event |-> journal[k].event] : k \in 1..(d.seq - 1)}
    IN  {x \in places : x.event \in LeaseEvents}

\* Variant: the newest receipt, journaled or not.
LatestApplied(d) ==
    IF receipts = {} THEN InitialTransition
    ELSE CHOOSE r \in receipts : \A q \in receipts : q.lease <= r.lease

\* latestTransition: the artifact that bears the place of that event.
LatestTransition(d) ==
    IF LeaseChange(d) = {} THEN InitialTransition
    ELSE Find(artifacts, Newest(LeaseChange(d)))

\* latestCutoverPayload: the newest artifact of the kind before d, journaled or not.
LatestPayload(d, e) ==
    LET S == {x \in artifacts : x.event = e /\ x.seq < d.seq}
    IN  IF S = {} THEN None ELSE Newest(S)

HasRollbackFreeze(d) ==
    \/ \E k \in 1..(d.seq - 1) : journal[k].event = "rollback_freeze_applied"
    \/ Projection(d.seq - 1).needsFreeze

ExpectedEpoch(d) ==
    LET state == Projection(d.seq - 1).state
        back == IF d.event = "lease_renewed"
                THEN state \in {"rollback_freeze_applied", "rollback_frozen_confirmed",
                                "source_reactivated", "rollback_checkpointed"}
                ELSE d.event \in {"rollback_freeze_applied", "rollback_frozen_confirmed",
                                  "source_reactivated", "rollback_checkpointed", "rolled_back"}
    IN  CASE d.event = "source_checkpointed" -> 1
          [] d.event = "lease_renewed" /\ state \in {"created", "source_checkpointed"} -> 1
          [] back /\ HasRollbackFreeze(d) -> 3
          [] OTHER -> 2

\* validateProductionTransitionReceipt, but for the identity and the record it
\* replaced, which the id determines.
BindsAction(receipt, d) ==
    LET state == Projection(d.seq - 1).state
        rolling == {"rollback_freeze_applied", "rollback_frozen_confirmed"}
        authority ==
            CASE d.event = "target_activated" -> Target
              [] d.event = "rollback_freeze_applied" -> Target
              [] d.event = "lease_renewed" ->
                    IF state \in rolling \union {"target_activated", "target_checkpointed"}
                    THEN Target ELSE Source
              [] OTHER -> Source
        frozen == \/ d.event \in FreezeEvents
                  \/ /\ d.event = "lease_renewed"
                     /\ state \in rolling \union {"freeze_applied", "frozen_confirmed"}
    IN  /\ receipt.authority = authority
        /\ receipt.phase = (IF frozen THEN "frozen" ELSE "active")
        /\ receipt.epoch = ExpectedEpoch(d)

-----------------------------------------------------------------------------
Init ==
    /\ fence = [lease |-> 1, authority |-> Source, phase |-> "active", epoch |-> 1]
    /\ receipts = {} /\ artifacts = {} /\ journal = <<>>
    /\ late = FALSE
    /\ owner = None
    /\ loop = [c \in Controllers |-> "off"]
    /\ doing = [a \in Actors |-> None]
    /\ commands = 0
    /\ conf = Deployed
    /\ observation = [n \in Nodes |-> None]
    /\ inflight = [n \in Nodes |-> 0]

-----------------------------------------------------------------------------
(* Executing an action *)

\* Variant: the place is counted once too often.
BeginTooFar(a, e) ==
    doing' = [doing EXCEPT ![a] = [seq |-> Len(journal) + 2, event |-> e, phase |-> "execute"]]

Begin(a, e) ==
    doing' = [doing EXCEPT ![a] = [seq |-> Len(journal) + 1, event |-> e, phase |-> "execute"]]

At(a, phase) == doing[a] # None /\ doing[a].phase = phase

Proceed(a, phase) ==
    /\ doing' = [doing EXCEPT ![a].phase = phase]
    /\ UNCHANGED <<late, owner, loop, commands, nodeVars>>

\* What the action did before is remembered by its artifact.
Recall(a) ==
    /\ At(a, "execute")
    /\ Find(artifacts, doing[a]) # None
    /\ Proceed(a, "append")
    /\ UNCHANGED <<fence, attemptVars>>

\* The record a transition expects to replace; None if its evidence is missing
\* or bound to another record.
ExpectedLease(d) ==
    LET transition == LatestTransition(d)
        evidence == CASE d.event = "freeze_applied" -> LatestPayload(d, "source_checkpointed")
                      [] d.event = "target_activated" -> LatestPayload(d, "frozen_confirmed")
                      [] d.event = "source_reactivated" -> LatestPayload(d, "rollback_frozen_confirmed")
                      [] OTHER -> transition
    IN  IF transition = None \/ evidence = None THEN None
        ELSE IF evidence.lease # transition.lease THEN None ELSE transition.lease

\* Variant: the fence is frozen in the epoch it has.
NextRecordInEpoch(d) ==
    LET next == [fence EXCEPT !.lease = @ + 1]
    IN  CASE d.event \in FreezeEvents -> [next EXCEPT !.phase = "frozen"]
          [] d.event = "target_activated" -> [next EXCEPT !.phase = "active", !.authority = Target]
          [] d.event = "source_reactivated" -> [next EXCEPT !.phase = "active", !.authority = Source]
          [] OTHER -> next

NextRecord(d) ==
    LET next == [fence EXCEPT !.lease = @ + 1]
    IN  CASE d.event \in FreezeEvents -> [next EXCEPT !.phase = "frozen", !.epoch = @ + 1]
          [] d.event = "target_activated" -> [next EXCEPT !.phase = "active", !.authority = Target]
          [] d.event = "source_reactivated" -> [next EXCEPT !.phase = "active", !.authority = Source]
          [] OTHER -> next

\* The writer makes the transition, unless its receipt says that it was made.
Transition(a) ==
    LET d == doing[a] IN
    /\ At(a, "execute")
    /\ d.event \in LeaseEvents
    /\ Find(artifacts, d) = None
    /\ ExpectedLease(d) # None
    /\ \/ /\ Find(receipts, d) # None
          /\ UNCHANGED <<fence, receipts>>
       \/ /\ Find(receipts, d) = None
          /\ fence # None
          /\ fence.lease = ExpectedLease(d)
          /\ d.event \in FreezeEvents => fence.phase = "active"
          /\ d.event \in ActivateEvents => fence.phase = "frozen"
          /\ fence' = NextRecord(d)
          /\ receipts' = receipts \union
                {[seq |-> d.seq, event |-> d.event, at |-> Time, lease |-> fence'.lease,
                  authority |-> fence'.authority, phase |-> fence'.phase, epoch |-> fence'.epoch]}
    /\ Proceed(a, "publish")
    /\ UNCHANGED <<artifacts, journal>>

Manifest(e) ==
    CASE e = "frozen_confirmed" -> FrozenNodes
      [] e = "target_checkpointed" -> TargetNodes
      [] OTHER -> SourceNodes

\* Every node of the manifest has published that it sees the record of the
\* transition and is configured for its epoch.
Aggregate(manifest, transition) ==
    /\ fence # None
    /\ transition.phase = "active" =>
          \A n \in DOMAIN manifest : manifest[n] = transition.authority
    /\ \A n \in DOMAIN manifest :
          observation[n] = [authority |-> manifest[n], epoch |-> transition.epoch,
                            lease |-> transition.lease]

\* captureObservation and captureCheckpoint: the proof bears the record of the
\* transition it was made for.  It is made and published in one step: one that
\* is published late differs in nothing that is looked at but its time.
Capture(a) ==
    LET d == doing[a]
        transition == LatestTransition(d)
    IN
    /\ At(a, "execute")
    /\ d.event \notin LeaseEvents \union DecisionEvents
    /\ Find(artifacts, d) = None
    /\ transition # None
    /\ Aggregate(Manifest(d.event), transition)
    /\ transition.epoch = ExpectedEpoch(d)
    /\ IF d.event \in ProofEvents THEN transition.phase = "frozen"
       ELSE /\ transition.phase = "active"
            /\ \A n \in Nodes : inflight[n] = 0
    /\ artifacts' = artifacts \union
          {[transition EXCEPT !.seq = d.seq, !.event = d.event, !.at = Time]}
    /\ Proceed(a, "append")
    /\ UNCHANGED <<fence, receipts, journal>>

\* publishDecision.
Decide(a) ==
    LET d == doing[a] IN
    /\ At(a, "execute")
    /\ d.event \in DecisionEvents
    /\ Find(artifacts, d) = None
    /\ artifacts' = artifacts \union
          {[InitialTransition EXCEPT !.seq = d.seq, !.event = d.event, !.at = Time]}
    /\ Proceed(a, "append")
    /\ UNCHANGED <<fence, receipts, journal>>

\* The artifact of a transition is its receipt.
Publish(a) ==
    LET receipt == Find(receipts, doing[a]) IN
    /\ At(a, "publish")
    /\ BindsAction(receipt, doing[a])
    /\ artifacts' = artifacts \union {receipt}
    /\ Proceed(a, "append")
    /\ UNCHANGED <<fence, receipts, journal>>

-----------------------------------------------------------------------------
(* The ends of an action *)

Release(c) == owner' = IF owner = c THEN None ELSE owner

Leave(c) == loop' = [loop EXCEPT ![c] = "off"] /\ Release(c)

\* Append writes the next event of the journal as it is now, whatever the place
\* the action was derived for.
AppendEvent(a) ==
    LET d == doing[a]
        after == After(Now, d.event)
    IN
    /\ At(a, "append")
    /\ Accepts(Now, d.event)
    /\ journal # <<>> => journal[Len(journal)].at <= Find(artifacts, d).at
    /\ journal' = Append(journal, [event |-> d.event, from |-> d.seq,
                                   at |-> Find(artifacts, d).at, after |-> after])
    /\ doing' = [doing EXCEPT ![a] = None]
    /\ IF a \in Operators THEN UNCHANGED <<loop, owner>>
       ELSE IF d.event # "lease_renewed" /\ after.state \in {"completed", "rolled_back"} THEN Leave(a)
       ELSE UNCHANGED <<loop, owner>>
    /\ UNCHANGED <<fence, receipts, artifacts, late, commands, nodeVars>>

\* A condition that does not hold, an error, a timeout or a lost answer.
Fail(a) ==
    /\ doing[a] # None
    /\ doing' = [doing EXCEPT ![a] = None]
    /\ loop' = IF a \in Operators THEN loop
               ELSE [loop EXCEPT ![a] = IF doing[a].event = "lease_renewed" THEN "on" ELSE "blocked"]
    /\ UNCHANGED <<fence, attemptVars, late, commands, owner, nodeVars>>

-----------------------------------------------------------------------------
(* Who executes actions *)

RenewalsBegun == Cardinality({r \in receipts : r.event = "lease_renewed"})

\* A command of an operator.
Command(o) ==
    /\ doing[o] = None
    /\ commands < MaxCommands /\ commands' = commands + 1
    /\ \/ ~Terminal /\ Begin(o, NextEvent)
       \/ Accepts(Now, "rollback_requested") /\ Begin(o, "rollback_requested")
       \/ /\ Accepts(Now, "lease_renewed") /\ RenewalsBegun < MaxRenewals
          /\ Begin(o, "lease_renewed")
    /\ UNCHANGED <<fence, attemptVars, late, owner, loop, nodeVars>>

Acquire(c) ==
    /\ loop[c] = "off" /\ owner = None
    /\ owner' = c
    /\ loop' = [loop EXCEPT ![c] = "on"]
    /\ UNCHANGED <<fence, attemptVars, late, commands, doing, nodeVars>>

\* The next turn of the loop: the key is prolonged, then the journal read.
Advance(c) ==
    /\ loop[c] = "on" /\ doing[c] = None
    /\ owner = c
    /\ IF Terminal THEN Leave(c) /\ UNCHANGED doing
       ELSE Begin(c, NextEvent) /\ UNCHANGED <<loop, owner>>
    /\ UNCHANGED <<fence, attemptVars, late, commands, nodeVars>>

\* After an action that was blocked the key is prolonged too, and the lease of
\* the record that CurrentLease finds in the journal, when it is due.
RenewAuthority(c) ==
    /\ loop[c] = "blocked" /\ owner = c
    /\ loop' = [loop EXCEPT ![c] = "on"]
    /\ \/ UNCHANGED doing
       \/ /\ LatestTransition([seq |-> Len(journal) + 1]) # None
          /\ Accepts(Now, "lease_renewed") /\ RenewalsBegun < MaxRenewals
          /\ Begin(c, "lease_renewed")
    /\ UNCHANGED <<fence, attemptVars, late, commands, owner, nodeVars>>

\* Run returns: the key is lost or could not be prolonged, or it was cancelled.
Return(c) ==
    /\ loop[c] # "off" /\ doing[c] = None
    /\ Leave(c)
    /\ UNCHANGED <<fence, attemptVars, late, commands, doing, nodeVars>>

Crash(c) ==
    /\ loop[c] # "off"
    /\ loop' = [loop EXCEPT ![c] = "off"]
    /\ doing' = [doing EXCEPT ![c] = None]
    /\ UNCHANGED <<fence, attemptVars, late, commands, owner, nodeVars>>

-----------------------------------------------------------------------------
(* Time *)

\* An action, or two in a row, may last longer than the key.
KeyLapses ==
    /\ owner # None /\ owner' = None
    /\ UNCHANGED <<fence, attemptVars, late, commands, loop, doing, nodeVars>>

\* What is published under the key after that is not part of the attempt.
LeaseLapses ==
    /\ fence # None /\ fence' = None
    /\ UNCHANGED <<attemptVars, late, commands, owner, loop, doing, nodeVars>>

\* Looked at in these two states only.
DeadlinePasses ==
    /\ ~late /\ late' = TRUE
    /\ Now.state \in {"freeze_applied", "frozen_confirmed"}
    /\ UNCHANGED <<fence, attemptVars, owner, loop, doing, commands, nodeVars>>

-----------------------------------------------------------------------------
(* Data plane processes *)

\* A node is started again with another configuration, for a later epoch or
\* another authority; what it was delivering is over.
Redeploy(n) ==
    /\ \E d \in Deployments[n] :
          /\ d # conf[n] /\ d.epoch >= conf[n].epoch
          /\ conf' = [conf EXCEPT ![n] = d]
    /\ inflight' = [inflight EXCEPT ![n] = 0]
    /\ UNCHANGED <<fence, attemptVars, late, commands, owner, loop, doing, observation>>

\* Variant: the observation bears the epoch of the record, not the one the node
\* is configured for.
ObserveUnbound(n) ==
    /\ fence # None
    /\ observation' = [observation EXCEPT ![n] =
          [authority |-> conf[n].authority, epoch |-> fence.epoch, lease |-> fence.lease]]
    /\ UNCHANGED <<fence, attemptVars, late, commands, owner, loop, doing, conf, inflight>>

\* The heartbeat reads the fence and publishes what it read.  What a node of
\* another epoch publishes confirms no record and is left out: the observation
\* before it might as well be the last.
Observe(n) ==
    /\ fence # None
    /\ conf[n].epoch = fence.epoch
    /\ observation' = [observation EXCEPT ![n] =
          [authority |-> conf[n].authority, epoch |-> conf[n].epoch, lease |-> fence.lease]]
    /\ UNCHANGED <<fence, attemptVars, late, commands, owner, loop, doing, conf, inflight>>

\* deliveryAuthorityGuard: the fence is asserted, then the message is delivered.
\* A node that is configured for the other plane only keeps its place in the
\* topic.
Admit(n) ==
    /\ inflight[n] = 0
    /\ fence # None
    /\ fence.phase = "active"
    /\ fence.authority = conf[n].authority /\ fence.epoch = conf[n].epoch
    /\ conf[n].authority = Plane[n]
    /\ inflight' = [inflight EXCEPT ![n] = fence.epoch]
    /\ UNCHANGED <<fence, attemptVars, late, commands, owner, loop, doing, conf, observation>>

Complete(n) ==
    /\ inflight[n] # 0
    /\ inflight' = [inflight EXCEPT ![n] = 0]
    /\ UNCHANGED <<fence, attemptVars, late, commands, owner, loop, doing, conf, observation>>

-----------------------------------------------------------------------------
Next ==
    \/ \E a \in Actors :
          Recall(a) \/ Transition(a) \/ Capture(a) \/ Decide(a) \/ Publish(a)
             \/ AppendEvent(a) \/ Fail(a)
    \/ \E o \in Operators : Command(o)
    \/ \E c \in Controllers :
          Acquire(c) \/ Advance(c) \/ RenewAuthority(c) \/ Return(c) \/ Crash(c)
    \/ KeyLapses \/ LeaseLapses \/ DeadlinePasses
    \/ \E n \in Nodes : Redeploy(n) \/ Observe(n) \/ Admit(n) \/ Complete(n)

Spec == Init /\ [][Next]_vars

-----------------------------------------------------------------------------
(* The authority that DeliveryFence implements, as the attempt uses it. *)

Frozen(r) == r.phase = "frozen"

A == INSTANCE Authority WITH
        First <- Source,
        grant <- IF fence = None THEN None
                 ELSE [epoch |-> fence.epoch, authority |-> fence.authority, frozen |-> Frozen(fence)],
        granted <- IF fence = None THEN {}
                   ELSE {[epoch |-> r.epoch, authority |-> r.authority] :
                           r \in {q \in receipts \union {InitialTransition} : ~Frozen(q)}}

-----------------------------------------------------------------------------
\* TypeOK: the type of every variable; no record is ever of a fourth epoch.
TypeOK ==
    /\ fence \in Fences \union {None} /\ (fence # None => fence.epoch \in Epochs)
    /\ receipts \subseteq Payloads /\ artifacts \subseteq Payloads
    /\ \A r \in receipts : r.event \in LeaseEvents /\ r.epoch \in Epochs
    /\ \A x \in artifacts : x.event \in Events /\ x.epoch \in Epochs /\ x.seq > 0
    /\ \A k \in 1..Len(journal) :
          journal[k].event \in Events /\ journal[k].after.state \in States /\ journal[k].from \in 1..k
    /\ late \in BOOLEAN
    /\ owner \in Controllers \union {None}
    /\ loop \in [Controllers -> {"off", "on", "blocked"}]
    /\ doing \in [Actors -> Tasks \union {None}]
    /\ \A a \in Actors : doing[a] # None => doing[a].seq <= Len(journal) + 1
    /\ \A n \in Nodes :
          /\ conf[n] \in Deployments[n] /\ observation[n] \in Observations \union {None}
          /\ inflight[n] \in {0} \union Epochs

\* The record of the newest transition in the journal.
JournaledLease ==
    LET S == {k \in 1..Len(journal) : journal[k].event \in LeaseEvents}
    IN  IF S = {} THEN 1
        ELSE LET k == CHOOSE k \in S : \A j \in S : j <= k
             IN  Find(receipts, [seq |-> journal[k].from, event |-> journal[k].event]).lease

\* AtMostOneAhead: whatever crashes between a transition of the fence and the
\* event that records it, and however many actors advance, renew and roll back
\* at once, no more than one transition was made that the journal does not count.
AtMostOneAhead ==
    LET recorded == {k \in 1..Len(journal) : journal[k].event \in LeaseEvents}
    IN  fence # None => fence.lease - 1 <= Cardinality(recorded) + 1

\* What the journal says of the fence in its present state.
SaysOfFence ==
    LET twice == \E k \in 1..Len(journal) : journal[k].event = "rollback_freeze_applied"
        Reads(authority, phase, epoch) ==
            fence.authority = authority /\ fence.phase = phase /\ fence.epoch = epoch
    IN  CASE Now.state \in {"created", "source_checkpointed"} -> Reads(Source, "active", 1)
          [] Now.state \in {"freeze_applied", "frozen_confirmed"} -> Reads(Source, "frozen", 2)
          [] Now.state \in {"target_activated", "target_checkpointed", "completed"} ->
                Reads(Target, "active", 2)
          [] Now.state = "rollback_requested" ->
                IF Now.needsFreeze THEN Reads(Target, "active", 2) ELSE Reads(Source, "frozen", 2)
          [] Now.state \in {"rollback_freeze_applied", "rollback_frozen_confirmed"} ->
                IF twice THEN Reads(Target, "frozen", 3) ELSE Reads(Source, "frozen", 2)
          [] OTHER -> Reads(Source, "active", IF twice THEN 3 ELSE 2)

\* JournalIsTrue: the fence is as the journal says, unless a transition was made
\* that it does not have; what it says of an attempt that has ended is true even
\* then.  So it stays when an actor that lost the key, or a command, is still at
\* work, and when a freeze takes longer than the attempt allows.
JournalIsTrue ==
    fence # None /\ (fence.lease = JournaledLease \/ Terminal) => SaysOfFence

\* DrainedBeforeActivation: when a plane is given the fence, no node that was
\* asked to confirm the freeze still delivers what it was admitted to before it:
\* the confirmation is that of a process configured for the later epoch.
DrainedBeforeActivation ==
    fence # None /\ fence.phase = "active" =>
       \A n \in DOMAIN (IF fence.authority = Target THEN FrozenNodes ELSE SourceNodes) :
          inflight[n] \in {0, fence.epoch}

\* RollbackRenewable: a renewal made after a rollback was requested can be
\* recorded: the journal has it, or its receipt binds the action.
RollbackRenewable ==
    \A r \in receipts :
       r.event = "lease_renewed" /\ Projection(r.seq - 1).state = "rollback_requested" =>
          \/ \E k \in 1..Len(journal) : journal[k].from = r.seq /\ journal[k].event = r.event
          \/ BindsAction(r, r)

\* AuthorityMoves: every transition that actors make, repeat or find made is one
\* of those the fence has, from the record and for the authority they mean.
AuthorityMoves == [][A!ANext]_A!gvars
=============================================================================
