---------------------------- MODULE OutboxRelay ----------------------------
(***************************************************************************)
(* The outbox relays of the message service.  Every instance polls the     *)
(* outbox_events table, claims a batch in id order under a lease, writes   *)
(* the events to Kafka one after the other and records each verdict.       *)
(*                                                                         *)
(* The verdicts are not fenced: MarkPublished and MarkRetry update a row   *)
(* by its id, whoever holds the claim by then.                             *)
(*                                                                         *)
(* Time is abstract: a lease may lapse at any moment after the claim (a    *)
(* batch is published sequentially and may take longer than the lease),    *)
(* and a retry delay may end at any moment after it began.                 *)
(***************************************************************************)
EXTENDS Naturals, FiniteSets

CONSTANTS
    Events,      \* the ids of outbox rows
    Poison,      \* rows whose headers_json cannot be decoded
    Relays,
    Batch,       \* outboxBatchSize
    MaxFaults    \* bound on failed calls, crashes and leases lapsing under a live relay

ASSUME OutboxAssumption ==
    /\ Events \subseteq Nat /\ IsFiniteSet(Events)
    /\ Poison \subseteq Events
    /\ Batch \in Nat \ {0} /\ MaxFaults \in Nat

VARIABLES
    status,      \* outbox_events.status; "absent" before the message commits
    waiting,     \* next_retry_at lies in the future
    stale,       \* locked_at is older than the lease
    todo,        \* the claimed events a relay has not finished
    outcome,     \* what Publish returned for the first of them
    written,     \* how often an event is in the Kafka log
    reclaims,    \* how often an event was claimed after its lease lapsed
    ambiguous,   \* how often Publish failed although the event was written
    faults

rowVars == <<status, waiting, stale>>
relayVars == <<todo, outcome>>
countVars == <<written, reclaims, ambiguous>>
vars == <<rowVars, relayVars, countVars, faults>>

TypeOK ==
    /\ status \in [Events -> {"absent", "pending", "processing", "published"}]
    /\ waiting \in [Events -> BOOLEAN]
    /\ stale \in [Events -> BOOLEAN]
    /\ \A e \in Events : stale[e] => status[e] = "processing"
    /\ todo \in [Relays -> SUBSET Events]
    /\ outcome \in [Relays -> {"none", "ok", "error"}]
    /\ written \in [Events -> Nat]
    /\ reclaims \in [Events -> Nat]
    /\ ambiguous \in [Events -> Nat]
    /\ faults \in 0..MaxFaults

Init ==
    /\ status = [e \in Events |-> "absent"]
    /\ waiting = [e \in Events |-> FALSE]
    /\ stale = [e \in Events |-> FALSE]
    /\ todo = [r \in Relays |-> {}]
    /\ outcome = [r \in Relays |-> "none"]
    /\ written = [e \in Events |-> 0]
    /\ reclaims = [e \in Events |-> 0]
    /\ ambiguous = [e \in Events |-> 0]
    /\ faults = 0

-----------------------------------------------------------------------------

Fault == faults < MaxFaults /\ faults' = faults + 1

\* The event a relay is working on: its batch is processed in id order.
AtHead(r, e) == e \in todo[r] /\ \A f \in todo[r] : e <= f

Drop(r, e) ==
    /\ todo' = [todo EXCEPT ![r] = @ \ {e}]
    /\ outcome' = [outcome EXCEPT ![r] = "none"]

\* The row is written with the event's message, in the message transaction.
Enqueue(e) ==
    /\ status[e] = "absent"
    /\ status' = [status EXCEPT ![e] = "pending"]
    /\ UNCHANGED <<waiting, stale, relayVars, countVars, faults>>

\* Variant: a row that is being processed is offered to every relay.
ClaimableUnlocked(e) == status[e] \in {"pending", "processing"} /\ ~ waiting[e]

\* Variant: a claim is never taken over.
ClaimableOnce(e) == status[e] = "pending" /\ ~ waiting[e]

Claimable(e) ==
    \/ status[e] = "pending" /\ ~ waiting[e]
    \/ status[e] = "processing" /\ stale[e]

\* The first Batch claimable rows, in one transaction.  The rows that SKIP LOCKED
\* passes over are those of a claim that counts as made here.
ClaimPendingBatch(r) ==
    /\ todo[r] = {}
    /\ LET open == {e \in Events : Claimable(e)}
       IN  \E batch \in (SUBSET open) \ {{}} :
              /\ Cardinality(batch) <= Batch
              /\ batch = open \/ Cardinality(batch) = Batch
              /\ \A e \in batch, f \in open \ batch : e < f
              /\ todo' = [todo EXCEPT ![r] = batch]
              /\ status' = [e \in Events |-> IF e \in batch THEN "processing" ELSE status[e]]
              /\ stale' = [e \in Events |-> stale[e] /\ e \notin batch]
              /\ reclaims' = [e \in Events |->
                                IF e \in batch /\ stale[e]
                                THEN reclaims[e] + 1 ELSE reclaims[e]]
    /\ UNCHANGED <<waiting, outcome, written, ambiguous, faults>>

\* status = pending, next_retry_at in the future, locked_at = NULL.
MarkRetry(e) ==
    /\ status' = [status EXCEPT ![e] = "pending"]
    /\ waiting' = [waiting EXCEPT ![e] = TRUE]
    /\ stale' = [stale EXCEPT ![e] = FALSE]

\* Variant: locked_at is left behind.
MarkPublishedLocked(e) ==
    /\ status' = [status EXCEPT ![e] = "published"]
    /\ UNCHANGED <<waiting, stale>>

\* status = published, locked_at = NULL.
MarkPublished(e) ==
    /\ status' = [status EXCEPT ![e] = "published"]
    /\ stale' = [stale EXCEPT ![e] = FALSE]
    /\ UNCHANGED waiting

DecodeFails(r) ==
    \E e \in Poison :
        /\ AtHead(r, e)
        /\ MarkRetry(e)
        /\ Drop(r, e)
        /\ UNCHANGED <<countVars, faults>>

PublishSucceeds(r) ==
    \E e \in Events \ Poison :
        /\ AtHead(r, e) /\ outcome[r] = "none"
        /\ written' = [written EXCEPT ![e] = @ + 1]
        /\ outcome' = [outcome EXCEPT ![r] = "ok"]
        /\ UNCHANGED <<rowVars, todo, reclaims, ambiguous, faults>>

\* Kafka refuses the event, or its acknowledgement does not arrive in time.
PublishFails(r) ==
    \E e \in Events \ Poison :
        /\ AtHead(r, e) /\ outcome[r] = "none"
        /\ Fault
        /\ outcome' = [outcome EXCEPT ![r] = "error"]
        /\ \/ UNCHANGED <<written, ambiguous>>
           \/ /\ written' = [written EXCEPT ![e] = @ + 1]
              /\ ambiguous' = [ambiguous EXCEPT ![e] = @ + 1]
        /\ UNCHANGED <<rowVars, todo, reclaims>>

\* Variant: the event is recorded as published whatever Kafka answered.
RecordAsPublished(r) ==
    \E e \in Events :
        /\ AtHead(r, e) /\ outcome[r] # "none"
        /\ MarkPublished(e)
        /\ Drop(r, e)
        /\ UNCHANGED <<countVars, faults>>

\* The verdict is written over whatever state the row is in by now.
Record(r) ==
    \E e \in Events :
        /\ AtHead(r, e) /\ outcome[r] # "none"
        /\ IF outcome[r] = "ok" THEN MarkPublished(e) ELSE MarkRetry(e)
        /\ Drop(r, e)
        /\ UNCHANGED <<countVars, faults>>

\* The update fails and the error is only logged; the row stays claimed.
RecordFails(r) ==
    \E e \in Events :
        /\ AtHead(r, e) /\ (outcome[r] # "none" \/ e \in Poison)
        /\ Fault
        /\ Drop(r, e)
        /\ UNCHANGED <<rowVars, countVars>>

\* The process dies and is started again; its claims stay in the table.
Crash(r) ==
    /\ todo[r] # {}
    /\ Fault
    /\ todo' = [todo EXCEPT ![r] = {}]
    /\ outcome' = [outcome EXCEPT ![r] = "none"]
    /\ UNCHANGED <<rowVars, countVars>>

\* Nobody will finish the claim: its lease runs out.
LeaseRunsOut(e) ==
    /\ status[e] = "processing" /\ ~ stale[e]
    /\ \A r \in Relays : e \notin todo[r]
    /\ stale' = [stale EXCEPT ![e] = TRUE]
    /\ UNCHANGED <<status, waiting, relayVars, countVars, faults>>

\* The lease runs out under a relay that is still busy with its batch.
LeaseOverrun(e) ==
    /\ status[e] = "processing" /\ ~ stale[e]
    /\ \E r \in Relays : e \in todo[r]
    /\ Fault
    /\ stale' = [stale EXCEPT ![e] = TRUE]
    /\ UNCHANGED <<status, waiting, relayVars, countVars>>

RetryDelayEnds(e) ==
    /\ waiting[e]
    /\ waiting' = [waiting EXCEPT ![e] = FALSE]
    /\ UNCHANGED <<status, stale, relayVars, countVars, faults>>

Flush(r) == DecodeFails(r) \/ PublishSucceeds(r) \/ Record(r)

Next ==
    \/ \E e \in Events :
          Enqueue(e) \/ LeaseRunsOut(e) \/ LeaseOverrun(e) \/ RetryDelayEnds(e)
    \/ \E r \in Relays :
          \/ ClaimPendingBatch(r) \/ Flush(r)
          \/ PublishFails(r) \/ RecordFails(r) \/ Crash(r)

Spec == Init /\ [][Next]_vars

\* The relay goroutine keeps polling and working, and clocks keep running.
\* Nothing makes a message be sent, a call fail or a process die.
Fairness ==
    /\ \A r \in Relays : WF_vars(ClaimPendingBatch(r)) /\ WF_vars(Flush(r))
    /\ \A e \in Events : WF_vars(LeaseRunsOut(e)) /\ WF_vars(RetryDelayEnds(e))

FairSpec == Spec /\ Fairness

-----------------------------------------------------------------------------
(* Properties *)

\* A row is only recorded as published when its event is in the Kafka log,
\* whatever crashes, overrun leases and late verdicts came before (flushBatch).
PublishedWasWritten ==
    \A e \in Events : status[e] = "published" => written[e] > 0

\* An event is duplicated in Kafka only for a reason: every copy beyond the
\* first is paid for by a lease that lapsed or by an acknowledgement that was
\* lost.  Claims, retries and the unfenced verdicts add no copies of their own
\* (ClaimPendingBatch, SelectClaimableOutboxEvents).
DuplicatesArePaidFor ==
    \A e \in Events : written[e] <= 1 + reclaims[e] + ambiguous[e]

\* A published row goes back to pending only by the verdict of a relay that
\* was overrun by another one: without a lapsed lease published is final
\* (MarkOutboxRetry updates by id, not by claim).
PublishedIsFinalUnlessReclaimed ==
    [][\A e \in Events :
          status[e] = "published" /\ status'[e] # "published" => reclaims[e] > 0]_vars

\* The outbox drains: once the faults are over, every event that was enqueued
\* and can be decoded is published for good, a poisonous row with a smaller id
\* notwithstanding.
Drained ==
    \A e \in Events \ Poison :
        status[e] # "absent" ~> [](status[e] = "published")
=============================================================================
