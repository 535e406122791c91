--------------------------- MODULE KafkaConsumer ---------------------------
(***************************************************************************)
(* One consumer group of the Kafka platform: a loop per topic fetches the  *)
(* next message, runs every registered handler with in-process retries,    *)
(* moves a message that keeps failing to the retry topic or to the dead    *)
(* letter topic, and commits the offset behind what it handled.            *)
(*                                                                         *)
(* Each topic has one partition here: offsets of different partitions do   *)
(* not depend on each other.  A partition has one owner at a time; when    *)
(* the owner changes, or dies, the group resumes at the committed offset.  *)
(***************************************************************************)
EXTENDS Naturals, Sequences

CONSTANTS
    Events,             \* events published to the main topic
    Malformed,          \* those whose envelope cannot be decoded
    NHandlers,          \* handlers registered for the topic
    MaxAttempts,        \* consume_retry_max_attempts
    StartAtEnd,         \* a partition without a commit is read from its end (LastOffset)
    MaxFaults           \* bound on failed publishes and commits, and on restarts

ASSUME ConsumerAssumption ==
    /\ Malformed \subseteq Events /\ StartAtEnd \in BOOLEAN
    /\ NHandlers \in Nat \ {0} /\ MaxAttempts \in Nat \ {0} /\ MaxFaults \in Nat

Topics == {"main", "retry"}
Handlers == 1..NHandlers

VARIABLES
    log,         \* per topic: [event, attempt], attempt being the retry_attempt header
    dead,        \* the events in the dead letter topic
    committed,   \* per topic: offsets below are committed for the group
    fetched,     \* per topic: messages FetchMessage has returned in this session
    pc,          \* per topic: what consumeLoop is doing
    tries,       \* per topic: attempts of handleWithRetry that have failed
    next,        \* per topic: the handler handleAll calls next
    applied,     \* the handlers that have succeeded on an event
    failures,    \* how often a handler has failed on an event
    dropped,     \* messages whose transfer was reported to have failed
    skipped,     \* per topic: offsets below were passed over by starting at the end
    faults

topicVars == <<log, dead, committed>>
loopVars == <<fetched, pc, tries, next>>
effectVars == <<applied, failures, dropped, skipped>>
vars == <<topicVars, loopVars, effectVars, faults>>

Message == [event : Events, attempt : 0..(MaxAttempts - 1)]

TypeOK ==
    /\ log \in [Topics -> Seq(Message)]
    /\ dead \subseteq Events
    /\ \A t \in Topics : committed[t] <= fetched[t] /\ fetched[t] <= Len(log[t])
    /\ pc \in [Topics -> {"fetch", "handle", "transfer", "commit"}]
    /\ \A t \in Topics : pc[t] = "handle" => tries[t] < MaxAttempts /\ next[t] \in Handlers
    /\ applied \in [Events -> SUBSET Handlers]
    /\ failures \in [Events -> Nat]
    /\ \A m \in dropped : m[1] \in Topics /\ m[2] \in DOMAIN log[m[1]]
    /\ \A t \in Topics : skipped[t] <= fetched[t]
    /\ faults \in 0..MaxFaults

Init ==
    /\ log = [t \in Topics |-> << >>]
    /\ dead = {}
    /\ committed = [t \in Topics |-> 0]
    /\ fetched = [t \in Topics |-> 0]
    /\ pc = [t \in Topics |-> "fetch"]
    /\ tries = [t \in Topics |-> 0]
    /\ next = [t \in Topics |-> 1]
    /\ applied = [e \in Events |-> {}]
    /\ failures = [e \in Events |-> 0]
    /\ dropped = {}
    /\ skipped = [t \in Topics |-> 0]
    /\ faults = 0

-----------------------------------------------------------------------------

Fault == faults < MaxFaults /\ faults' = faults + 1

Current(t) == log[t][fetched[t]]

Goto(t, step) == pc' = [pc EXCEPT ![t] = step]

\* The outbox relay, or any other publisher, appends to the main topic.
Produce(e) ==
    /\ \A i \in DOMAIN log["main"] : log["main"][i].event # e
    /\ log' = [log EXCEPT !["main"] = Append(@, [event |-> e, attempt |-> 0])]
    /\ UNCHANGED <<dead, committed, loopVars, effectVars, faults>>

\* FetchMessage, DecodeEnvelope: a broken envelope skips the handlers.
Fetch(t) ==
    /\ pc[t] = "fetch"
    /\ fetched[t] < Len(log[t])
    /\ fetched' = [fetched EXCEPT ![t] = @ + 1]
    /\ tries' = [tries EXCEPT ![t] = 0]
    /\ next' = [next EXCEPT ![t] = 1]
    /\ Goto(t, IF log[t][fetched[t] + 1].event \in Malformed THEN "transfer" ELSE "handle")
    /\ UNCHANGED <<topicVars, effectVars, faults>>

\* handleAll: the handlers run one after the other.
HandlerSucceeds(t) ==
    /\ pc[t] = "handle"
    /\ applied' = [applied EXCEPT ![Current(t).event] = @ \union {next[t]}]
    /\ IF next[t] = NHandlers
       THEN Goto(t, "commit") /\ UNCHANGED next
       ELSE next' = [next EXCEPT ![t] = @ + 1] /\ UNCHANGED pc
    /\ UNCHANGED <<topicVars, fetched, tries, failures, dropped, skipped, faults>>

\* Variant: the handlers behind the one that fails run nevertheless, and the
\* error is forgotten.
HandlerErrorForgotten(t) ==
    /\ pc[t] = "handle"
    /\ failures' = [failures EXCEPT ![Current(t).event] = @ + 1]
    /\ IF next[t] = NHandlers
       THEN Goto(t, "commit") /\ UNCHANGED next
       ELSE next' = [next EXCEPT ![t] = @ + 1] /\ UNCHANGED pc
    /\ UNCHANGED <<topicVars, fetched, tries, applied, dropped, skipped, faults>>

\* A handler's error ends the attempt; the next attempt begins with the first
\* handler again, and after the last one the message is moved away.
HandlerFails(t) ==
    /\ pc[t] = "handle"
    /\ failures' = [failures EXCEPT ![Current(t).event] = @ + 1]
    /\ tries' = [tries EXCEPT ![t] = @ + 1]
    /\ next' = [next EXCEPT ![t] = 1]
    /\ Goto(t, IF tries[t] + 1 < MaxAttempts THEN "handle" ELSE "transfer")
    /\ UNCHANGED <<topicVars, fetched, applied, dropped, skipped, faults>>

\* Variant: the retry budget is compared with the wrong counter.
TransferOneRetryShort(t) ==
    LET m == Current(t)
    IN  IF m.event \notin Malformed /\ m.attempt + 2 < MaxAttempts
        THEN /\ log' = [log EXCEPT !["retry"] =
                          Append(@, [event |-> m.event, attempt |-> m.attempt + 1])]
             /\ UNCHANGED dead
        ELSE dead' = dead \union {m.event} /\ UNCHANGED log

\* publishRetryOrDeadLetter, and publishDeadLetter for a broken envelope.
Transfer(t) ==
    LET m == Current(t)
    IN  IF m.event \notin Malformed /\ m.attempt + 1 < MaxAttempts
        THEN /\ log' = [log EXCEPT !["retry"] =
                          Append(@, [event |-> m.event, attempt |-> m.attempt + 1])]
             /\ UNCHANGED dead
        ELSE dead' = dead \union {m.event} /\ UNCHANGED log

TransferSucceeds(t) ==
    /\ pc[t] = "transfer"
    /\ Transfer(t)
    /\ Goto(t, "commit")
    /\ UNCHANGED <<committed, fetched, tries, next, effectVars, faults>>

\* Publish returns an error, the message being written or not: handleWithRetry
\* returns false, nothing is committed, and the loop fetches the next message.
TransferFails(t) ==
    /\ pc[t] = "transfer"
    /\ Fault
    /\ Transfer(t) \/ UNCHANGED <<log, dead>>
    /\ dropped' = dropped \union {<<t, fetched[t]>>}
    /\ Goto(t, "fetch")
    /\ UNCHANGED <<committed, fetched, tries, next, applied, failures, skipped>>

\* CommitMessages of the current message covers every offset below it.
Commit(t) ==
    /\ pc[t] = "commit"
    /\ committed' = [committed EXCEPT ![t] = fetched[t]]
    /\ Goto(t, "fetch")
    /\ UNCHANGED <<log, dead, fetched, tries, next, effectVars, faults>>

\* The commit is reported to have failed, whether it took effect or not.
CommitFails(t) ==
    /\ pc[t] = "commit"
    /\ Fault
    /\ committed' \in {committed, [committed EXCEPT ![t] = fetched[t]]}
    /\ Goto(t, "fetch")
    /\ UNCHANGED <<log, dead, fetched, tries, next, effectVars>>

Resume(t, from) ==
    /\ Fault
    /\ fetched' = [fetched EXCEPT ![t] = from]
    /\ Goto(t, "fetch")
    /\ UNCHANGED <<topicVars, tries, next, applied, failures, dropped>>

\* Variant: a new owner always begins at the end of the partition.
ResumeAtEnd(t) == Resume(t, Len(log[t])) /\ UNCHANGED skipped

\* Variant: every new owner begins at the first retained offset.
ResumeAtStart(t) == Resume(t, 0) /\ UNCHANGED skipped

\* The process dies or the group rebalances: the next owner of the partition
\* begins at the committed offset.  While there is none it begins at StartOffset.
Restart(t) ==
    IF committed[t] = 0 /\ StartAtEnd
    THEN Resume(t, Len(log[t])) /\ skipped' = [skipped EXCEPT ![t] = Len(log[t])]
    ELSE Resume(t, committed[t]) /\ UNCHANGED skipped

Loop(t) ==
    \/ Fetch(t) \/ HandlerSucceeds(t) \/ HandlerFails(t)
    \/ TransferSucceeds(t) \/ Commit(t)

Next ==
    \/ \E e \in Events : Produce(e)
    \/ \E t \in Topics : Loop(t) \/ TransferFails(t) \/ CommitFails(t) \/ Restart(t)

Spec == Init /\ [][Next]_vars

\* The loops keep running.  Nothing makes an event be published, a call fail
\* or a process die, and a handler may fail for ever.
FairSpec == Spec /\ \A t \in Topics : WF_vars(Loop(t))

-----------------------------------------------------------------------------
(* Properties *)

\* A copy of the message at offset i of topic t went to the next stage.
Transferred(t, i) ==
    LET m == log[t][i]
    IN  \/ m.event \in dead
        \/ \E j \in DOMAIN log["retry"] :
              /\ log["retry"][j].event = m.event
              /\ log["retry"][j].attempt > m.attempt

Settled(t, i) == applied[log[t][i].event] = Handlers \/ Transferred(t, i)

\* What the event contract promises: an offset is committed only when its
\* message was handled by every handler or was moved to the retry or the dead
\* letter topic, "to avoid silent loss" (consumeLoop, CommitMessages).
NoSilentLoss == \A t \in Topics : \A i \in 1..committed[t] : Settled(t, i)

Lost(t, i) == <<t, i>> \in dropped \/ i <= skipped[t]

\* What the code keeps: restarts, failed commits and handlers that fail in the
\* middle of the list lose nothing.  A committed message is unsettled only when
\* its publication to the retry or the dead letter topic was refused, or when
\* the partition was begun at its end, there being no commit (consumeLoop,
\* readerConfig).
LossIsAccountedFor ==
    \A t \in Topics : \A i \in 1..committed[t] : Settled(t, i) \/ Lost(t, i)

\* A message that can be decoded is given up only after every attempt in every
\* stage has failed: MaxAttempts deliveries of MaxAttempts attempts each
\* (handleWithRetry, publishRetryOrDeadLetter).
DeadOnlyAfterAllAttempts ==
    \A e \in dead \ Malformed : failures[e] >= MaxAttempts * MaxAttempts

\* Every event that reaches the main topic is at last handled by every
\* handler, given up into the dead letter topic, or lost in one of these two
\* ways; a handler that always fails does not keep the event circling.
EventuallySettled ==
    \A e \in Events :
        (\E i \in DOMAIN log["main"] : log["main"][i].event = e)
            ~> \/ applied[e] = Handlers
               \/ e \in dead
               \/ \E t \in Topics : \E i \in DOMAIN log[t] : log[t][i].event = e /\ Lost(t, i)
=============================================================================
