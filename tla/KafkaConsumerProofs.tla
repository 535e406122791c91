------------------------ MODULE KafkaConsumerProofs ------------------------
(***************************************************************************)
(* Proofs about KafkaConsumer for any events, handlers, attempts and       *)
(* faults: its type invariant, that a committed message which was neither  *)
(* handled nor moved on is one of the losses the code admits, and that a   *)
(* message is given up only after all its attempts.                        *)
(***************************************************************************)
EXTENDS KafkaConsumer, SequenceTheorems, TLAPS

USE ConsumerAssumption DEF ConsumerAssumption, Topics

-----------------------------------------------------------------------------
(* Type correctness *)

\* A loop that has left FetchMessage holds a message; while it is not done with
\* it, the message is not committed.  A partition begun at its end has no
\* commit below the end.
Session(t) ==
    /\ pc[t] # "fetch" => 0 < fetched[t]
    /\ pc[t] \in {"handle", "transfer"} => committed[t] < fetched[t]
    /\ skipped[t] <= committed[t] \/ (committed[t] = 0 /\ StartAtEnd)

Typed ==
    /\ TypeOK
    /\ fetched \in [Topics -> Nat] /\ committed \in [Topics -> Nat]
    /\ tries \in [Topics -> Nat] /\ next \in [Topics -> Nat]
    /\ skipped \in [Topics -> Nat]
    /\ \A t \in Topics : Session(t)

LEMMA TypedInit == Init => Typed
  <1> SUFFICES ASSUME Init PROVE Typed
    OBVIOUS
  <1>1. << >> \in Seq(Message) /\ Len(<< >>) = 0
    BY EmptySeq
  <1>2. log \in [Topics -> Seq(Message)] /\ \A t \in Topics : Len(log[t]) = 0
    BY <1>1 DEF Init
  <1>3. TypeOK
    BY <1>2 DEF Init, TypeOK, Handlers
  <1> QED BY <1>3 DEF Init, Typed, Session

\* What a loop that has fetched something holds.
LEMMA CurrentTyped ==
  ASSUME Typed, NEW t \in Topics
  PROVE  /\ Len(log[t]) \in Nat /\ DOMAIN log[t] = 1..Len(log[t])
         /\ \A i \in 1..Len(log[t]) : /\ log[t][i] \in Message /\ log[t][i].event \in Events
                                      /\ log[t][i].attempt \in 0..(MaxAttempts - 1)
         /\ pc[t] # "fetch" => /\ fetched[t] \in 1..Len(log[t])
                               /\ Current(t) \in Message /\ Current(t).event \in Events
                               /\ Current(t).attempt \in 0..(MaxAttempts - 1)
  <1>1. log[t] \in Seq(Message)
    BY DEF Typed, TypeOK
  <1>2. /\ Len(log[t]) \in Nat /\ DOMAIN log[t] = 1..Len(log[t])
        /\ \A i \in 1..Len(log[t]) : log[t][i] \in Message
    BY <1>1, LenProperties, ElementOfSeq
  <1>3. pc[t] # "fetch" => fetched[t] \in 1..Len(log[t])
    BY <1>2 DEF Typed, TypeOK, Session
  <1> QED BY <1>2, <1>3 DEF Current, Message

\* The topics only grow.
Grown ==
    /\ log' \in [Topics -> Seq(Message)]
    /\ \A t \in Topics :
          /\ Len(log[t]) \in Nat /\ Len(log'[t]) \in Nat /\ Len(log[t]) <= Len(log'[t])
          /\ DOMAIN log[t] \subseteq DOMAIN log'[t]
          /\ \A i \in 1..Len(log[t]) : log'[t][i] = log[t][i]

LEMMA AppendGrows ==
  ASSUME Typed, NEW u \in Topics, NEW m \in Message,
         log' = [log EXCEPT ![u] = Append(@, m)]
  PROVE  /\ Grown
         /\ Len(log'[u]) = Len(log[u]) + 1 /\ log'[u][Len(log[u]) + 1] = m
         /\ \A t \in Topics \ {u} : log'[t] = log[t]
  <1>1. log[u] \in Seq(Message) /\ log \in [Topics -> Seq(Message)]
    BY DEF Typed, TypeOK
  <1>2. /\ Append(log[u], m) \in Seq(Message)
        /\ Len(Append(log[u], m)) = Len(log[u]) + 1
        /\ \A i \in 1..Len(log[u]) : Append(log[u], m)[i] = log[u][i]
        /\ Append(log[u], m)[Len(log[u]) + 1] = m
    BY <1>1, AppendProperties
  <1>3. log'[u] = Append(log[u], m) /\ \A t \in Topics \ {u} : log'[t] = log[t]
    BY <1>1
  <1>4. log' \in [Topics -> Seq(Message)]
    BY <1>1, <1>2
  <1>5. \A t \in Topics : /\ Len(log[t]) \in Nat /\ DOMAIN log[t] = 1..Len(log[t])
                          /\ Len(log'[t]) \in Nat /\ DOMAIN log'[t] = 1..Len(log'[t])
    BY <1>1, <1>4, LenProperties
  <1> QED BY <1>2, <1>3, <1>4, <1>5 DEF Grown

LEMMA SameLogGrows ==
  ASSUME Typed, log' = log PROVE Grown
  BY CurrentTyped DEF Typed, TypeOK, Grown

\* Moving a message on appends it, one stage up, to the retry topic, or adds it
\* to the dead letter topic.
LEMMA TransferMoves ==
  ASSUME Typed, NEW t \in Topics, pc[t] = "transfer", Transfer(t)
  PROVE  \/ /\ Current(t).event \notin Malformed
            /\ \E m \in Message :
                  /\ m.event = Current(t).event /\ m.attempt = Current(t).attempt + 1
                  /\ log' = [log EXCEPT !["retry"] = Append(@, m)]
            /\ dead' = dead
         \/ /\ Current(t).event \in Malformed \/ Current(t).attempt = MaxAttempts - 1
            /\ dead' = dead \union {Current(t).event}
            /\ log' = log
  <1> DEFINE m == [event |-> Current(t).event, attempt |-> Current(t).attempt + 1]
  <1>1. Current(t).event \in Events /\ Current(t).attempt \in 0..(MaxAttempts - 1)
    BY CurrentTyped
  <1>2. CASE Current(t).event \notin Malformed /\ Current(t).attempt + 1 < MaxAttempts
    <2>1. m \in Message /\ m.event = Current(t).event /\ m.attempt = Current(t).attempt + 1
      BY <1>1, <1>2 DEF Message
    <2>2. log' = [log EXCEPT !["retry"] = Append(@, m)] /\ dead' = dead
      BY <1>2 DEF Transfer
    <2> HIDE DEF m
    <2> QED BY <1>2, <2>1, <2>2
  <1>3. CASE ~ (Current(t).event \notin Malformed /\ Current(t).attempt + 1 < MaxAttempts)
    <2>1. dead' = dead \union {Current(t).event} /\ log' = log
      BY <1>3 DEF Transfer
    <2>2. Current(t).event \in Malformed \/ Current(t).attempt = MaxAttempts - 1
      BY <1>1, <1>3
    <2> QED BY <2>1, <2>2
  <1> QED BY <1>2, <1>3

LEMMA TransferGrows ==
  ASSUME Typed, NEW t \in Topics, pc[t] = "transfer",
         Transfer(t) \/ UNCHANGED <<log, dead>>
  PROVE  Grown /\ dead \subseteq dead' /\ dead' \subseteq Events
  <1>1. CASE Transfer(t)
    <2>1. \/ /\ \E m \in Message : log' = [log EXCEPT !["retry"] = Append(@, m)]
             /\ dead' = dead
          \/ dead' = dead \union {Current(t).event} /\ log' = log
      BY <1>1, TransferMoves
    <2>2. Grown
      BY <2>1, AppendGrows, SameLogGrows
    <2>3. Current(t).event \in Events /\ dead \subseteq Events
      BY CurrentTyped DEF Typed, TypeOK
    <2> QED BY <2>1, <2>2, <2>3
  <1>2. CASE UNCHANGED <<log, dead>>
    BY <1>2, SameLogGrows DEF Typed, TypeOK
  <1> QED BY <1>1, <1>2

LEMMA TypedStep == Typed /\ [Next]_vars => Typed'
  <1> SUFFICES ASSUME Typed, [Next]_vars PROVE Typed'
    OBVIOUS
  <1> USE DEF topicVars, loopVars, effectVars, Goto, Fault
  <1>1. ASSUME NEW e \in Events, Produce(e) PROVE Typed'
    <2> DEFINE m == [event |-> e, attempt |-> 0]
    <2>1. m \in Message
      BY DEF Message
    <2>2. Grown
      BY <1>1, <2>1, AppendGrows DEF Produce
    <2>3. TypeOK'
      BY <1>1, <2>2 DEF Produce, Typed, TypeOK, Grown
    <2> QED BY <1>1, <2>3 DEF Produce, Typed, Session
  <1>2. ASSUME NEW t \in Topics, Fetch(t) PROVE Typed'
    <2>1. Len(log[t]) \in Nat
      BY CurrentTyped
    <2>2. fetched' \in [Topics -> Nat] /\ next' \in [Topics -> Nat] /\ tries' \in [Topics -> Nat]
      BY <1>2, <2>1 DEF Fetch, Typed, TypeOK
    <2>3. pc' \in [Topics -> {"fetch", "handle", "transfer", "commit"}]
      BY <1>2 DEF Fetch, Typed, TypeOK
    <2>4. \A u \in Topics : pc'[u] = "handle" => tries'[u] < MaxAttempts /\ next'[u] \in Handlers
      BY <1>2 DEF Fetch, Typed, TypeOK, Handlers
    <2>5. TypeOK'
      <3>1. \A u \in Topics : committed'[u] <= fetched'[u] /\ fetched'[u] <= Len(log'[u])
        BY <1>2, <2>1 DEF Fetch, Typed, TypeOK
      <3>2. \A u \in Topics : skipped'[u] <= fetched'[u]
        BY <1>2, <2>1 DEF Fetch, Typed, TypeOK
      <3>3. UNCHANGED <<log, dead, applied, failures, dropped, faults>>
        BY <1>2 DEF Fetch
      <3> QED BY <2>3, <2>4, <3>1, <3>2, <3>3 DEF Typed, TypeOK
    <2> QED BY <1>2, <2>5 DEF Fetch, Typed, TypeOK, Session
  <1>3. ASSUME NEW t \in Topics, HandlerSucceeds(t) PROVE Typed'
    <2>1. Current(t).event \in Events /\ next[t] \in Handlers
      BY <1>3, CurrentTyped DEF HandlerSucceeds, Typed, TypeOK
    <2>2. applied' \in [Events -> SUBSET Handlers]
      BY <1>3, <2>1 DEF HandlerSucceeds, Typed, TypeOK
    <2>3. /\ pc' \in [Topics -> {"fetch", "handle", "transfer", "commit"}]
          /\ next' \in [Topics -> Nat]
          /\ \A u \in Topics : pc'[u] = "handle" => pc[u] = "handle" /\ next'[u] \in Handlers
          /\ \A u \in Topics : pc'[u] # "fetch" => pc[u] # "fetch"
          /\ \A u \in Topics : pc'[u] \in {"handle", "transfer"} => pc[u] \in {"handle", "transfer"}
      <3>1. CASE next[t] = NHandlers
        BY <1>3, <2>1, <3>1 DEF HandlerSucceeds, Typed, TypeOK, Handlers
      <3>2. CASE next[t] # NHandlers
        <4>1. next' = [next EXCEPT ![t] = next[t] + 1] /\ pc' = pc
          BY <1>3, <3>2 DEF HandlerSucceeds
        <4>2. next[t] + 1 \in Handlers /\ next[t] + 1 \in Nat
          BY <2>1, <3>2 DEF Handlers
        <4> QED BY <4>1, <4>2 DEF Typed, TypeOK
      <3> QED BY <3>1, <3>2
    <2>4. TypeOK'
      BY <1>3, <2>2, <2>3 DEF HandlerSucceeds, Typed, TypeOK
    <2> QED BY <1>3, <2>3, <2>4 DEF HandlerSucceeds, Typed, Session
  <1>4. ASSUME NEW t \in Topics, HandlerFails(t) PROVE Typed'
    <2>1. Current(t).event \in Events
      BY <1>4, CurrentTyped DEF HandlerFails
    <2>2. failures' \in [Events -> Nat]
      <3>1. /\ failures \in [Events -> Nat]
            /\ failures' = [failures EXCEPT ![Current(t).event] = failures[Current(t).event] + 1]
        BY <1>4 DEF HandlerFails, Typed, TypeOK
      <3>2. failures[Current(t).event] + 1 \in Nat
        BY <2>1, <3>1
      <3> QED BY <3>1, <3>2
    <2>3. TypeOK'
      <3>1. tries[t] \in Nat /\ next[t] \in Handlers /\ 1 \in Handlers
        BY <1>4 DEF HandlerFails, Typed, TypeOK, Handlers
      <3>2. pc' \in [Topics -> {"fetch", "handle", "transfer", "commit"}]
        BY <1>4 DEF HandlerFails, Typed, TypeOK
      <3>3. /\ pc'[t] = "handle" => tries'[t] < MaxAttempts /\ next'[t] \in Handlers
            /\ \A u \in Topics \ {t} : pc'[u] = pc[u] /\ tries'[u] = tries[u] /\ next'[u] = next[u]
        BY <1>4, <3>1 DEF HandlerFails, Typed, TypeOK
      <3>4. \A u \in Topics : pc'[u] = "handle" => tries'[u] < MaxAttempts /\ next'[u] \in Handlers
        BY <3>3 DEF Typed, TypeOK
      <3> QED BY <1>4, <2>2, <3>2, <3>4 DEF HandlerFails, Typed, TypeOK
    <2>4. /\ tries' \in [Topics -> Nat] /\ next' \in [Topics -> Nat]
          /\ UNCHANGED <<fetched, committed, skipped>>
          /\ pc[t] = "handle" /\ \A u \in Topics \ {t} : pc'[u] = pc[u]
      BY <1>4 DEF HandlerFails, Typed, TypeOK
    <2>5. \A u \in Topics : Session(u)'
      BY <2>4 DEF Typed, Session
    <2> QED BY <2>3, <2>4, <2>5 DEF Typed
  <1>5. ASSUME NEW t \in Topics, TransferSucceeds(t) \/ TransferFails(t) PROVE Typed'
    <2>1. /\ pc[t] = "transfer" /\ (Transfer(t) \/ UNCHANGED <<log, dead>>)
          /\ pc' = [pc EXCEPT ![t] = "commit"] \/ pc' = [pc EXCEPT ![t] = "fetch"]
          /\ dropped' \subseteq dropped \union {<<t, fetched[t]>>}
          /\ UNCHANGED <<committed, fetched, tries, next, applied, failures, skipped>>
          /\ faults' \in 0..MaxFaults
      BY <1>5 DEF TransferSucceeds, TransferFails, Typed, TypeOK
    <2>2. Grown /\ dead' \subseteq Events
      BY <2>1, TransferGrows
    <2>3. fetched[t] \in DOMAIN log[t]
      BY <2>1, CurrentTyped
    <2>4. ASSUME NEW m \in dropped' PROVE m[1] \in Topics /\ m[2] \in DOMAIN log'[m[1]]
      <3>1. \A u \in Topics : DOMAIN log[u] \subseteq DOMAIN log'[u]
        BY <2>2 DEF Grown
      <3>2. CASE m \in dropped
        <4>1. m[1] \in Topics /\ m[2] \in DOMAIN log[m[1]]
          BY <3>2 DEF Typed, TypeOK
        <4> QED BY <3>1, <4>1
      <3>3. CASE m = <<t, fetched[t]>>
        BY <2>3, <3>1, <3>3
      <3> QED BY <2>1, <3>2, <3>3
    <2>5. /\ pc' \in [Topics -> {"fetch", "handle", "transfer", "commit"}]
          /\ \A u \in Topics : pc'[u] = "handle" => pc[u] = "handle"
          /\ \A u \in Topics : pc'[u] # "fetch" => pc[u] # "fetch"
          /\ \A u \in Topics : pc'[u] \in {"handle", "transfer"} => pc[u] \in {"handle", "transfer"}
      BY <2>1 DEF Typed, TypeOK
    <2>6. TypeOK'
      BY <2>1, <2>2, <2>4, <2>5 DEF Typed, TypeOK, Grown
    <2> QED BY <2>1, <2>5, <2>6 DEF Typed, Session
  <1>6. ASSUME NEW t \in Topics, Commit(t) \/ CommitFails(t) PROVE Typed'
    <2>1. /\ pc[t] = "commit" /\ pc' = [pc EXCEPT ![t] = "fetch"]
          /\ committed' = committed \/ committed' = [committed EXCEPT ![t] = fetched[t]]
          /\ UNCHANGED <<log, dead, fetched, tries, next, applied, failures, dropped, skipped>>
          /\ faults' \in 0..MaxFaults
      BY <1>6 DEF Commit, CommitFails, Typed, TypeOK
    <2>2. TypeOK'
      BY <2>1 DEF Typed, TypeOK
    <2>3. committed' \in [Topics -> Nat]
      BY <2>1 DEF Typed
    <2>4. \A u \in Topics : Session(u)'
      BY <2>1 DEF Typed, TypeOK, Session
    <2> QED BY <2>1, <2>2, <2>3, <2>4 DEF Typed
  <1>7. ASSUME NEW t \in Topics, Restart(t) PROVE Typed'
    <2>1. Len(log[t]) \in Nat
      BY CurrentTyped
    <2>2. CASE committed[t] = 0 /\ StartAtEnd
      <3>1. /\ fetched' = [fetched EXCEPT ![t] = Len(log[t])]
            /\ skipped' = [skipped EXCEPT ![t] = Len(log[t])]
            /\ pc' = [pc EXCEPT ![t] = "fetch"] /\ faults' \in 0..MaxFaults
            /\ UNCHANGED <<topicVars, tries, next, applied, failures, dropped>>
        BY <1>7, <2>2 DEF Restart, Resume, Typed, TypeOK
      <3>2. TypeOK'
        BY <2>1, <2>2, <3>1 DEF Typed, TypeOK
      <3> QED BY <2>1, <2>2, <3>1, <3>2 DEF Typed, TypeOK, Session
    <2>3. CASE ~ (committed[t] = 0 /\ StartAtEnd)
      <3>1. /\ fetched' = [fetched EXCEPT ![t] = committed[t]]
            /\ pc' = [pc EXCEPT ![t] = "fetch"] /\ faults' \in 0..MaxFaults
            /\ UNCHANGED <<topicVars, tries, next, applied, failures, dropped, skipped>>
        BY <1>7, <2>3 DEF Restart, Resume, Typed, TypeOK
      <3>2. skipped[t] <= committed[t]
        BY <2>3 DEF Typed, Session
      <3>3. TypeOK'
        BY <2>1, <3>1, <3>2 DEF Typed, TypeOK
      <3> QED BY <3>1, <3>3 DEF Typed, TypeOK, Session
    <2> QED BY <2>2, <2>3
  <1>8. CASE UNCHANGED vars
    BY <1>8 DEF vars, Typed, TypeOK, Session
  <1> QED BY <1>1, <1>2, <1>3, <1>4, <1>5, <1>6, <1>7, <1>8 DEF Next, Loop

LEMMA TypedAlways == Spec => []Typed
  BY TypedInit, TypedStep, PTL DEF Spec

\* The topics, offsets and counters keep their types and their order, whatever
\* fails, restarts or is committed twice.
THEOREM TypeCorrect == Spec => []TypeOK
  BY TypedAlways, PTL DEF Typed

-----------------------------------------------------------------------------
(* What never shrinks *)

Monotone ==
    /\ Grown
    /\ dead \subseteq dead' /\ dropped \subseteq dropped'
    /\ \A e \in Events : /\ applied[e] \subseteq applied'[e] /\ applied'[e] \subseteq Handlers
                         /\ failures[e] \in Nat /\ failures'[e] \in Nat
                         /\ failures[e] <= failures'[e]
    /\ \A t \in Topics : /\ skipped[t] \in Nat /\ skipped'[t] \in Nat
                         /\ skipped[t] <= skipped'[t]

LEMMA MonotoneStep == Typed /\ [Next]_vars => Monotone
  <1> SUFFICES ASSUME Typed, [Next]_vars PROVE Monotone
    OBVIOUS
  <1>0. Typed'
    BY TypedStep
  <1> USE DEF topicVars, loopVars, effectVars
  <1>1. Grown
    <2>1. ASSUME NEW e \in Events, Produce(e) PROVE Grown
      <3> DEFINE m == [event |-> e, attempt |-> 0]
      <3>1. m \in Message
        BY DEF Message
      <3> QED BY <2>1, <3>1, AppendGrows DEF Produce
    <2>2. ASSUME NEW t \in Topics, TransferSucceeds(t) \/ TransferFails(t) PROVE Grown
      BY <2>2, TransferGrows DEF TransferSucceeds, TransferFails
    <2>3. CASE log' = log
      BY <2>3, SameLogGrows
    <2> QED BY <2>1, <2>2, <2>3 DEF Next, Loop, vars, Fetch, HandlerSucceeds, HandlerFails,
                                     Commit, CommitFails, Restart, Resume
  <1>2. dead \subseteq dead'
    <2>1. ASSUME NEW t \in Topics, TransferSucceeds(t) \/ TransferFails(t) PROVE dead \subseteq dead'
      BY <2>1, TransferGrows DEF TransferSucceeds, TransferFails
    <2> QED BY <2>1 DEF Next, Loop, vars, Produce, Fetch, HandlerSucceeds, HandlerFails,
                        Commit, CommitFails, Restart, Resume
  <1>3. dropped \subseteq dropped'
    BY DEF Next, Loop, vars, Produce, Fetch, HandlerSucceeds, HandlerFails, TransferSucceeds,
           TransferFails, Commit, CommitFails, Restart, Resume
  <1>4. \A e \in Events : applied[e] \subseteq applied'[e]
    <2>1. ASSUME NEW t \in Topics, HandlerSucceeds(t), NEW e \in Events
          PROVE  applied[e] \subseteq applied'[e]
      BY <2>1 DEF HandlerSucceeds, Typed, TypeOK
    <2> QED BY <2>1 DEF Next, Loop, vars, Produce, Fetch, HandlerFails, TransferSucceeds,
                        TransferFails, Commit, CommitFails, Restart, Resume
  <1>5. \A e \in Events : failures[e] \in Nat /\ failures'[e] \in Nat /\ failures[e] <= failures'[e]
    <2>1. \A e \in Events : failures[e] \in Nat /\ failures'[e] \in Nat
      BY <1>0 DEF Typed, TypeOK
    <2>2. ASSUME NEW t \in Topics, HandlerFails(t), NEW e \in Events
          PROVE  failures'[e] \in {failures[e], failures[e] + 1}
      BY <2>2 DEF HandlerFails, Typed, TypeOK
    <2>3. \A e \in Events : failures'[e] = failures[e] \/ failures'[e] = failures[e] + 1
      BY <2>2 DEF Next, Loop, vars, Produce, Fetch, HandlerSucceeds, TransferSucceeds,
                  TransferFails, Commit, CommitFails, Restart, Resume
    <2> QED BY <2>1, <2>3
  <1>6. \A t \in Topics : skipped[t] \in Nat /\ skipped'[t] \in Nat /\ skipped[t] <= skipped'[t]
    <2>1. \A t \in Topics : skipped[t] \in Nat /\ skipped'[t] \in Nat
      BY <1>0 DEF Typed
    <2>2. ASSUME NEW t \in Topics, Restart(t), NEW u \in Topics
          PROVE  skipped[u] <= skipped'[u]
      <3>1. skipped[t] <= Len(log[t])
        <4>1. /\ skipped[t] <= fetched[t] /\ fetched[t] <= Len(log[t])
              /\ skipped[t] \in Nat /\ fetched[t] \in Nat /\ Len(log[t]) \in Nat
          BY CurrentTyped DEF Typed, TypeOK
        <4> QED BY <4>1
      <3>2. skipped' = skipped \/ skipped' = [skipped EXCEPT ![t] = Len(log[t])]
        BY <2>2 DEF Restart
      <3> QED BY <2>1, <3>1, <3>2 DEF Typed
    <2>3. skipped' = skipped => \A t \in Topics : skipped[t] <= skipped'[t]
      BY <2>1
    <2> QED BY <2>1, <2>2, <2>3 DEF Next, Loop, vars, Produce, Fetch, HandlerSucceeds, HandlerFails,
                 TransferSucceeds, TransferFails, Commit, CommitFails
  <1> QED BY <1>0, <1>1, <1>2, <1>3, <1>4, <1>5, <1>6 DEF Monotone, Typed, TypeOK

-----------------------------------------------------------------------------
(* Nothing committed is lost without a trace.                              *)
(*                                                                         *)
(* An offset covers every message below it, settled or not, so the         *)
(* committed prefix says too little: what has been fetched in the session  *)
(* must be accounted for before the commit that covers it.                 *)

Accounted(t, i) == Settled(t, i) \/ Lost(t, i)

\* Whatever the loop has fetched and is not working on is accounted for; of
\* what it is working on, the handlers before the next one have succeeded.
ProgressOf(t) ==
    /\ \A i \in 1..fetched[t] :
          Accounted(t, i) \/ (i = fetched[t] /\ pc[t] \in {"handle", "transfer"})
    /\ pc[t] = "handle" => 1..(next[t] - 1) \subseteq applied[Current(t).event]

Progress == \A t \in Topics : ProgressOf(t)

LEMMA ProgressInit == Init => Progress
  BY DEF Init, Progress, ProgressOf

\* Once accounted for, always accounted for.
LEMMA AccountedStays ==
  ASSUME Typed, Monotone, NEW t \in Topics, NEW i \in 1..Len(log[t]), Accounted(t, i)
  PROVE  Accounted(t, i)'
  <1>1. /\ log'[t][i] = log[t][i] /\ log[t][i].event \in Events
        /\ DOMAIN log["retry"] = 1..Len(log["retry"])
        /\ DOMAIN log["retry"] \subseteq DOMAIN log'["retry"]
        /\ \A j \in 1..Len(log["retry"]) : log'["retry"][j] = log["retry"][j]
    BY CurrentTyped DEF Monotone, Grown
  <1>2. CASE applied[log[t][i].event] = Handlers
    BY <1>1, <1>2 DEF Monotone, Accounted, Settled
  <1>3. CASE Transferred(t, i)
    <2>1. Transferred(t, i)'
      BY <1>1, <1>3 DEF Monotone, Transferred
    <2> QED BY <2>1 DEF Accounted, Settled
  <1>4. CASE Lost(t, i)
    <2>1. i \in Nat /\ skipped[t] \in Nat /\ skipped'[t] \in Nat /\ skipped[t] <= skipped'[t]
      BY DEF Monotone
    <2> QED BY <1>4, <2>1 DEF Monotone, Lost, Accounted
  <1> QED BY <1>2, <1>3, <1>4 DEF Accounted, Settled

\* A loop that does not move keeps what it has.
LEMMA ProgressStays ==
  ASSUME Typed, Progress, Monotone, NEW t \in Topics,
         fetched'[t] = fetched[t], pc'[t] = pc[t], next'[t] = next[t]
  PROVE  ProgressOf(t)'
  <1>1. fetched[t] \in Nat /\ Len(log[t]) \in Nat /\ fetched[t] <= Len(log[t])
    BY CurrentTyped DEF Typed, TypeOK
  <1>2. \A i \in 1..fetched[t] : Accounted(t, i) => Accounted(t, i)'
    <2> SUFFICES ASSUME NEW i \in 1..fetched[t], Accounted(t, i) PROVE Accounted(t, i)'
      OBVIOUS
    <2>1. i \in 1..Len(log[t])
      BY <1>1
    <2> QED BY <2>1, AccountedStays
  <1>3. pc[t] = "handle" => Current(t)' = Current(t) /\ Current(t).event \in Events
    BY CurrentTyped DEF Monotone, Grown, Current
  <1> QED BY <1>2, <1>3 DEF Progress, ProgressOf, Monotone

\* A loop that is done with its message leaves it accounted for.
LEMMA ProgressDone ==
  ASSUME Typed, Progress, Monotone, NEW t \in Topics,
         fetched'[t] = fetched[t], pc[t] # "fetch" => Accounted(t, fetched[t])',
         pc'[t] \in {"fetch", "commit"}
  PROVE  ProgressOf(t)'
  <1>1. fetched[t] \in Nat /\ Len(log[t]) \in Nat /\ fetched[t] <= Len(log[t])
    BY CurrentTyped DEF Typed, TypeOK
  <1>2. ASSUME NEW i \in 1..fetched[t] PROVE Accounted(t, i)'
    <2>1. i \in 1..Len(log[t])
      BY <1>1
    <2>2. CASE Accounted(t, i)
      BY <2>1, <2>2, AccountedStays
    <2>3. CASE ~Accounted(t, i)
      BY <2>3 DEF Progress, ProgressOf
    <2> QED BY <2>2, <2>3
  <1> QED BY <1>2 DEF ProgressOf

LEMMA ProgressStep == Typed /\ Progress /\ [Next]_vars => Progress'
  <1> SUFFICES ASSUME Typed, Progress, [Next]_vars PROVE Progress'
    OBVIOUS
  <1>0. Monotone
    BY MonotoneStep
  <1> USE DEF topicVars, loopVars, effectVars, Goto
  <1>1. ASSUME NEW e \in Events, Produce(e) PROVE Progress'
    BY <1>0, <1>1, ProgressStays DEF Produce, Progress
  <1>2. ASSUME NEW t \in Topics,
               \A u \in Topics \ {t} :
                  fetched'[u] = fetched[u] /\ pc'[u] = pc[u] /\ next'[u] = next[u],
               ProgressOf(t)'
        PROVE  Progress'
    BY <1>0, <1>2, ProgressStays DEF Progress
  <1>3. ASSUME NEW t \in Topics, Fetch(t) PROVE Progress'
    <2>1. /\ pc[t] = "fetch" /\ fetched[t] \in Nat /\ fetched'[t] = fetched[t] + 1
          /\ next'[t] = 1 /\ pc'[t] \in {"handle", "transfer"}
          /\ fetched[t] <= Len(log[t]) /\ Len(log[t]) \in Nat
          /\ \A u \in Topics \ {t} :
                fetched'[u] = fetched[u] /\ pc'[u] = pc[u] /\ next'[u] = next[u]
      BY <1>3, CurrentTyped DEF Fetch, Typed, TypeOK
    <2>2. ASSUME NEW i \in 1..fetched'[t], i # fetched'[t] PROVE Accounted(t, i)'
      <3>1. i \in 1..fetched[t] /\ i \in 1..Len(log[t])
        BY <2>1, <2>2
      <3>2. Accounted(t, i)
        BY <2>1, <3>1 DEF Progress, ProgressOf
      <3> QED BY <1>0, <3>1, <3>2, AccountedStays
    <2>3. 1..(next'[t] - 1) = {}
      BY <2>1
    <2> QED BY <1>2, <2>1, <2>2, <2>3 DEF ProgressOf
  <1>4. ASSUME NEW t \in Topics, HandlerSucceeds(t) PROVE Progress'
    <2> DEFINE e == Current(t).event
    <2>1. /\ pc[t] = "handle" /\ e \in Events /\ next[t] \in 1..NHandlers
          /\ applied'[e] = applied[e] \union {next[t]} /\ UNCHANGED <<log, fetched>>
          /\ \A u \in Topics \ {t} : pc'[u] = pc[u] /\ next'[u] = next[u]
          /\ \/ next[t] = NHandlers /\ pc'[t] = "commit"
             \/ next'[t] = next[t] + 1 /\ pc'[t] = "handle"
      BY <1>4, CurrentTyped DEF HandlerSucceeds, Typed, TypeOK, Handlers
    <2>2. 1..next[t] \subseteq applied'[e]
      <3>1. 1..(next[t] - 1) \subseteq applied[e]
        BY <2>1 DEF Progress, ProgressOf
      <3>2. \A h \in 1..next[t] : h \in 1..(next[t] - 1) \/ h = next[t]
        BY <2>1
      <3> QED BY <2>1, <3>1, <3>2
    <2>3. CASE next[t] = NHandlers /\ pc'[t] = "commit"
      <3>1. applied'[e] = Handlers
        BY <1>0, <2>1, <2>2, <2>3 DEF Handlers, Monotone
      <3>2. Accounted(t, fetched[t])'
        BY <2>1, <3>1 DEF Accounted, Settled, Current
      <3>3. ProgressOf(t)'
        BY <1>0, <2>1, <2>3, <3>2, ProgressDone
      <3> QED BY <1>2, <2>1, <3>3
    <2>4. CASE next'[t] = next[t] + 1 /\ pc'[t] = "handle"
      <3>1. next'[t] - 1 = next[t] /\ Current(t)' = Current(t)
        BY <2>1, <2>4 DEF Current
      <3>2. fetched[t] \in Nat /\ fetched[t] <= Len(log[t]) /\ Len(log[t]) \in Nat
        BY CurrentTyped DEF Typed, TypeOK
      <3>3. ASSUME NEW i \in 1..fetched[t], i # fetched[t] PROVE Accounted(t, i)'
        <4>1. i \in 1..Len(log[t]) /\ Accounted(t, i)
          BY <3>2, <3>3 DEF Progress, ProgressOf
        <4> QED BY <1>0, <4>1, AccountedStays
      <3>4. ProgressOf(t)'
        BY <2>1, <2>2, <2>4, <3>1, <3>3 DEF ProgressOf
      <3> QED BY <1>2, <2>1, <3>4
    <2> QED BY <2>1, <2>3, <2>4
  <1>5. ASSUME NEW t \in Topics, HandlerFails(t) PROVE Progress'
    <2>1. /\ pc[t] = "handle" /\ pc'[t] \in {"handle", "transfer"} /\ next'[t] = 1
          /\ UNCHANGED <<log, fetched>>
          /\ \A u \in Topics \ {t} : pc'[u] = pc[u] /\ next'[u] = next[u]
      BY <1>5 DEF HandlerFails, Typed, TypeOK
    <2>2. fetched[t] \in Nat /\ fetched[t] <= Len(log[t]) /\ Len(log[t]) \in Nat
      BY CurrentTyped DEF Typed, TypeOK
    <2>3. ASSUME NEW i \in 1..fetched[t], i # fetched[t] PROVE Accounted(t, i)'
      <3>1. i \in 1..Len(log[t]) /\ Accounted(t, i)
        BY <2>2, <2>3 DEF Progress, ProgressOf
      <3> QED BY <1>0, <3>1, AccountedStays
    <2>4. 1..(next'[t] - 1) = {}
      BY <2>1
    <2> QED BY <1>2, <2>1, <2>3, <2>4 DEF ProgressOf
  <1>6. ASSUME NEW t \in Topics, TransferSucceeds(t) PROVE Progress'
    <2>1. /\ pc[t] = "transfer" /\ Transfer(t) /\ pc'[t] = "commit" /\ UNCHANGED <<fetched, next>>
          /\ \A u \in Topics \ {t} : pc'[u] = pc[u]
      BY <1>6 DEF TransferSucceeds, Typed, TypeOK
    <2>2. /\ fetched[t] \in 1..Len(log[t]) /\ Current(t) = log[t][fetched[t]]
          /\ Current(t).attempt \in Nat /\ log'[t][fetched[t]] = log[t][fetched[t]]
      BY <1>0, <2>1, CurrentTyped DEF Current, Monotone, Grown
    <2>3. Transferred(t, fetched[t])'
      <3>1. CASE Current(t).event \in dead'
        BY <2>1, <2>2, <3>1 DEF Transferred
      <3>2. CASE \E m \in Message :
                    /\ m.event = Current(t).event /\ m.attempt = Current(t).attempt + 1
                    /\ log' = [log EXCEPT !["retry"] = Append(@, m)]
        <4>1. PICK m \in Message :
                    /\ m.event = Current(t).event /\ m.attempt = Current(t).attempt + 1
                    /\ log' = [log EXCEPT !["retry"] = Append(@, m)]
          BY <3>2
        <4> DEFINE j == Len(log["retry"]) + 1
        <4>2. /\ Len(log'["retry"]) = j /\ log'["retry"][j] = m
              /\ log' \in [Topics -> Seq(Message)] /\ j \in Nat \ {0}
          <5>1. "retry" \in Topics /\ m \in Message
            BY <4>1
          <5>2. Len(log["retry"]) \in Nat
            BY <5>1, CurrentTyped
          <5>3. Grown /\ Len(log'["retry"]) = Len(log["retry"]) + 1
                /\ log'["retry"][Len(log["retry"]) + 1] = m
            BY <4>1, <5>1, AppendGrows
          <5> QED BY <5>2, <5>3 DEF Grown
        <4>3. DOMAIN log'["retry"] = 1..Len(log'["retry"])
          BY <4>2, LenProperties
        <4>4. j \in DOMAIN log'["retry"]
          BY <4>2, <4>3
        <4>5. m.attempt > Current(t).attempt
          BY <2>2, <4>1
        <4> HIDE DEF j
        <4> QED BY <2>1, <2>2, <4>1, <4>2, <4>4, <4>5 DEF Transferred
      <3> QED BY <2>1, <3>1, <3>2, TransferMoves
    <2>4. Accounted(t, fetched[t])'
      BY <2>1, <2>3 DEF Accounted, Settled
    <2>5. ProgressOf(t)'
      BY <1>0, <2>1, <2>4, ProgressDone
    <2> QED BY <1>2, <2>1, <2>5
  <1>7. ASSUME NEW t \in Topics, TransferFails(t) PROVE Progress'
    <2>1. /\ pc'[t] = "fetch" /\ UNCHANGED <<fetched, next>>
          /\ <<t, fetched[t]>> \in dropped'
          /\ \A u \in Topics \ {t} : pc'[u] = pc[u]
      BY <1>7 DEF TransferFails, Typed, TypeOK
    <2>2. Accounted(t, fetched[t])'
      BY <2>1 DEF Accounted, Lost
    <2>3. ProgressOf(t)'
      BY <1>0, <2>1, <2>2, ProgressDone
    <2> QED BY <1>2, <2>1, <2>3
  <1>8. ASSUME NEW t \in Topics, Commit(t) \/ CommitFails(t) PROVE Progress'
    <2>1. /\ pc[t] = "commit" /\ pc'[t] = "fetch" /\ UNCHANGED <<fetched, next>>
          /\ \A u \in Topics \ {t} : pc'[u] = pc[u]
      BY <1>8 DEF Commit, CommitFails, Typed, TypeOK
    <2>2. fetched[t] \in 1..Len(log[t]) /\ fetched[t] \in 1..fetched[t]
      BY <2>1, CurrentTyped
    <2>3. Accounted(t, fetched[t])
      BY <2>1, <2>2 DEF Progress, ProgressOf
    <2>4. Accounted(t, fetched[t])'
      <3>1. \A i \in 1..Len(log[t]) : Accounted(t, i) => Accounted(t, i)'
        BY <1>0, AccountedStays
      <3>2. PICK i \in 1..Len(log[t]) : i = fetched[t]
        BY <2>2
      <3> QED BY <2>1, <2>3, <3>1, <3>2
    <2>5. ProgressOf(t)'
      BY <1>0, <2>1, <2>4, ProgressDone
    <2> QED BY <1>2, <2>1, <2>5
  <1>9. ASSUME NEW t \in Topics, Restart(t) PROVE Progress'
    <2>1. /\ pc'[t] = "fetch" /\ UNCHANGED next
          /\ \A u \in Topics \ {t} : pc'[u] = pc[u] /\ fetched'[u] = fetched[u]
          /\ \/ fetched'[t] = committed[t]
             \/ fetched'[t] = Len(log[t]) /\ skipped'[t] = Len(log[t])
      BY <1>9 DEF Restart, Resume, Typed, TypeOK
    <2>2. ASSUME NEW i \in 1..fetched'[t] PROVE Accounted(t, i)'
      <3>1. /\ committed[t] \in Nat /\ fetched[t] \in Nat /\ Len(log[t]) \in Nat
            /\ committed[t] <= fetched[t] /\ fetched[t] <= Len(log[t])
            /\ pc[t] \in {"handle", "transfer"} => committed[t] < fetched[t]
        BY CurrentTyped DEF Typed, TypeOK, Session
      <3>2. CASE fetched'[t] = committed[t]
        <4>1. /\ i \in 1..fetched[t] /\ i \in 1..Len(log[t])
              /\ pc[t] \in {"handle", "transfer"} => i # fetched[t]
          BY <3>1, <3>2
        <4>2. Accounted(t, i)
          BY <4>1 DEF Progress, ProgressOf
        <4> QED BY <1>0, <4>1, <4>2, AccountedStays
      <3>3. CASE fetched'[t] = Len(log[t]) /\ skipped'[t] = Len(log[t])
        <4>1. i <= skipped'[t]
          BY <3>1, <3>3
        <4> QED BY <4>1 DEF Accounted, Lost
      <3> QED BY <2>1, <3>2, <3>3
    <2>3. ProgressOf(t)'
      BY <2>1, <2>2 DEF ProgressOf
    <2> QED BY <1>2, <2>1, <2>3
  <1>10. CASE UNCHANGED vars
    BY <1>0, <1>10, ProgressStays DEF vars, Progress
  <1> QED BY <1>1, <1>3, <1>4, <1>5, <1>6, <1>7, <1>8, <1>9, <1>10 DEF Next, Loop

\* Restarts, repeated and failed commits and handlers that fail halfway lose
\* nothing: a committed message that was neither handled by all nor moved on is
\* one whose publication failed, or one a first owner has passed over.
THEOREM NothingLostSilently == Spec => []LossIsAccountedFor
  <1>1. Typed /\ Progress => LossIsAccountedFor
    <2> SUFFICES ASSUME Typed, Progress, NEW t \in Topics, NEW i \in 1..committed[t]
                 PROVE  Accounted(t, i)
      BY DEF LossIsAccountedFor, Accounted
    <2>1. /\ committed[t] \in Nat /\ fetched[t] \in Nat /\ committed[t] <= fetched[t]
          /\ pc[t] \in {"handle", "transfer"} => committed[t] < fetched[t]
      BY DEF Typed, TypeOK, Session
    <2>2. i \in 1..fetched[t] /\ (pc[t] \in {"handle", "transfer"} => i # fetched[t])
      BY <2>1
    <2> QED BY <2>2 DEF Progress, ProgressOf
  <1> QED BY <1>1, ProgressInit, ProgressStep, TypedAlways, PTL DEF Spec

-----------------------------------------------------------------------------
(* Nothing is given up early.                                              *)
(*                                                                         *)
(* Copies of one event may be under way in both topics and more than once, *)
(* and their failures count together; the bound holds for each copy by     *)
(* itself, since the failures it has behind it are counted nowhere else    *)
(* but in the one counter that never decreases.                            *)

\* A message has the failures of every stage before its own behind it.
Backed(m) == failures[m.event] >= m.attempt * MaxAttempts

\* An attempt under way has those of the earlier attempts as well, and a message
\* on its way to the next stage has those of all of them.
SpentBy(t) ==
    /\ pc[t] = "handle" =>
          failures[Current(t).event] >= Current(t).attempt * MaxAttempts + tries[t]
    /\ pc[t] = "transfer" /\ Current(t).event \notin Malformed =>
          failures[Current(t).event] >= Current(t).attempt * MaxAttempts + MaxAttempts

Spent ==
    /\ \A t \in Topics : \A i \in 1..Len(log[t]) : Backed(log[t][i])
    /\ \A t \in Topics : SpentBy(t)
    /\ DeadOnlyAfterAllAttempts

LEMMA SpentInit == Init => Spent
  <1> SUFFICES ASSUME Init PROVE Spent
    OBVIOUS
  <1>1. \A t \in Topics : Len(log[t]) = 0
    BY EmptySeq DEF Init
  <1> QED BY <1>1 DEF Init, Spent, SpentBy, DeadOnlyAfterAllAttempts

LEMMA Times ==
  ASSUME NEW a \in Nat, NEW m \in Nat
  PROVE  a * m \in Nat /\ (a + 1) * m = a * m + m
  OBVIOUS

LEMMA BackedStays ==
  ASSUME Typed, Monotone, NEW m \in Message, Backed(m)
  PROVE  Backed(m)'
  <1>1. /\ m.attempt \in Nat /\ failures[m.event] \in Nat /\ failures'[m.event] \in Nat
        /\ failures[m.event] <= failures'[m.event]
    BY DEF Message, Monotone
  <1>2. m.attempt * MaxAttempts \in Nat
    BY <1>1, Times
  <1> HIDE DEF Topics
  <1> QED BY <1>1, <1>2 DEF Backed

\* What is appended brings its own failures along.
LEMMA LogStaysBacked ==
  ASSUME Typed, Typed', Spent, Monotone,
         \/ log' = log
         \/ \E u \in Topics : \E m \in Message :
               log' = [log EXCEPT ![u] = Append(@, m)] /\ Backed(m)'
  PROVE  (\A t \in Topics : \A i \in 1..Len(log[t]) : Backed(log[t][i]))'
  <1>1. ASSUME NEW t \in Topics, NEW i \in 1..Len(log[t]) PROVE Backed(log[t][i])'
    <2>1. log[t][i] \in Message /\ Backed(log[t][i]) /\ log'[t][i] = log[t][i]
      BY CurrentTyped DEF Spent, Monotone, Grown
    <2>2. PICK m \in Message : m = log[t][i] /\ Backed(m) /\ m = log'[t][i]
      BY <2>1
    <2>3. Backed(m)'
      BY <2>2, BackedStays
    <2> QED BY <2>2, <2>3 DEF Backed
  <1>2. CASE log' = log
    BY <1>1, <1>2
  <1>3. ASSUME NEW u \in Topics, NEW m \in Message,
               log' = [log EXCEPT ![u] = Append(@, m)], Backed(m)',
               NEW t \in Topics, NEW i \in 1..Len(log'[t])
        PROVE  Backed(log[t][i])'
    <2>1. /\ Len(log'[u]) = Len(log[u]) + 1 /\ log'[u][Len(log[u]) + 1] = m
          /\ \A x \in Topics \ {u} : log'[x] = log[x]
          /\ Len(log[u]) \in Nat
      BY <1>3, AppendGrows, CurrentTyped
    <2>2. CASE i \in 1..Len(log[t])
      BY <1>1, <2>2
    <2>3. CASE i \notin 1..Len(log[t])
      <3>1. t = u /\ i = Len(log[u]) + 1
        BY <2>1, <2>3
      <3>2. log'[t][i] = m
        BY <2>1, <3>1
      <3> QED BY <1>3, <3>2 DEF Backed
    <2> QED BY <2>2, <2>3
  <1> QED BY <1>2, <1>3

\* A loop that does not move keeps the failures it has behind it.
LEMMA SpentStays ==
  ASSUME Typed, Monotone, NEW t \in Topics, SpentBy(t),
         fetched'[t] = fetched[t], pc'[t] = pc[t], tries'[t] = tries[t]
  PROVE  SpentBy(t)'
  <1>1. CASE pc[t] = "fetch"
    BY <1>1 DEF SpentBy
  <1>2. CASE pc[t] # "fetch"
    <2>1. /\ Current(t)' = Current(t) /\ Current(t).event \in Events
          /\ Current(t).attempt \in Nat /\ tries[t] \in Nat
      <3>1. /\ fetched[t] \in 1..Len(log[t]) /\ Current(t).event \in Events
            /\ Current(t).attempt \in 0..(MaxAttempts - 1)
        BY <1>2, CurrentTyped
      <3>2. tries[t] \in Nat
        BY DEF Typed
      <3>3. Current(t)' = Current(t)
        BY <3>1 DEF Monotone, Grown, Current
      <3> QED BY <3>1, <3>2, <3>3
    <2>2. /\ failures[Current(t).event] \in Nat /\ failures'[Current(t).event] \in Nat
          /\ failures[Current(t).event] <= failures'[Current(t).event]
      BY <2>1 DEF Monotone
    <2>3. Current(t).attempt * MaxAttempts \in Nat
      BY <2>1, Times
    <2> DEFINE e == Current(t).event
    <2> DEFINE a == Current(t).attempt * MaxAttempts
    <2>4. \A n \in Nat : failures[e] >= n => failures'[e] >= n
      BY <2>2
    <2>5. a + tries[t] \in Nat /\ a + MaxAttempts \in Nat
      BY <2>1, <2>3
    <2> HIDE DEF Current
    <2> QED BY <2>1, <2>4, <2>5 DEF SpentBy
  <1> QED BY <1>1, <1>2

LEMMA DeadStays ==
  ASSUME Typed, Monotone, DeadOnlyAfterAllAttempts,
         \A e \in dead' \ (dead \union Malformed) : failures'[e] >= MaxAttempts * MaxAttempts
  PROVE  DeadOnlyAfterAllAttempts'
  <1>1. MaxAttempts * MaxAttempts \in Nat
    BY Times
  <1>2. ASSUME NEW e \in dead, e \notin Malformed PROVE failures'[e] >= MaxAttempts * MaxAttempts
    <2>1. /\ failures[e] \in Nat /\ failures'[e] \in Nat /\ failures[e] <= failures'[e]
          /\ failures[e] >= MaxAttempts * MaxAttempts
      BY <1>2 DEF Monotone, Typed, TypeOK, DeadOnlyAfterAllAttempts
    <2> QED BY <1>1, <2>1
  <1> QED BY <1>2 DEF DeadOnlyAfterAllAttempts

LEMMA SpentStep == Typed /\ Spent /\ [Next]_vars => Spent'
  <1> SUFFICES ASSUME Typed, Spent, [Next]_vars PROVE Spent'
    OBVIOUS
  <1>0. Monotone /\ Typed'
    BY MonotoneStep, TypedStep
  <1> USE DEF topicVars, loopVars, effectVars, Goto
  \* Most steps change neither the topics nor another loop.
  <1>1. ASSUME NEW t \in Topics, UNCHANGED <<log, dead>>, SpentBy(t)',
               \A u \in Topics \ {t} :
                  fetched'[u] = fetched[u] /\ pc'[u] = pc[u] /\ tries'[u] = tries[u]
        PROVE  Spent'
    <2>1. \A u \in Topics : SpentBy(u)'
      BY <1>0, <1>1, SpentStays DEF Spent
    <2>2. DeadOnlyAfterAllAttempts'
      BY <1>0, <1>1, DeadStays DEF Spent
    <2> QED BY <1>0, <1>1, <2>1, <2>2, LogStaysBacked DEF Spent
  <1>2. ASSUME NEW e \in Events, Produce(e) PROVE Spent'
    <2> DEFINE m == [event |-> e, attempt |-> 0]
    <2>1. m \in Message /\ m.event = e /\ m.attempt = 0
      BY DEF Message
    <2>2. log' = [log EXCEPT !["main"] = Append(@, m)] /\ UNCHANGED <<dead, loopVars>>
      BY <1>2 DEF Produce
    <2>3. failures'[e] >= 0 * MaxAttempts
      BY <1>0 DEF Monotone
    <2>4. \E x \in Message : log' = [log EXCEPT !["main"] = Append(@, x)] /\ Backed(x)'
      <3> HIDE DEF m
      <3>1. PICK x \in Message : x = m /\ x.event = e /\ x.attempt = 0
        BY <2>1
      <3> QED BY <2>2, <2>3, <3>1 DEF Backed
    <2>5. (\A t \in Topics : \A i \in 1..Len(log[t]) : Backed(log[t][i]))'
      BY <1>0, <2>4, LogStaysBacked
    <2>6. \A t \in Topics : SpentBy(t)'
      BY <1>0, <2>2, SpentStays DEF Spent
    <2>7. DeadOnlyAfterAllAttempts'
      BY <1>0, <2>2, DeadStays DEF Spent
    <2> QED BY <2>5, <2>6, <2>7 DEF Spent
  <1>3. ASSUME NEW t \in Topics, Fetch(t) PROVE Spent'
    <2> DEFINE m == log[t][fetched[t] + 1]
    <2>1. /\ UNCHANGED <<log, dead, failures>> /\ tries'[t] = 0 /\ fetched'[t] = fetched[t] + 1
          /\ pc'[t] = "handle" \/ (pc'[t] = "transfer" /\ m.event \in Malformed)
          /\ fetched[t] + 1 \in 1..Len(log[t])
          /\ \A u \in Topics \ {t} :
                fetched'[u] = fetched[u] /\ pc'[u] = pc[u] /\ tries'[u] = tries[u]
      <3>1. /\ fetched[t] < Len(log[t]) /\ fetched[t] \in Nat /\ Len(log[t]) \in Nat
            /\ UNCHANGED <<log, dead, failures>>
        BY <1>3, CurrentTyped DEF Fetch, Typed
      <3>2. fetched[t] + 1 \in 1..Len(log[t])
        BY <3>1
      <3>3. /\ tries' = [tries EXCEPT ![t] = 0] /\ fetched' = [fetched EXCEPT ![t] = @ + 1]
            /\ \/ pc' = [pc EXCEPT ![t] = "handle"]
               \/ pc' = [pc EXCEPT ![t] = "transfer"] /\ m.event \in Malformed
        BY <1>3 DEF Fetch
      <3> HIDE DEF m
      <3> QED BY <3>1, <3>2, <3>3 DEF Typed, TypeOK
    <2>2. /\ Current(t)' = m /\ m \in Message /\ Backed(m)
      BY <2>1, CurrentTyped DEF Current, Spent
    <2>3. m.attempt * MaxAttempts \in Nat
      BY <2>2, Times DEF Message
    <2>4. failures[m.event] >= m.attempt * MaxAttempts + 0
      BY <2>2, <2>3 DEF Backed
    <2> HIDE DEF m
    <2>5. SpentBy(t)'
      BY <2>1, <2>2, <2>4 DEF SpentBy
    <2> QED BY <1>1, <2>1, <2>5
  <1>4. ASSUME NEW t \in Topics, HandlerSucceeds(t) PROVE Spent'
    <2>1. /\ UNCHANGED <<log, dead, fetched, tries, failures>>
          /\ pc[t] = "handle" /\ pc'[t] \in {"handle", "commit"}
          /\ \A u \in Topics \ {t} : pc'[u] = pc[u]
      BY <1>4 DEF HandlerSucceeds, Typed, TypeOK
    <2>2. Current(t)' = Current(t)
      BY <2>1 DEF Current
    <2>3. SpentBy(t)'
      BY <2>1, <2>2 DEF Spent, SpentBy
    <2> QED BY <1>1, <2>1, <2>3
  <1>5. ASSUME NEW t \in Topics, HandlerFails(t) PROVE Spent'
    <2> DEFINE e == Current(t).event
    <2> DEFINE a == Current(t).attempt * MaxAttempts
    <2>1. /\ pc[t] = "handle" /\ UNCHANGED <<log, dead, fetched>>
          /\ e \in Events /\ Current(t).attempt \in Nat /\ tries[t] \in Nat
          /\ failures'[e] = failures[e] + 1 /\ tries'[t] = tries[t] + 1
          /\ pc'[t] = "handle" \/ (pc'[t] = "transfer" /\ ~ (tries[t] + 1 < MaxAttempts))
          /\ \A u \in Topics \ {t} : pc'[u] = pc[u] /\ tries'[u] = tries[u]
      <3>1. /\ pc[t] = "handle" /\ UNCHANGED <<log, dead, fetched>>
            /\ failures' = [failures EXCEPT ![e] = @ + 1] /\ tries' = [tries EXCEPT ![t] = @ + 1]
            /\ \/ pc' = [pc EXCEPT ![t] = "handle"]
               \/ pc' = [pc EXCEPT ![t] = "transfer"] /\ ~ (tries[t] + 1 < MaxAttempts)
        BY <1>5 DEF HandlerFails
      <3>2. e \in Events /\ Current(t).attempt \in Nat /\ tries[t] \in Nat
        BY <3>1, CurrentTyped DEF Typed
      <3> HIDE DEF e
      <3> QED BY <3>1, <3>2 DEF Typed, TypeOK
    <2>2. Current(t)' = Current(t)
      BY <2>1 DEF Current
    <2>3. a \in Nat /\ failures[e] \in Nat /\ failures[e] >= a + tries[t]
      BY <1>0, <2>1, Times DEF Spent, SpentBy, Monotone
    <2>4. failures'[e] >= a + tries'[t]
      <3> HIDE DEF a, e
      <3> QED BY <2>1, <2>3
    <2>5. pc'[t] = "transfer" => failures'[e] >= a + MaxAttempts
      <3> HIDE DEF a, e
      <3> QED BY <2>1, <2>3
    <2>6. SpentBy(t)'
      <3> HIDE DEF Current
      <3> QED BY <2>1, <2>2, <2>4, <2>5 DEF SpentBy
    <2> QED BY <1>1, <2>1, <2>6
  <1>6. ASSUME NEW t \in Topics, TransferSucceeds(t) \/ TransferFails(t) PROVE Spent'
    <2> DEFINE c == Current(t)
    <2>1. /\ pc[t] = "transfer" /\ pc'[t] \in {"commit", "fetch"}
          /\ UNCHANGED <<fetched, tries, failures>>
          /\ Transfer(t) \/ UNCHANGED <<log, dead>>
          /\ \A u \in Topics \ {t} : pc'[u] = pc[u]
      BY <1>6 DEF TransferSucceeds, TransferFails, Typed, TypeOK
    <2>2. /\ c.event \in Events /\ c.attempt \in Nat
          /\ c.event \notin Malformed => failures[c.event] >= c.attempt * MaxAttempts + MaxAttempts
      BY <2>1, CurrentTyped DEF Spent, SpentBy
    <2> HIDE DEF c
    <2>3. SpentBy(t)'
      BY <2>1 DEF SpentBy
    <2>4. \A u \in Topics : SpentBy(u)'
      BY <1>0, <2>1, <2>3, SpentStays DEF Spent
    <2>5. CASE UNCHANGED <<log, dead>>
      BY <1>1, <2>1, <2>3, <2>5
    <2>6. ASSUME c.event \notin Malformed, dead' = dead,
                 NEW m \in Message, m.event = c.event, m.attempt = c.attempt + 1,
                 log' = [log EXCEPT !["retry"] = Append(@, m)]
          PROVE  Spent'
      <3>1. failures'[m.event] >= m.attempt * MaxAttempts
        BY <2>1, <2>2, <2>6, Times
      <3>2. \E u \in Topics : \E x \in Message :
               log' = [log EXCEPT ![u] = Append(@, x)] /\ Backed(x)'
        BY <2>6, <3>1 DEF Backed
      <3>3. (\A u \in Topics : \A i \in 1..Len(log[u]) : Backed(log[u][i]))'
        BY <1>0, <3>2, LogStaysBacked
      <3>4. DeadOnlyAfterAllAttempts'
        BY <1>0, <2>6, DeadStays DEF Spent
      <3> QED BY <2>4, <3>3, <3>4 DEF Spent
    <2>7. ASSUME c.event \in Malformed \/ c.attempt = MaxAttempts - 1,
                 dead' = dead \union {c.event}, log' = log
          PROVE  Spent'
      <3>1. ASSUME c.event \notin Malformed PROVE failures'[c.event] >= MaxAttempts * MaxAttempts
        <4>1. c.attempt + 1 = MaxAttempts
          BY <2>2, <2>7, <3>1
        <4>2. (c.attempt + 1) * MaxAttempts = c.attempt * MaxAttempts + MaxAttempts
          BY <2>2, Times
        <4> QED BY <2>1, <2>2, <3>1, <4>1, <4>2
      <3>2. DeadOnlyAfterAllAttempts'
        BY <1>0, <2>7, <3>1, DeadStays DEF Spent
      <3>3. (\A u \in Topics : \A i \in 1..Len(log[u]) : Backed(log[u][i]))'
        BY <1>0, <2>7, LogStaysBacked
      <3> QED BY <2>4, <3>2, <3>3 DEF Spent
    <2> QED BY <2>1, <2>5, <2>6, <2>7, TransferMoves DEF c
  <1>7. ASSUME NEW t \in Topics, Commit(t) \/ CommitFails(t) \/ Restart(t) PROVE Spent'
    <2>1. /\ pc'[t] = "fetch" /\ UNCHANGED <<log, dead, tries>>
          /\ \A u \in Topics \ {t} : pc'[u] = pc[u] /\ fetched'[u] = fetched[u]
      BY <1>7 DEF Commit, CommitFails, Restart, Resume, Typed, TypeOK
    <2>2. SpentBy(t)'
      BY <2>1 DEF SpentBy
    <2> QED BY <1>1, <2>1, <2>2
  <1>8. CASE UNCHANGED vars
    <2>1. SpentBy("main")'
      BY <1>0, <1>8, SpentStays DEF vars, Spent
    <2> QED BY <1>1, <1>8, <2>1 DEF vars
  <1> QED BY <1>2, <1>3, <1>4, <1>5, <1>6, <1>7, <1>8 DEF Next, Loop

\* A message that can be decoded is in the dead letter topic only after
\* MaxAttempts attempts have failed in each of MaxAttempts deliveries, however
\* its copies, restarts and rebalances interleave.
THEOREM NotGivenUpEarly == Spec => []DeadOnlyAfterAllAttempts
  <1>1. Spent => DeadOnlyAfterAllAttempts
    BY DEF Spent
  <1> QED BY <1>1, SpentInit, SpentStep, TypedAlways, PTL DEF Spec
=============================================================================
