# Dipole in TLA+

Dipole is an instant messaging platform: Go services over MySQL, Kafka and Redis, a web client with an
IndexedDB copy of the inbox, a C++ realtime data plane that is to replace the Go one, and a TypeScript agent
runtime. This directory models the path of a message, from the transaction that stores it to the browser that
reads it, the two pieces of shared Redis state that decide who delivers it live and to whom, and the attempt that
moves the delivery from one data plane to the other. TLC checks each part on small instances. TLAPS proves, for every
instance, each safety property that holds, and that the tables and the fence implement the two abstract promises:
a cursor is enough to read everything, and one data plane is authorised at a time. Liveness is left to TLC.

Run `tlc -config MCSyncInbox.cfg MCSyncInbox` for a model and `tlapm SyncInboxProofs.tla` for a proof. Every
configuration has the name of its module or of what it refutes.

## 1. The system

### The path of a message

    client -> gateway -> Kafka message.*.send_requested -> message service
        one MySQL transaction: conversation sequence, message, group head, [inbox rows], outbox row
    outbox relay  -> Kafka message.*.created -> sync projector   -> user_sync_inbox
                                             -> gateway delivery -> presence -> WebSocket
                                             -> search, Cassandra, push, agents
    web client: pull /sync after a cursor -> IndexedDB -> acknowledge -> device checkpoint

The inbox row, not the live frame, is what a client may rely on: a frame that is lost is repaired by the next pull.

### Components

| component | state | operations | what is hard | what makes it correct |
|---|---|---|---|---|
| message store (`internal/services/message`) | messages, sequences, group heads, outbox rows, inbox rows | store a message in one transaction; take the duplicate path | retries with a fresh uuid that race, row locks, positions allocated before they are visible | one message, one event and one row per client key; no holes in a conversation |
| sync service (`internal/services/sync`) | `user_sync_inbox`, `user_sync_states`, device and group checkpoints | project an event, list after a cursor, advance a checkpoint | commits in another order than allocation; two writers of one table | a reader with a cursor misses nothing |
| outbox relay (`message/infrastructure/kafka/outbox.go`) | the status, lease and retry time of a row | claim, publish, record | leases that lapse under a live relay, unfenced updates, ambiguous publishes | published means written; everything drains |
| Kafka consumer (`internal/platform/kafka`) | offsets, retry and dead letter topics | fetch, handle, transfer, commit | cumulative commits, restarts, several handlers | nothing is committed that was not handled or moved |
| web client (`frontend/src/sync`, `stores/chat.ts`) | IndexedDB rows, cursor and manifest; checkpoint on the server | recover, commit a page, evict, acknowledge, sign out | several tabs, lost acknowledgements, quota | rows up to the cursor are there or were evicted knowingly |
| delivery fence (`internal/realtime/delivery`, C++ `authority_fence`) | one Redis record, receipts | bootstrap, freeze, activate, renew, assert | racing and repeated operators, expiry | one authority per epoch, old processes stay out |
| hub and presence (`internal/transport/ws`, `internal/platform/presence`) | connections of a node, a hash and two sorted sets in Redis | register, touch, kick, unregister, count | three goroutines of a connection, two pipelines, one time to live for all fields | who is served is listed, who is gone vanishes |
| cutover controller (`internal/realtime/delivery/cutover_*.go`, `fence_observation*.go`) | ownership key, journal, artifacts, receipts, observations | advance, renew, roll back, observe, aggregate, confirm | crash between action and journal, ownership lost in the middle, commands of operators, redeployed nodes | the journal is true of the fence; nobody still delivers for the old plane when the new one is activated |
| gateway delivery (`delivery_authority.go`) | none of its own | assert, then deliver | time between check and use | part of the cutover |
| event routing (`pubsub_router.go`, `session_kick.go`) | none of its own | read the list, deliver, publish to nodes, dispatch | stale lists, lost messages, connections that are registering or leaving | what was listed and is still there is reached |
| group recovery (`groupSyncEngine.ts`, `recoverGroupMessages`) | group cursors next to the inbox cursor, rows in the same store | pull a group, hot or not, by its own numbers | two counters in one index, no sign-out waits for it | as for the web client |
| uploads (`multipartUpload.ts`, `core/domain/file`) | parts, leases between tabs | resume, complete | two tabs, lost completions | not modelled |
| storage routing (`internal/platform/storage`), Cassandra timeline, search | copies of messages | route, compare, upsert | stale copies | not modelled: idempotent upserts into external stores |
| conversation lists and read cursors (`core/domain/conversation`) | unread counts, read positions | update on an event, mark as read | events out of order | not modelled yet |
| core domain (users, contacts, groups, sessions) | MySQL rows | CRUD in one transaction each | few | not modelled |
| agent service and runtime | approvals, policies, event ledger, workflows | approve, lease, run | workflow engine | not modelled: a product line of its own, the control is mostly the engine's |
| operations, caches, rate limits, composition, generated code, benchmarks | jobs, keys | | | not modelled |

`PROJECT.json` repeats this list with its sources, and lists the hazards, each at the line where it bites.

## 2. The modules

| module | models | composes with |
|---|---|---|
| `Timeline` | the abstract promise: entries are only added on top of a user's timeline | implemented by `SyncInbox` |
| `SyncInbox` | the MySQL side of the message and the sync service | `OutboxRelay` carries its `outbox`; `SyncClient` starts from its promise |
| `OutboxRelay` | the relays of all instances over `outbox_events` | `Enqueue` is the row that `SyncInbox` commits |
| `KafkaConsumer` | one consumer group: main and retry topic, dead letters | `Produce` is `OutboxRelay!PublishSucceeds`; handlers are `SyncInbox!Receive` and `Project` |
| `SyncClient` | tabs over one IndexedDB store, the checkpoint, and recoveries of a group into that store | its inbox is one user's line of `Timeline` |
| `Authority` | the abstract promise: an authority is replaced by being frozen in the next epoch first | implemented by `DeliveryFence`, kept by `Cutover` |
| `DeliveryFence` | the fence record, its writer and its readers | an `Apply` is one step of `Authority` |
| `Cutover` | an attempt: journal, executor, controllers, commands, nodes and deliveries | its transitions of the fence are steps of `Authority` |
| `Presence` | the connections of one user, and what is routed to them | |

A module is not an instance of its neighbour: the interface is a promise that one side is shown to keep and the other
assumes. `SyncInbox` is handed every event any number of times and in any order, which is more than the relay and
the consumer do; `SyncClient` is given rows in the order of `sync_seq`, which is `NoSkippedRow`. Between the fence and the cutover the
interface is a module: `DeliveryFence` implements `Authority` although an `Apply` takes four round trips, and `Cutover`,
in which it takes one, makes no step that `Authority` does not have.

### SyncInbox

A worker is a goroutine with one transaction. `Receive` takes a request, `AllocateSequence` locks the sequence row,
`InsertMessage` waits for uncommitted rows of the same unique keys (`UniqueHolders`) as InnoDB does, `LockUser` and
`AppendRow` loop over the sorted recipients, `Commit` makes everything visible at once, `Abort` is any failure.
`DuplicateKey`, `ResolveDuplicate` and `IdempotencyConflict` are the path after error 1062. `Project` is the
consumer's side of the same loop. `nextSync` is not rolled back: AUTO_INCREMENT is not transactional.
The lookup of the stored message and `EnsureOutbox` are one step; `EnsureOutbox` is an insert that ignores a
duplicate, so that whatever happens between the two does not change its effect. A group in hot mode and an event
without fan-out are requests with an empty recipient set.

### OutboxRelay

`stale` says that `locked_at` is older than the lease, `waiting` that `next_retry_at` lies in the future: times are
replaced by what is decided from them. `LeaseOverrun` lets the lease run out under a relay that is still publishing.
`written`, `reclaims` and `ambiguous` are history. Kafka keeps what it has acknowledged: with `required_acks: one`
a leader that dies at once may not, and the outbox cannot know.

### KafkaConsumer

One partition per topic. `fetched` is the reader's position of this session, `committed` the group's. `Commit` moves
`committed` to the fetched offset whatever lies below it. `TransferFails` leaves the offset uncommitted and goes on to the
next message, as the code does. `Restart` covers death, shutdown and rebalance. Backoff between attempts is time only.

### SyncClient

Every action ends at an `await`; an IndexedDB transaction is one step. `recover` is `Start`, `Acked`, `List`,
`Commit`; `Evict` computes the rows that the two passes of `evictIfNeeded` remove. `Clear` waits for the run of its own tab,
and for nothing else. Tabs share a device id because `device.ts` keeps it in localStorage. `torn`, `stale`, `mixed`,
`evicted` and `everStored` are history. The rows of a user are dense here; gaps in `sync_seq` change no comparison.

The recovery of a group is `PullStart`, `PullList`, `PullCommit`, and `PullEnds` for whatever goes wrong. It reads by
`message_seq` and writes that number where the rows of the inbox have their `sync_seq`: `pulled` are the rows whose
number it is, and `Ahead` says how far the one counter, which all users share, has run ahead of the other, which one group
has. A message of the group is fanned out or not, as the detector of hot groups may decide, and counted in the group in
either case. The acknowledgement of a group page is left out: nothing reads that checkpoint back. One group is
modelled; its messages become visible in the inbox and in the group at the same time.

### DeliveryFence

`Apply` is four steps, each one round trip: `ReadReceipt`, `ReadFence`, `Swap`, with `Submit` or `Resubmit` before.
A request carries the record its operator saw where the code carries its SHA-256, and the record is its own hash. A
record may be over when it is written, then `PEXPIREAT` deletes it at once. Expiry may be late but never early. There is one
clock: skew between processes and Redis is not modelled. Redis does not lose acknowledged writes here. `A` is the
instance of `Authority`: `GrantOf` forgets the lease of the record, and `InForce` are the active records installed since
the last lapse.

### Cutover

One attempt. `journal` holds its events, `Order`, `Renewed`, `Accepts` and `After` are the projection; an action is
identified by the place its event would take and by the event, as in the code. `Transition` applies it to the fence or
finds its receipt, `Publish` writes the receipt as the action's artifact, `Capture` makes a proof from the observations
and publishes it, `Decide` publishes a decision, `Recall` finds the artifact of an earlier try, `AppendEvent` journals it, `Fail`
is any refusal, timeout or lost answer. A controller holds the ownership key, which may lapse while it is at work;
`Command` is an operator at a shell, who holds nothing. A node observes, is redeployed for another configuration, admits a
delivery under the fence and completes it later.

Abstractions. A record is numbered where the code hashes it. A turn of the loop prolongs the key and reads the journal
in one step (`Advance`). A proof is captured and published in one step: published late, it differs in its time only.
Times are counted in receipts and artifacts, and clocks agree. An observation of another epoch than the record's confirms nothing
and is left out. Zero lag means that nothing is in flight; a member that loses its partitions is not modelled. The
deadline of the freeze passes in the two states in which it is read. After a lapse of the record nothing can be
collected or changed any more; exploration stops there (`Held`), no property speaks of it, and the lapse itself is `DeliveryFence`'s subject.

### Presence

A Redis pipeline is a step, and a handler is cut at every pipeline. `Unregister` may run in the read goroutine and
in one that kicks. The write pump outlives `Close` until it writes.
`Route` is the router: it reads the list (or fails to, and uses its own hub), delivers to its own hub and puts a message per
other node on `wire`; `Dispatch` is a node's loop, `LoseMessage` a publication that fails, and a dead node loses what is under way to it. `owed`
are the connections that were listed for what is on the way. One request is on the way at a time, one kicker serves a client,
and whether a send queue is full is data. Time: a ping period (54 s) is less than half the time to
live (120 s), so that what a running pump touches does not expire; everything else may expire at once.

## 3. What is checked

| run | question | size |
|---|---|---|
| `sync_inbox` | may a reader miss, a retry duplicate, a failure tear or a fan-out deadlock? | 2 workers, 2 users, 2 conversations, 4 uuids, 5 positions: 519,097 states |
| `outbox_relay` | what do crashes, overruns and lost answers do to an event? | 3 rows, 2 relays, 3 faults: 227,342 states |
| `kafka_consumer` | what is lost, what circles, what is given up early? | 3 events, 2 handlers, 2 attempts, 2 faults: 823,839 states |
| `kafka_loss` | is nothing ever lost silently? No | violation |
| `delivery_fence` | can two data planes be authorised, an old one again, or a request twice? Is it an `Authority`? | 2 operators, 2 ids, 3 ticks: 3,465,369 states |
| `stale_epoch` | does an old epoch stay out for ever? No | violation |
| `cutover` | does the journal tell the truth, and does nobody deliver for the old plane under the new one? | 1 controller, 2 commands, 1 renewal, 1 gateway with 4 configurations: 1,683,328 states |
| `cutover_stranded` | can every rollback be renewed? No | violation |
| `sync_client` | do tabs, group pulls, evictions and sign-outs leave gaps? | 2 tabs, 1 pull, 3 conversations, 3 messages: 2,154,988 states |
| `client_clear` | does a sign-out never leave a gap? No | violation |
| `presence` | is the served listed and reached, the logged-out ended, the gone forgotten? | 2 connections, 2 nodes, 1 fault: 263,542 states |
| `presence_ghost` | does every ended connection vanish? No | violation |

The properties are stated in the modules, each with the behaviour it is about. The mutants in `PROJECT.json` are
plausible bugs (a missing `FOR UPDATE`, unsorted recipients, an autocommitted sequence, a last-writer-wins upsert,
acknowledging before committing, a heartbeat that only extends, a freeze without a new epoch, a second freeze
forgotten, an observation that is not bound to the node's own epoch, a router that looks at its own hub first) and each one makes its property fail.

**Bounds.** `sync_inbox`: two workers suffice for every pairwise race, and one writes the inbox atomically while
the other projects, so both kinds meet; four uuids give a retry, a conflict and an independent message; five
positions let both messages reach both users with one position burnt by a rollback. `outbox_relay`: a batch of two
over three rows, the first one poisonous, so that batches differ and a lease can lapse in the middle. `kafka_consumer`: two attempts
make four tries over two topics, and two faults combine a failed transfer with a restart. `delivery_fence`: three
transitions are what a complete exchange takes (bootstrap, freeze, activate), with a clock long enough for a lapse and a new
bootstrap; the receipt lives exactly as long as the longest lease, the least the configuration allows. `cutover`:
one renewal and two commands beside the controller are two actors who act on one place of the journal, and any two of
a late freeze, two commands and a renewal meet, not three of them (`CONSTRAINT TwoTroubles`); the gateway has
the configurations of before, of the target, and of both ways back; the C++ node stays as it is and is left to
`cutover_stranded`. `sync_client`: the store holds two rows for three conversations, so that both passes of the eviction are
needed; three messages make two pages, and `Ahead` is so large that the two counters never meet;
a run fails or a user signs out, not both (`CONSTRAINT OneTrouble`). `presence`: two
connections on two nodes, of which one routes, are what the shared time to live, the shared key and the way from node to node need.

**Symmetry** is used only where no property is about liveness and the sets are interchangeable: operators and ids, tabs and
conversations.

**Fairness.** Safety properties assume none. `OutboxRelay`: a relay's ticker keeps firing and its goroutine runs
(weak fairness of claiming and of working off a batch), clocks advance, and nothing makes a call succeed or a process die.
`KafkaConsumer`: the loop of a topic keeps running; a handler may fail for ever. `Presence`: goroutines that can run do,
the ping timer fires, the read of a closed connection returns, a node takes what arrives, and Redis expires keys; nobody has to connect, leave or be kicked.
Fault counters are bounded by `MaxFaults`, which is what "when the faults are over" means. `CHECK_DEADLOCK FALSE` stands where
a bounded system comes to its end: all events consumed, all connections gone.

### What the five violations show

1. `kafka_loss` (`consumer.go:312`): a failed transfer is not committed, but the next message's commit covers it.
   `docs/data/KAFKA-EVENT-CONTRACT.md:82` promises the opposite. What does hold is `LossIsAccountedFor`.
2. `stale_epoch` (`fence_writer.go:265`): when the record lapses, epochs begin again with 1, and a process of the
   first epoch is authorised again. `StaleStaysOutUntilLapse` holds.
3. `cutover_stranded` (`cutover_production_executor.go:395`): after a freeze that lasted too long the rollback is
   requested, the lease is renewed on the frozen fence, and the receipt is refused because the executor expects an active record in
   that state. The fence is one record ahead of the journal for good. `contracts/realtime-delivery-fence/v1/README.md:64`
   says that renewals keep such a rollback going. `AtMostOneAhead` and `JournalIsTrue` hold.
4. `client_clear` (`chat.ts:168`): a sign-out waits for its own tab only. `GapsAreTorn` says that this, and a group
   recovery that no sign-out waits for, is the only way a gap arises.
5. `presence_ghost` (`client.go:179`): the write pump of an ended connection touches its presence once more, and other
   connections of the user keep it alive. `QuietUserVanishes` holds.

### Seen while modelling

Without a run of their own, from reading and from traces:

- **Eviction and the two counters** (`indexedDBSyncStore.ts:235`). `NewestKept` excludes `mixed`, and fails without that:
  a group is pulled, its newest row gets a small number, then an inbox page brings an older row of the group again with
  its large `sync_seq`, and the newest is evicted before it. It takes an inbox recovery that failed or is late while the
  group recovery went through.
- **Renewal in `rollback_frozen_confirmed`** (`cutover_attempt.go`). A renewal leads back to `rollback_freeze_applied`
  even if there was no second freeze; confirmed again, the attempt then expects an epoch that the fence never had, and
  the source cannot be reactivated. The receipt of such a renewal is refused in the same way as in 3.
- **Repeating is not always enough.** A renewal that was applied while its answer was lost, with another event journaled
  at its place since, leaves the fence ahead of the journal; so does a crash after the target's activation when the deadline turns the
  next action into a rollback. `Append` does not compare the place an action was derived for with the place its
  event takes, and an artifact under another place is not found again.
- **In flight on the way back.** The contract waits for deliveries in flight; the manifest of the source cannot list C++
  nodes, so that on a rollback theirs are not waited for. `DrainedBeforeActivation` is about the listed nodes.

## 4. What is proved

| theorem | statement |
|---|---|
| `SyncInboxProofs!TypeCorrect` | `Spec => [](TypeOK /\ CurOK)` |
| `SyncInboxProofs!NothingSkipped` | `Spec => []NoSkippedRow` |
| `SyncInboxProofs!ImplementsTimeline` | `Spec => TimelineSpec`: the tables refine the abstract timelines |
| `SyncInboxProofs!StoredOnce`, `NoDanglingLocator` | `Spec => []ExactlyOnceStore`, `Spec => []Hydratable` |
| `SyncInboxProofs!GaplessHeads` | `Spec => []ConversationHeads` |
| `SyncInboxProofs!NoCircle` | `Spec => []NoWaitCycle`: the locks are taken in one order |
| `OutboxRelayProofs!TypeCorrect` | `Spec => []TypeOK` |
| `OutboxRelayProofs!PublishedWritten`, `CopiesPaidFor` | `Spec => []PublishedWasWritten`, `Spec => []DuplicatesArePaidFor` |
| `OutboxRelayProofs!PublishedIsFinal` | `Spec => PublishedIsFinalUnlessReclaimed`, an action property |
| `KafkaConsumerProofs!TypeCorrect` | `Spec => []TypeOK` |
| `KafkaConsumerProofs!NothingLostSilently` | `Spec => []LossIsAccountedFor` |
| `KafkaConsumerProofs!NotGivenUpEarly` | `Spec => []DeadOnlyAfterAllAttempts` |
| `SyncClientProofs!TypeCorrect` | `Spec => []TypeOK`: an eviction brings the store under its high water mark |
| `SyncClientProofs!ManifestSays` | `Spec => []ManifestIsTrue` |
| `SyncClientProofs!Acknowledged` | `Spec => []AckedIsDurable` |
| `SyncClientProofs!OnlyTornGaps` | `Spec => []GapsAreTorn` |
| `SyncClientProofs!NewestStored` | `Spec => []NewestKept` |
| `SyncClientProofs!NeverBack`, `Complete` | `Spec => CursorsNeverBack`, `Spec => FinishedRunIsComplete`, action properties |
| `DeliveryFenceProofs!TypeCorrect` | `Spec => []TypeOK` |
| `DeliveryFenceProofs!OneAuthority`, `StaleOut` | `Spec => []OneAuthorityPerEpoch`, `Spec => []StaleStaysOutUntilLapse` |
| `DeliveryFenceProofs!ImplementsAuthority` | `Spec => AuthoritySpec`: the writer refines the abstract authority |
| `DeliveryFenceProofs!NeverTwice`, `OwnSuccess` | `Spec => []AppliedOnce`, `Spec => []SuccessIsOwn` |
| `CutoverProofs!TypeCorrect` | `Spec => []TypeOK`: in particular no record of a fourth epoch |
| `CutoverProofs!OneAhead`, `TrueJournal` | `Spec => []AtMostOneAhead`, `Spec => []JournalIsTrue` |
| `CutoverProofs!DrainedFirst` | `Spec => []DrainedBeforeActivation` |
| `CutoverProofs!FenceMoves` | `Spec => AuthorityMoves`: each step is one of the next-state relation of `Authority` |
| `PresenceProofs!TypeCorrect`, `ListedIsReached` | `Spec => []TypeOK`, `Spec => []ReachesListed` |
| `PromiseProofs!CursorIsEnough` | `TLSpec => []Complete`: what was read is what lies below the cursor |
| `PromiseProofs!OneGrantPerEpoch` | `ASpec => []OnePerEpoch` |

Each holds for all values of the constants under the named assumptions of its module alone. These say that constants
have their types, and otherwise: users are numbers and finitely many, so that they can be sorted and counted
(`SyncInboxAssumption`; likewise the rows in `OutboxAssumption`); a page or a batch is not empty, there is a handler and
an attempt; the low water mark lies below the high one and leaves room for one conversation's share (`ClientAssumption`);
a receipt outlives every lease (`FenceAssumption`, what the configuration requires); controllers and operators are
different processes, the two planes are different, and nodes are deployed as one of their configurations (`CutoverAssumption`); `None` is none of the records it
stands in for (the two `NoneAssumption`s). The models' bounds (faults, positions, epochs of the fence, commands, renewals) are constants, so the
theorems hold for each value of them.

### Why they hold

Hardly any of the properties is inductive. What follows names the strengthenings as the proofs do; those of `Cutover` were
run by TLC on a small instance before they were proved.

**SyncInbox.** `NoSkippedRow` says nothing of positions that were allocated and are not visible. *Pending*: a worker that
has uncommitted rows of a user, or is about to append one, holds that user's lock, so nobody else has one, and its positions
lie above every visible one of that user. *Visible*: no visible position exceeds the counter, and a cursor stands on a
visible row. So a commit adds rows above what any reader of that user has seen, and a page leaves nothing unread
below its end. The refinement uses the same invariant: a commit is one `Publish` for all recipients, a page is one
`Read`, the rest stutters. For `ExactlyOnceStore` and `Hydratable`, *Transactions* says of a worker between insert and commit that its
message is new to the table and to the others and bears the next number of its locked conversation, and of one that resolved a
duplicate or projects that what it refers to is stored. For `ConversationHeads`, a conversation has as many messages as
its last number (*Head*). For `NoWaitCycle`, every lock a worker holds lies below what it still wants (*LockInv*), so
that in a circle, or any finite set in which everyone waits for another, the holder of the greatest user would wait for a greater one.

**OutboxRelay.** `DuplicatesArePaidFor` does not say who may still write. *Budget* counts the relays that are entitled
to write an event and a row that can be claimed for the first time together with the copies: the sum grows only with
a lapsed lease or a lost acknowledgement. *Verdicts* says that a relay records as published what was acknowledged.

**KafkaConsumer.** An offset covers everything below it, so what the session has fetched must be accounted for
before the commit that covers it (*Progress*); of the message in work, the handlers before the next one have succeeded.
*Spent* says that a copy has the failures of all its earlier stages behind it; they are only counted up.

**SyncClient.** *Durably*: every number that may become the checkpoint (an acknowledgement on its way, the stored
cursor, a tab's cursor) stands for committed rows. *NotAhead*: no run or pull is ahead of the stored cursor
unless there was a sign-out since it began; so a page that tears a gap is one from before a sign-out. *Reached*: a run that has
seen the last page is behind nothing that was there when it began. For `NewestKept` the rows are ranked: an eviction of the first k in
a strict order of a finite set removes k rows, spares the newest of each conversation as long as the spared ones
fit under the low water mark, and within a conversation both counters give the order of the messages while they are not mixed (*Apart*).

**DeliveryFence.** *Working*: an operator about to write holds a request that was validated and permitted on the record it
expects. *Placed*: what took effect since the last lapse lies at or below the record in force, an active one in its epoch has its
authority, and an active record has taken effect. A bootstrap finds nothing before it, a freeze opens an epoch above
everything, an activation finds its epoch frozen, a renewal changes neither. `AppliedOnce` needs time (*Once*): a
request is written only while its deadline is at most a lease away, its receipt is kept at least that long, and where the
receipt is gone, what a repetition would write is over already.

**Cutover.** The records first. *FenceMade*, *Distinct*, *Published*: the fence is the newest record, no two records bear one
number or were made for one action, and artifacts are receipts. With them `AuthorityMoves` is a matter of the transition, and
`DrainedBeforeActivation` follows from *Confirmed*: who confirmed a record is configured for its epoch, and what it
delivers it was admitted to in the epoch it is configured for. Then the journal. *Journaled*, *Onward*: every event was accepted
where it stands, and the attempt never goes back a stage, so that a switch of the fence is journaled at one place at most.
*Unsaid*: what no switch changed is said still. *Levels* joins the two: the record of an action derived at place k bears the number 2 + (lease
events before k), and its fields are those that the journal said at k, changed by the event. It is preserved because the record
to be replaced is looked up from the newest lease event before k, and only if that one is in force. `AtMostOneAhead` is its first half.
For `JournalIsTrue`: no switch was journaled at or after the place of the newest record but by the action that made it. The record of such a switch
would have a lower number, hence was derived earlier; an action that was derived after it counted the place in between, which
some record was made for, and the switch would have been journaled a second time. `TypeOK` comes last: that the epoch stays below four
needs all of it, since only the journal knows how often the fence was frozen.

**Presence.** A connection that is leaving is out of its hub, and nobody puts it there again (*Steps*); one that is owed something
and is in its hub has a message on the way to its node that is about it (*Routed*), which needs that nobody is owed or listed who has not begun.

**Only model-checked.** Liveness (`Drained`, `EventuallySettled`, `ServedIsListedAgain`, `LogoutEnds`,
`QuietUserVanishes`): the prover has no rule for ENABLED and fairness. The five expected violations are counterexamples, for which there is
nothing to prove.

### Seen while proving

- `NewestKept` needs that the spared rows fit: more conversations than `LowWater / MinPerConversation`, and the second pass
  of an eviction takes the newest row of one. The property says so (`evictIfNeeded`).
- Two actors may append one and the same renewal at two places, with one receipt between them. The newest journaled
  receipt may then be two records behind the fence, while the count of journaled lease events is at most one behind:
  `AtMostOneAhead` is stated over the count.

## 5. Not modelled

Components without a module are listed with the reason in `PROJECT.json`; most of the repository's lines are in them: generated
stubs, the agent product line with its workflow engine, CRUD in single transactions, wiring and benchmarks. Within the
modelled ones: the reading of old pages and of files, the AI reply path (the same transaction), the contents of messages,
clock skew, Redis and Kafka losing acknowledged data, several partitions (their offsets are independent, and `SyncInbox`
takes events in any order), several users of one browser (the store is keyed by user), the comparison with the legacy
offline pull, the suppression of repeated live frames (`claimDelivery`), targeted delivery with its queue depths, the
inspection of consumer groups behind a checkpoint, how the heat of a group is measured.

## 6. Plan

The safety properties of all runs have their theorems. What is left, in the order of what it would say about the system:

1. A composition of `OutboxRelay`, `KafkaConsumer` and the projector: a stored message reaches the inbox of each recipient, at
   least once in Kafka and exactly once in the table.
2. The parts of the core domain that take several steps: conversation lists and read cursors under events out of
   order, uploads between tabs.
3. Storage routing with its shadow comparison, approvals and leases of the agent service.
