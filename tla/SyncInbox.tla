----------------------------- MODULE SyncInbox -----------------------------
(***************************************************************************)
(* The MySQL side of the message service and of the sync service: the      *)
(* transaction that stores a message, the duplicate path a redelivered or  *)
(* retried request takes, the sync projector, and a reader that pulls its  *)
(* inbox with a cursor.                                                    *)
(*                                                                         *)
(* A worker is a goroutine with one open transaction.  What it wrote is    *)
(* kept in per-worker variables until Commit; row locks (SELECT ... FOR    *)
(* UPDATE) are held until Commit or Abort, and the AUTO_INCREMENT counter  *)
(* behind sync_seq is not transactional, which is why a position can be    *)
(* allocated long before it becomes visible.                               *)
(***************************************************************************)
EXTENDS Naturals, FiniteSets

CONSTANTS
    Users,           \* user uuids; numbers, since they are compared when sorted
    Conversations,
    Groups,          \* the conversations that have a group_sync_states row
    Uuids,           \* message uuids; every attempt of a client has its own
    ConvOf,          \* the conversation a message is addressed to
    KeyOf,           \* (sender, client_message_id) of a message
    RecipientsOf,    \* the recipient sets a request for a message may carry
    Workers,
    AtomicWriters,   \* message workers configured to write the inbox themselves
    Projectors,      \* workers that consume message.created and write the inbox
    PageSize,        \* limit of one sync page
    MaxSync,         \* bound on sync_seq
    None

ASSUME SyncInboxAssumption ==
    /\ Users \subseteq Nat /\ IsFiniteSet(Users)
    /\ Groups \subseteq Conversations
    /\ ConvOf \in [Uuids -> Conversations]
    /\ RecipientsOf \in [Uuids -> SUBSET SUBSET Users]
    /\ AtomicWriters \subseteq Workers /\ Projectors \subseteq Workers
    /\ PageSize \in Nat \ {0} /\ MaxSync \in Nat
    /\ None \notin Workers

VARIABLES
    lastSeq,      \* conversation_sequences.last_seq
    groupLatest,  \* group_sync_states.latest_message_seq
    messages,     \* messages and message_metadata
    outbox,       \* outbox_events: the message.created events
    inbox,        \* user_sync_inbox
    nextSync,     \* its AUTO_INCREMENT counter
    convLock,     \* who holds the row lock of a conversation sequence
    userLock,     \* who holds the row lock of a user's sync state
    pc,           \* where a worker is
    cur,          \* the message it works on
    to,           \* the recipients it was given
    seq,          \* the conversation sequence of that message
    storing,      \* whether its transaction inserted the message
    todo,         \* recipients it has not appended to yet
    rows,         \* inbox rows it inserted and has not committed
    cursor,       \* the sync cursor of a reader
    seen          \* what the reader was given

tables == <<lastSeq, groupLatest, messages, outbox, inbox>>
locks == <<convLock, userLock>>
readers == <<cursor, seen>>
vars == <<tables, nextSync, locks, pc, cur, to, seq, storing, todo, rows, readers>>

Row == [user : Users, uuid : Uuids, seq : Nat, sync : Nat]
Message == [uuid : Uuids, seq : Nat]
Event == [uuid : Uuids, seq : Nat, to : SUBSET Users]

TypeOK ==
    /\ lastSeq \in [Conversations -> Nat]
    /\ groupLatest \in [Groups -> Nat]
    /\ messages \in SUBSET Message
    /\ outbox \in SUBSET Event
    /\ inbox \in SUBSET Row
    /\ nextSync \in Nat
    /\ convLock \in [Conversations -> Workers \cup {None}]
    /\ userLock \in [Users -> Workers \cup {None}]
    /\ pc \in [Workers -> {"idle", "allocate", "insert", "fanout", "append", "duplicate"}]
    /\ cur \in [Workers -> Uuids \cup {None}]
    /\ to \in [Workers -> SUBSET Users]
    /\ seq \in [Workers -> Nat]
    /\ storing \in [Workers -> BOOLEAN]
    /\ todo \in [Workers -> SUBSET Users]
    /\ rows \in [Workers -> SUBSET Row]
    /\ cursor \in [Users -> Nat]
    /\ seen \in [Users -> SUBSET Row]

Init ==
    /\ lastSeq = [c \in Conversations |-> 0]
    /\ groupLatest = [g \in Groups |-> 0]
    /\ messages = {} /\ outbox = {} /\ inbox = {}
    /\ nextSync = 0
    /\ convLock = [c \in Conversations |-> None]
    /\ userLock = [u \in Users |-> None]
    /\ pc = [w \in Workers |-> "idle"]
    /\ cur = [w \in Workers |-> None]
    /\ to = [w \in Workers |-> {}]
    /\ seq = [w \in Workers |-> 0]
    /\ storing = [w \in Workers |-> FALSE]
    /\ todo = [w \in Workers |-> {}]
    /\ rows = [w \in Workers |-> {}]
    /\ cursor = [u \in Users |-> 0]
    /\ seen = [u \in Users |-> {}]

-----------------------------------------------------------------------------
(* Helpers *)

SameKey(m, n) == m = n \/ KeyOf[m] = KeyOf[n]

\* Variant: an insert does not wait for uncommitted rows of the same key.
NoUniqueWait(w) == {}

\* An insert waits while another transaction holds an uncommitted row with the
\* same uuid or the same (sender, client_message_id).
UniqueHolders(w) ==
    {v \in Workers \ {w} : storing[v] /\ SameKey(cur[v], cur[w])}

\* Variant: recipients are taken in the order of the request, not sorted.
AnyUser(w, u) == u \in todo[w]

\* Recipients are locked and appended to in ascending order.
NextUser(w, u) == u \in todo[w] /\ \A v \in todo[w] : u <= v

\* Everything a transaction held and had not made durable is gone.
Release(w) ==
    /\ convLock' = [c \in Conversations |-> IF convLock[c] = w THEN None ELSE convLock[c]]
    /\ userLock' = [u \in Users |-> IF userLock[u] = w THEN None ELSE userLock[u]]
    /\ rows' = [rows EXCEPT ![w] = {}]
    /\ todo' = [todo EXCEPT ![w] = {}]
    /\ storing' = [storing EXCEPT ![w] = FALSE]

\* The handler returns.
Return(w) ==
    /\ pc' = [pc EXCEPT ![w] = "idle"]
    /\ cur' = [cur EXCEPT ![w] = None]
    /\ to' = [to EXCEPT ![w] = {}]
    /\ seq' = [seq EXCEPT ![w] = 0]

AddEvent(e) == outbox' = IF \E o \in outbox : o.uuid = e.uuid THEN outbox ELSE outbox \cup {e}

-----------------------------------------------------------------------------
(* The transaction that stores a message *)

\* A send_requested event is handed to the persistence handler.
Receive(w) ==
    /\ pc[w] = "idle"
    /\ \E m \in Uuids : \E r \in RecipientsOf[m] :
          /\ cur' = [cur EXCEPT ![w] = m]
          /\ to' = [to EXCEPT ![w] = r]
    /\ pc' = [pc EXCEPT ![w] = "allocate"]
    /\ UNCHANGED <<tables, nextSync, locks, seq, storing, todo, rows, readers>>

\* Variant: the advance is committed on its own, before the message.
AllocateAutocommit(w) ==
    /\ pc[w] = "allocate"
    /\ convLock[ConvOf[cur[w]]] = None
    /\ seq' = [seq EXCEPT ![w] = lastSeq[ConvOf[cur[w]]] + 1]
    /\ lastSeq' = [lastSeq EXCEPT ![ConvOf[cur[w]]] = @ + 1]
    /\ pc' = [pc EXCEPT ![w] = "insert"]
    /\ UNCHANGED <<groupLatest, messages, outbox, inbox, nextSync, locks, cur, to,
                   storing, todo, rows, readers>>

\* Variant: the row holds the next sequence, and the last one is computed from it.
AllocateUnderflow(w) ==
    /\ pc[w] = "allocate"
    /\ convLock[ConvOf[cur[w]]] = None
    /\ convLock' = [convLock EXCEPT ![ConvOf[cur[w]]] = w]
    /\ seq' = [seq EXCEPT ![w] = lastSeq[ConvOf[cur[w]]] - 1]
    /\ pc' = [pc EXCEPT ![w] = "insert"]
    /\ UNCHANGED <<tables, nextSync, userLock, cur, to, storing, todo, rows, readers>>

\* The sequence row is locked until the transaction ends; the advance itself is
\* part of the transaction and becomes durable in Commit.
AllocateSequence(w) ==
    /\ pc[w] = "allocate"
    /\ convLock[ConvOf[cur[w]]] = None
    /\ convLock' = [convLock EXCEPT ![ConvOf[cur[w]]] = w]
    /\ seq' = [seq EXCEPT ![w] = lastSeq[ConvOf[cur[w]]] + 1]
    /\ pc' = [pc EXCEPT ![w] = "insert"]
    /\ UNCHANGED <<tables, nextSync, userLock, cur, to, storing, todo, rows, readers>>

InsertMessage(w) ==
    /\ pc[w] = "insert"
    /\ UniqueHolders(w) = {}
    /\ \A m \in messages : ~SameKey(m.uuid, cur[w])
    /\ storing' = [storing EXCEPT ![w] = TRUE]
    /\ todo' = [todo EXCEPT ![w] = IF w \in AtomicWriters THEN to[w] ELSE {}]
    /\ pc' = [pc EXCEPT ![w] = "fanout"]
    /\ UNCHANGED <<tables, nextSync, locks, cur, to, seq, rows, readers>>

\* Error 1062: the transaction is rolled back and the duplicate path is taken.
DuplicateKey(w) ==
    /\ pc[w] = "insert"
    /\ UniqueHolders(w) = {}
    /\ \E m \in messages : SameKey(m.uuid, cur[w])
    /\ Release(w)
    /\ pc' = [pc EXCEPT ![w] = "duplicate"]
    /\ UNCHANGED <<tables, nextSync, cur, to, seq, readers>>

\* Variant: the event and the rows are ensured under the retry's own uuid.
ResolveUnderFreshUuid(w) ==
    /\ pc[w] = "duplicate"
    /\ \E m \in messages :
          /\ SameKey(m.uuid, cur[w])
          /\ ConvOf[m.uuid] = ConvOf[cur[w]]
          /\ AddEvent([uuid |-> cur[w], seq |-> m.seq, to |-> to[w]])
          /\ Return(w)
    /\ UNCHANGED <<lastSeq, groupLatest, messages, inbox, nextSync, locks,
                   storing, todo, rows, readers>>

\* The stored message is looked up again; its outbox event and, for an atomic
\* writer, its inbox rows are ensured.
ResolveDuplicate(w) ==
    /\ pc[w] = "duplicate"
    /\ \E m \in messages :
          /\ SameKey(m.uuid, cur[w])
          /\ ConvOf[m.uuid] = ConvOf[cur[w]]
          /\ AddEvent([uuid |-> m.uuid, seq |-> m.seq, to |-> to[w]])
          /\ IF w \in AtomicWriters
             THEN /\ cur' = [cur EXCEPT ![w] = m.uuid]
                  /\ seq' = [seq EXCEPT ![w] = m.seq]
                  /\ todo' = [todo EXCEPT ![w] = to[w]]
                  /\ pc' = [pc EXCEPT ![w] = "fanout"]
                  /\ UNCHANGED to
             ELSE Return(w) /\ UNCHANGED todo
    /\ UNCHANGED <<lastSeq, groupLatest, messages, inbox, nextSync, locks,
                   storing, rows, readers>>

\* The same client key was used for another conversation.
IdempotencyConflict(w) ==
    /\ pc[w] = "duplicate"
    /\ \E m \in messages : SameKey(m.uuid, cur[w]) /\ ConvOf[m.uuid] # ConvOf[cur[w]]
    /\ Return(w)
    /\ UNCHANGED <<tables, nextSync, locks, storing, todo, rows, readers>>

-----------------------------------------------------------------------------
(* The fan-out to the inboxes, shared by the message transaction, the      *)
(* duplicate path and the sync projector                                   *)

\* A message.created event reaches the projector; at least once, in any order.
Project(w) ==
    /\ pc[w] = "idle"
    /\ w \in Projectors
    /\ \E e \in outbox :
          /\ cur' = [cur EXCEPT ![w] = e.uuid]
          /\ seq' = [seq EXCEPT ![w] = e.seq]
          /\ to' = [to EXCEPT ![w] = e.to]
          /\ todo' = [todo EXCEPT ![w] = e.to]
    /\ pc' = [pc EXCEPT ![w] = "fanout"]
    /\ UNCHANGED <<tables, nextSync, locks, storing, rows, readers>>

\* Variant: the sync state row is read without FOR UPDATE.
ReadUserUnlocked(w) ==
    /\ pc[w] = "fanout"
    /\ \E u \in Users : NextUser(w, u)
    /\ pc' = [pc EXCEPT ![w] = "append"]
    /\ UNCHANGED <<tables, nextSync, locks, cur, to, seq, storing, todo, rows, readers>>

LockUser(w) ==
    /\ pc[w] = "fanout"
    /\ \E u \in Users :
          /\ NextUser(w, u)
          /\ userLock[u] = None
          /\ userLock' = [userLock EXCEPT ![u] = w]
    /\ pc' = [pc EXCEPT ![w] = "append"]
    /\ UNCHANGED <<tables, nextSync, convLock, cur, to, seq, storing, todo, rows, readers>>

\* INSERT ... ON DUPLICATE KEY: the same locator again is a no-op that burns a
\* position, another locator under one of the unique keys fails the statement.
AppendRow(w) ==
    /\ pc[w] = "append"
    /\ nextSync < MaxSync
    /\ nextSync' = nextSync + 1
    /\ \E u \in Users :
          LET rival == {r \in inbox : /\ r.user = u
                                      /\ \/ r.uuid = cur[w]
                                         \/ /\ ConvOf[r.uuid] = ConvOf[cur[w]]
                                            /\ r.seq = seq[w]}
          IN  /\ NextUser(w, u)
              /\ \A r \in rival : r.uuid = cur[w] /\ r.seq = seq[w]
              /\ rows' = [rows EXCEPT ![w] = @ \cup
                            IF rival = {}
                            THEN {[user |-> u, uuid |-> cur[w], seq |-> seq[w],
                                   sync |-> nextSync + 1]}
                            ELSE {}]
              /\ todo' = [todo EXCEPT ![w] = @ \ {u}]
    /\ pc' = [pc EXCEPT ![w] = "fanout"]
    /\ UNCHANGED <<tables, locks, cur, to, seq, storing, readers>>

Commit(w) ==
    /\ pc[w] = "fanout" /\ todo[w] = {}
    /\ inbox' = inbox \cup rows[w]
    /\ IF storing[w]
       THEN LET c == ConvOf[cur[w]]
            IN  /\ messages' = messages \cup {[uuid |-> cur[w], seq |-> seq[w]]}
                /\ lastSeq' = [lastSeq EXCEPT ![c] = seq[w]]
                /\ groupLatest' = [g \in Groups |->
                                     IF g = c /\ groupLatest[g] < seq[w]
                                     THEN seq[w] ELSE groupLatest[g]]
                /\ AddEvent([uuid |-> cur[w], seq |-> seq[w], to |-> to[w]])
       ELSE UNCHANGED <<messages, lastSeq, groupLatest, outbox>>
    /\ Release(w) /\ Return(w)
    /\ UNCHANGED <<nextSync, readers>>

\* A statement fails, a lock wait times out or the process dies: the
\* transaction is rolled back and the event will be delivered again.
Abort(w) ==
    /\ pc[w] # "idle"
    /\ Release(w) /\ Return(w)
    /\ UNCHANGED <<tables, nextSync, readers>>

-----------------------------------------------------------------------------
(* The reader *)

\* Variant: the cursor is taken for the first position not yet read.
UnreadFromNext(u) == {r \in inbox : r.user = u /\ cursor[u] + 1 < r.sync}

Unread(u) == {r \in inbox : r.user = u /\ cursor[u] < r.sync}

PageUpTo(u, last) == {r \in Unread(u) : r.sync <= last.sync}

\* One page: committed rows above the cursor in ascending order, hydrated by
\* their locators; a locator without its message fails the whole page.
ListPage(u) ==
    /\ \E last \in Unread(u) :
          LET page == PageUpTo(u, last)
          IN  /\ Cardinality(page) <= PageSize
              /\ page = Unread(u) \/ Cardinality(page) = PageSize
              /\ \A r \in page : [uuid |-> r.uuid, seq |-> r.seq] \in messages
              /\ cursor' = [cursor EXCEPT ![u] = last.sync]
              /\ seen' = [seen EXCEPT ![u] = @ \cup page]
    /\ UNCHANGED <<tables, nextSync, locks, pc, cur, to, seq, storing, todo, rows>>

Work(w) ==
    \/ Receive(w) \/ AllocateSequence(w) \/ InsertMessage(w)
    \/ DuplicateKey(w) \/ ResolveDuplicate(w) \/ IdempotencyConflict(w)
    \/ Project(w) \/ LockUser(w) \/ AppendRow(w) \/ Commit(w) \/ Abort(w)

Next ==
    \/ \E w \in Workers : Work(w)
    \/ \E u \in Users : ListPage(u)

Spec == Init /\ [][Next]_vars

-----------------------------------------------------------------------------
(* Properties *)

\* A reader that only remembers its cursor never misses a row: whatever is
\* visible at or below the cursor of a user has been given to that user.  The
\* cursor is compared with positions allocated by concurrent transactions that
\* commit in any order (sync_repository ListByUserAfter, LockUserSyncState).
NoSkippedRow ==
    \A r \in inbox : r.sync <= cursor[r.user] => r \in seen[r.user]

\* A client key is stored once however often it is retried with a fresh uuid,
\* redelivered or raced: one message, one message.created event, and at most
\* one inbox row for a recipient (storeWithSync and the duplicate path).
ExactlyOnceStore ==
    /\ \A m, n \in messages : SameKey(m.uuid, n.uuid) => m = n
    /\ \A m \in messages : \E e \in outbox : e.uuid = m.uuid
    /\ \A e, f \in outbox : SameKey(e.uuid, f.uuid) => e = f
    /\ \A r, s \in inbox : r.user = s.user /\ SameKey(r.uuid, s.uuid) => r = s

\* The stored messages of a conversation are numbered 1..last_seq without a gap
\* or a repetition although transactions fail after they took a number, and a
\* group's head is the last of them (allocateConversationSequence).
ConversationHeads ==
    \A c \in Conversations :
        LET stored == {m \in messages : ConvOf[m.uuid] = c}
        IN  /\ {m.seq : m \in stored} = 1..lastSeq[c]
            /\ Cardinality(stored) = lastSeq[c]
            /\ c \in Groups => groupLatest[c] = lastSeq[c]

\* Every row and every event carries the locator of a message that is really
\* stored, so that hydrating a page cannot fail (sync_hydrator Hydrate).
Hydratable ==
    /\ \A r \in inbox : [uuid |-> r.uuid, seq |-> r.seq] \in messages
    /\ \A e \in outbox : [uuid |-> e.uuid, seq |-> e.seq] \in messages

\* Whom a worker waits for: the holder of the sequence row, a transaction with
\* an uncommitted row of the same unique key, the holder of a sync state row.
WaitsFor(w) ==
    CASE pc[w] = "allocate" -> {convLock[ConvOf[cur[w]]]} \ {None}
      [] pc[w] = "insert"   -> UniqueHolders(w)
      [] pc[w] = "fanout"   -> {userLock[u] : u \in {v \in Users : NextUser(w, v)}} \ {None}
      [] OTHER              -> {}

\* No transactions wait for each other in a circle, so that InnoDB's deadlock
\* detector has nothing to roll back (uniqueSortedSQLCUUIDs and the order
\* sequence row, message row, user rows).
NoWaitCycle ==
    ~ \E ring \in (SUBSET Workers) \ {{}} :
          \A w \in ring : WaitsFor(w) \cap ring # {}

\* The abstract timelines: the rows of a user, positions being sync_seq.
T == INSTANCE Timeline WITH
        Entries <- Uuids,
        line <- [u \in Users |-> {<<r.sync, r.uuid>> : r \in {q \in inbox : q.user = u}}],
        cursor <- cursor,
        seen <- [u \in Users |-> {<<r.sync, r.uuid>> : r \in seen[u]}]

\* The tables implement the timelines: a commit puts a message at the top of all
\* its recipients' timelines at once, and a page is everything between two
\* positions.
TimelineSpec == T!TLSpec
=============================================================================
