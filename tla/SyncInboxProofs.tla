-------------------------- MODULE SyncInboxProofs --------------------------
(***************************************************************************)
(* Proofs about SyncInbox for any users, messages and workers: its type    *)
(* invariant, that a reader skips no row, that it implements Timeline,     *)
(* that a message is stored once and every locator finds one, that a       *)
(* conversation has no gap, and that no workers wait in a circle.          *)
(***************************************************************************)
EXTENDS SyncInbox, FiniteSetTheorems, TLAPS

-----------------------------------------------------------------------------
(* Type correctness *)

USE SyncInboxAssumption DEF SyncInboxAssumption

LEMMA TypeInit == Init => TypeOK
  BY DEF Init, TypeOK

LEMMA TypeRelease ==
  ASSUME TypeOK, NEW w \in Workers, Release(w)
  PROVE  /\ convLock' \in [Conversations -> Workers \cup {None}]
         /\ userLock' \in [Users -> Workers \cup {None}]
         /\ rows' \in [Workers -> SUBSET Row]
         /\ todo' \in [Workers -> SUBSET Users]
         /\ storing' \in [Workers -> BOOLEAN]
  BY DEF TypeOK, Release

LEMMA TypeReturn ==
  ASSUME TypeOK, NEW w \in Workers, Return(w)
  PROVE  /\ pc' \in [Workers -> {"idle", "allocate", "insert", "fanout", "append", "duplicate"}]
         /\ cur' \in [Workers -> Uuids \cup {None}]
         /\ to' \in [Workers -> SUBSET Users]
         /\ seq' \in [Workers -> Nat]
  BY DEF TypeOK, Return

\* A worker in the middle of something has a message to work on.
CurOK == \A w \in Workers : pc[w] # "idle" => cur[w] \in Uuids

LEMMA TypeStep == TypeOK /\ CurOK /\ [Next]_vars => TypeOK' /\ CurOK'
  <1> SUFFICES ASSUME TypeOK, CurOK, [Next]_vars PROVE TypeOK' /\ CurOK'
    OBVIOUS
  <1> USE DEF tables, locks, readers
  <1>1. ASSUME NEW w \in Workers, Receive(w) PROVE TypeOK' /\ CurOK'
    BY <1>1 DEF TypeOK, CurOK, Receive
  <1>2. ASSUME NEW w \in Workers, AllocateSequence(w) PROVE TypeOK' /\ CurOK'
    BY <1>2 DEF TypeOK, CurOK, AllocateSequence
  <1>3. ASSUME NEW w \in Workers, InsertMessage(w) PROVE TypeOK' /\ CurOK'
    BY <1>3 DEF TypeOK, CurOK, InsertMessage
  <1>4. ASSUME NEW w \in Workers, DuplicateKey(w) PROVE TypeOK' /\ CurOK'
    <2>1. pc' \in [Workers -> {"idle", "allocate", "insert", "fanout", "append", "duplicate"}]
      BY <1>4 DEF TypeOK, DuplicateKey
    <2> QED BY <1>4, <2>1, TypeRelease DEF TypeOK, CurOK, DuplicateKey
  <1>5. ASSUME NEW w \in Workers, ResolveDuplicate(w) PROVE TypeOK' /\ CurOK'
    <2>1. PICK m \in messages :
            /\ AddEvent([uuid |-> m.uuid, seq |-> m.seq, to |-> to[w]])
            /\ IF w \in AtomicWriters
               THEN /\ cur' = [cur EXCEPT ![w] = m.uuid]
                    /\ seq' = [seq EXCEPT ![w] = m.seq]
                    /\ todo' = [todo EXCEPT ![w] = to[w]]
                    /\ pc' = [pc EXCEPT ![w] = "fanout"]
                    /\ UNCHANGED to
               ELSE Return(w) /\ UNCHANGED todo
      BY <1>5 DEF ResolveDuplicate
    <2>2. m.uuid \in Uuids /\ m.seq \in Nat
      BY DEF TypeOK, Message
    <2>3. outbox' \in SUBSET Event
      BY <2>1, <2>2 DEF TypeOK, AddEvent, Event
    <2>4. CASE w \in AtomicWriters
      <3>1. /\ cur' = [cur EXCEPT ![w] = m.uuid]
            /\ seq' = [seq EXCEPT ![w] = m.seq]
            /\ todo' = [todo EXCEPT ![w] = to[w]]
            /\ pc' = [pc EXCEPT ![w] = "fanout"]
            /\ UNCHANGED to
        BY <2>1, <2>4
      <3>2. UNCHANGED <<lastSeq, groupLatest, messages, inbox, nextSync, locks,
                        storing, rows, readers>>
        BY <1>5 DEF ResolveDuplicate
      <3>3. TypeOK'
        BY <2>2, <2>3, <3>1, <3>2 DEF TypeOK
      <3> QED BY <2>2, <3>1, <3>3 DEF TypeOK, CurOK
    <2>5. CASE w \notin AtomicWriters
      <3>1. Return(w)
        BY <2>1, <2>5
      <3>2. UNCHANGED <<lastSeq, groupLatest, messages, inbox, nextSync, locks,
                        storing, rows, readers, todo>>
        BY <1>5, <2>1, <2>5 DEF ResolveDuplicate
      <3>3. TypeOK'
        BY <2>3, <3>1, <3>2, TypeReturn DEF TypeOK
      <3> QED BY <3>1, <3>3 DEF TypeOK, CurOK, Return
    <2> QED BY <2>4, <2>5
  <1>6. ASSUME NEW w \in Workers, IdempotencyConflict(w) PROVE TypeOK' /\ CurOK'
    BY <1>6, TypeReturn DEF TypeOK, CurOK, IdempotencyConflict, Return
  <1>7. ASSUME NEW w \in Workers, Project(w) PROVE TypeOK' /\ CurOK'
    BY <1>7 DEF TypeOK, CurOK, Project, Event
  <1>8. ASSUME NEW w \in Workers, LockUser(w) PROVE TypeOK' /\ CurOK'
    BY <1>8 DEF TypeOK, CurOK, LockUser
  <1>9. ASSUME NEW w \in Workers, AppendRow(w) PROVE TypeOK' /\ CurOK'
    <2>1. rows' \in [Workers -> SUBSET Row]
      BY <1>9 DEF TypeOK, CurOK, AppendRow, Row
    <2> QED BY <1>9, <2>1 DEF TypeOK, CurOK, AppendRow
  <1>10. ASSUME NEW w \in Workers, Commit(w) PROVE TypeOK' /\ CurOK'
    <2>1. cur[w] \in Uuids
      BY <1>10 DEF CurOK, Commit
    <2>2. /\ messages' \in SUBSET Message
          /\ lastSeq' \in [Conversations -> Nat]
          /\ groupLatest' \in [Groups -> Nat]
      BY <1>10, <2>1 DEF TypeOK, Commit, Message
    <2>3. outbox' \in SUBSET Event
      BY <1>10, <2>1 DEF TypeOK, Commit, AddEvent, Event
    <2>4. inbox' \in SUBSET Row
      BY <1>10 DEF TypeOK, Commit
    <2>5. Release(w) /\ Return(w)
      BY <1>10 DEF Commit
    <2>6. TypeOK'
      BY <1>10, <2>2, <2>3, <2>4, <2>5, TypeRelease, TypeReturn DEF TypeOK, Commit
    <2> QED BY <2>5, <2>6 DEF CurOK, Return, TypeOK
  <1>11. ASSUME NEW w \in Workers, Abort(w) PROVE TypeOK' /\ CurOK'
    <2>1. TypeOK'
      BY <1>11, TypeRelease, TypeReturn DEF TypeOK, Abort
    <2> QED BY <1>11, <2>1 DEF CurOK, Abort, Return, TypeOK
  <1>12. ASSUME NEW u \in Users, ListPage(u) PROVE TypeOK' /\ CurOK'
    BY <1>12 DEF TypeOK, CurOK, ListPage, PageUpTo, Unread, Row
  <1>13. CASE UNCHANGED vars
    BY <1>13 DEF TypeOK, CurOK, vars
  <1> QED
    BY <1>1, <1>2, <1>3, <1>4, <1>5, <1>6, <1>7, <1>8, <1>9, <1>10, <1>11, <1>12, <1>13
       DEF Next, Work

\* The tables, the locks and what a worker holds always have their types,
\* whatever transactions interleave, fail or are retried.
THEOREM TypeCorrect == Spec => [](TypeOK /\ CurOK)
  <1>1. Init => TypeOK /\ CurOK
    BY TypeInit DEF Init, CurOK
  <1> QED BY <1>1, TypeStep, PTL DEF Spec

-----------------------------------------------------------------------------
(* No reader skips a row.                                                  *)
(*                                                                         *)
(* NoSkippedRow alone is not inductive: a commit makes rows visible whose  *)
(* positions were allocated earlier, possibly before the reader moved its  *)
(* cursor.  What saves it is the lock on the user's sync state, taken      *)
(* before the position is allocated and held until the commit: while a     *)
(* transaction has a row for a user pending, nothing else becomes visible  *)
(* to that user, so everything visible, and with it the cursor, stays      *)
(* below the pending position.                                             *)

PendingRow(w, r) ==
    /\ userLock[r.user] = w
    /\ r.user \notin todo[w]
    /\ r.uuid = cur[w]
    /\ 0 < r.sync /\ r.sync <= nextSync
    /\ \A q \in inbox : q.user = r.user => q.sync < r.sync /\ q.uuid # r.uuid
    /\ \A q \in rows[w] : q.user = r.user => q = r

Pending ==
    \A w \in Workers :
        /\ rows[w] # {} => pc[w] \in {"fanout", "append"}
        /\ pc[w] = "append" => \A u \in Users : NextUser(w, u) => userLock[u] = w
        /\ \A r \in rows[w] : PendingRow(w, r)

Visible ==
    /\ \A r \in inbox : 0 < r.sync /\ r.sync <= nextSync
    /\ \A u \in Users : cursor[u] = 0 \/ \E r \in inbox : r.user = u /\ r.sync = cursor[u]

OrderInv == Pending /\ Visible /\ NoSkippedRow

\* A step that leaves the inbox, the counter and the readers alone keeps what
\* is visible as it was.
LEMMA VisibleFrame ==
  ASSUME Visible, NoSkippedRow, UNCHANGED <<inbox, nextSync, readers>>
  PROVE  Visible' /\ NoSkippedRow'
  BY DEF Visible, NoSkippedRow, readers

\* A transaction that gives up, or has committed, leaves the others' pending
\* rows as they were.
LEMMA PendingRelease ==
  ASSUME TypeOK, Pending, NEW w \in Workers, Release(w),
         UNCHANGED <<inbox, nextSync>>, pc'[w] \notin {"fanout", "append"},
         \A v \in Workers \ {w} : pc'[v] = pc[v] /\ cur'[v] = cur[v]
  PROVE  Pending'
  <1> SUFFICES ASSUME NEW v \in Workers
               PROVE  /\ rows'[v] # {} => pc'[v] \in {"fanout", "append"}
                      /\ pc'[v] = "append" => \A u \in Users : NextUser(v, u)' => userLock'[u] = v
                      /\ \A r \in rows'[v] : PendingRow(v, r)'
    BY DEF Pending
  <1>1. CASE v = w
    BY <1>1 DEF Release, TypeOK
  <1>2. CASE v # w
    <2>1. rows'[v] = rows[v] /\ todo'[v] = todo[v] /\ pc'[v] = pc[v] /\ cur'[v] = cur[v]
      BY <1>2 DEF Release, TypeOK
    <2>2. \A u \in Users : userLock[u] = v => userLock'[u] = v
      BY <1>2 DEF Release
    <2>3. \A r \in rows[v] : r.user \in Users
      BY DEF TypeOK, Row
    <2>4. /\ rows'[v] # {} => pc'[v] \in {"fanout", "append"}
          /\ pc'[v] = "append" => \A u \in Users : NextUser(v, u)' => userLock'[u] = v
      BY <2>1, <2>2 DEF Pending, NextUser
    <2>5. ASSUME NEW r \in rows'[v] PROVE PendingRow(v, r)'
      <3>1. r \in rows[v] /\ r.user \in Users /\ PendingRow(v, r)
        BY <2>1, <2>3 DEF Pending
      <3> QED BY <2>1, <2>2, <3>1 DEF PendingRow
    <2> QED BY <2>4, <2>5
  <1> QED BY <1>1, <1>2

LEMMA OrderStep == TypeOK /\ CurOK /\ OrderInv /\ [Next]_vars => OrderInv'
  <1> SUFFICES ASSUME TypeOK, CurOK, OrderInv, [Next]_vars PROVE OrderInv'
    OBVIOUS
  <1> USE DEF OrderInv
  <1>0. \A v \in Workers : \A r \in rows[v] : r.user \in Users /\ r.sync \in Nat
    BY DEF TypeOK, Row
  <1>1. ASSUME NEW w \in Workers, Receive(w) PROVE OrderInv'
    <2>1. Pending'
      BY <1>1, <1>0 DEF Pending, PendingRow, NextUser, Receive, TypeOK, tables, locks
    <2> QED BY <1>1, <2>1, VisibleFrame DEF Receive, tables
  <1>2. ASSUME NEW w \in Workers, AllocateSequence(w) PROVE OrderInv'
    <2>1. Pending'
      BY <1>2, <1>0 DEF Pending, PendingRow, NextUser, AllocateSequence, TypeOK, tables
    <2> QED BY <1>2, <2>1, VisibleFrame DEF AllocateSequence, tables
  <1>3. ASSUME NEW w \in Workers, InsertMessage(w) PROVE OrderInv'
    <2>1. Pending'
      BY <1>3, <1>0 DEF Pending, PendingRow, NextUser, InsertMessage, TypeOK, tables, locks
    <2> QED BY <1>3, <2>1, VisibleFrame DEF InsertMessage, tables
  <1>4. ASSUME NEW w \in Workers, DuplicateKey(w) PROVE OrderInv'
    <2>1. Pending'
      BY <1>4, PendingRelease DEF DuplicateKey, TypeOK, tables
    <2> QED BY <1>4, <2>1, VisibleFrame DEF DuplicateKey, tables
  <1>5. ASSUME NEW w \in Workers, ResolveDuplicate(w) PROVE OrderInv'
    <2>1. /\ \A v \in Workers \ {w} : pc'[v] = pc[v] /\ cur'[v] = cur[v] /\ todo'[v] = todo[v]
          /\ pc'[w] # "append"
      BY <1>5 DEF ResolveDuplicate, Return, TypeOK
    <2>2. rows[w] = {} /\ UNCHANGED <<rows, userLock, inbox, nextSync, readers>>
      BY <1>5 DEF ResolveDuplicate, Pending, locks, readers
    <2>3. Pending'
      BY <2>1, <2>2, <1>0 DEF Pending, PendingRow, NextUser
    <2> QED BY <2>2, <2>3, VisibleFrame
  <1>6. ASSUME NEW w \in Workers, IdempotencyConflict(w) PROVE OrderInv'
    <2>1. /\ \A v \in Workers \ {w} : pc'[v] = pc[v] /\ cur'[v] = cur[v]
          /\ pc'[w] # "append" /\ rows[w] = {}
      BY <1>6 DEF IdempotencyConflict, Return, TypeOK, Pending
    <2>2. Pending'
      BY <1>6, <2>1, <1>0 DEF Pending, PendingRow, NextUser, IdempotencyConflict, tables, locks
    <2> QED BY <1>6, <2>2, VisibleFrame DEF IdempotencyConflict, tables
  <1>7. ASSUME NEW w \in Workers, Project(w) PROVE OrderInv'
    <2>1. Pending'
      BY <1>7, <1>0 DEF Pending, PendingRow, NextUser, Project, TypeOK, tables, locks
    <2> QED BY <1>7, <2>1, VisibleFrame DEF Project, tables
  <1>8. ASSUME NEW w \in Workers, LockUser(w) PROVE OrderInv'
    <2>1. PICK u \in Users : NextUser(w, u) /\ userLock[u] = None
                             /\ userLock' = [userLock EXCEPT ![u] = w]
      BY <1>8 DEF LockUser
    <2>2. \A v \in Users : NextUser(w, v) => v = u
      <3>1. SUFFICES ASSUME NEW v \in Users, NextUser(w, v) PROVE v = u
        OBVIOUS
      <3>2. u \in Nat /\ v \in Nat
        OBVIOUS
      <3>3. u <= v /\ v <= u
        BY <2>1, <3>1 DEF NextUser
      <3> QED BY <3>2, <3>3
    <2>3. \A v \in Workers : \A x \in Users : userLock[x] = v => userLock'[x] = v
      BY <2>1 DEF TypeOK
    <2>4. userLock'[u] = w
      BY <2>1 DEF TypeOK
    <2>5. pc'[w] = "append" /\ \A v \in Workers \ {w} : pc'[v] = pc[v]
      BY <1>8 DEF LockUser, TypeOK
    <2>6. UNCHANGED <<rows, todo, cur, inbox, nextSync>>
      BY <1>8 DEF LockUser, tables
    <2>7. ASSUME NEW v \in Workers, pc'[v] = "append", NEW x \in Users, NextUser(v, x)'
          PROVE  userLock'[x] = v
      <3>1. NextUser(v, x)
        BY <2>6, <2>7 DEF NextUser
      <3>2. CASE v = w
        BY <2>2, <2>4, <3>1, <3>2
      <3>3. CASE v # w
        BY <2>3, <2>5, <2>7, <3>1, <3>3 DEF Pending
      <3> QED BY <3>2, <3>3
    <2>8. ASSUME NEW v \in Workers, NEW r \in rows[v] PROVE PendingRow(v, r)'
      BY <1>0, <2>3, <2>6 DEF Pending, PendingRow
    <2>9. \A v \in Workers : rows'[v] # {} => pc'[v] \in {"fanout", "append"}
      BY <2>5, <2>6 DEF Pending
    <2>10. Pending'
      BY <2>6, <2>7, <2>8, <2>9 DEF Pending
    <2> QED BY <1>8, <2>10, VisibleFrame DEF LockUser, tables
  <1>9. ASSUME NEW w \in Workers, AppendRow(w) PROVE OrderInv'
    <2> DEFINE row(x) == [user |-> x, uuid |-> cur[w], seq |-> seq[w], sync |-> nextSync + 1]
    <2> DEFINE rival(x) == {r \in inbox : /\ r.user = x
                                          /\ \/ r.uuid = cur[w]
                                             \/ /\ ConvOf[r.uuid] = ConvOf[cur[w]]
                                                /\ r.seq = seq[w]}
    <2> DEFINE added(x) == IF rival(x) = {} THEN {row(x)} ELSE {}
    <2>0. PICK u \in Users :
            /\ NextUser(w, u)
            /\ rows' = [rows EXCEPT ![w] = @ \cup added(u)]
            /\ todo' = [todo EXCEPT ![w] = @ \ {u}]
      BY <1>9 DEF AppendRow
    <2> DEFINE new == added(u)
    <2>1. /\ NextUser(w, u)
          /\ new \in SUBSET {row(u)}
          /\ new # {} => \A q \in inbox : q.user = u => q.uuid # cur[w]
          /\ rows' = [rows EXCEPT ![w] = @ \cup new]
          /\ todo' = [todo EXCEPT ![w] = @ \ {u}]
      BY <2>0
    <2> HIDE DEF new
    <2>2. /\ nextSync' = nextSync + 1 /\ nextSync \in Nat
          /\ UNCHANGED <<inbox, userLock, cur, readers>>
          /\ pc[w] = "append" /\ pc'[w] = "fanout"
          /\ \A v \in Workers \ {w} : /\ pc'[v] = pc[v] /\ rows'[v] = rows[v]
                                      /\ todo'[v] = todo[v]
          /\ rows'[w] = rows[w] \cup new /\ todo'[w] = todo[w] \ {u}
      BY <1>9, <2>1 DEF AppendRow, TypeOK, tables, locks, readers
    <2>3. userLock[u] = w /\ u \in todo[w]
      BY <2>1, <2>2 DEF Pending, NextUser
    <2>4. \A r \in rows[w] : r.user # u
      BY <2>3 DEF Pending, PendingRow
    <2>5. Visible' /\ NoSkippedRow'
      BY <2>2 DEF Visible, NoSkippedRow, readers, TypeOK, Row
    <2>6. \A r \in new : PendingRow(w, r)'
      <3>1. SUFFICES ASSUME NEW r \in new PROVE PendingRow(w, r)'
        OBVIOUS
      <3>2. r.user = u /\ r.uuid = cur[w] /\ r.sync = nextSync + 1 /\ new = {r}
        BY <2>1
      <3>3. \A q \in inbox : q.user = u => q.sync < nextSync + 1 /\ q.uuid # cur[w]
        BY <2>1, <3>2 DEF Visible, TypeOK, Row
      <3>4. \A q \in rows'[w] : q.user = u => q = r
        BY <2>2, <2>4, <3>2
      <3> QED BY <2>2, <2>3, <3>2, <3>3, <3>4 DEF PendingRow
    <2>7. \A r \in rows[w] : PendingRow(w, r)'
      BY <1>0, <2>1, <2>2, <2>4 DEF Pending, PendingRow
    <2>8. ASSUME NEW v \in Workers \ {w}, NEW r \in rows[v] PROVE PendingRow(v, r)'
      BY <1>0, <2>2 DEF Pending, PendingRow
    <2>9. Pending'
      BY <2>2, <2>6, <2>7, <2>8 DEF Pending, NextUser
    <2> QED BY <2>5, <2>9
  <1>10. ASSUME NEW w \in Workers, Commit(w) PROVE OrderInv'
    <2>1. inbox' = inbox \cup rows[w] /\ UNCHANGED <<nextSync, readers>> /\ Release(w)
      BY <1>10 DEF Commit
    <2>2. pc'[w] = "idle" /\ \A v \in Workers \ {w} : pc'[v] = pc[v] /\ cur'[v] = cur[v]
      BY <1>10 DEF Commit, Return, TypeOK
    <2>3. /\ rows'[w] = {}
          /\ \A v \in Workers \ {w} :
                /\ rows'[v] = rows[v] /\ todo'[v] = todo[v]
                /\ \A u \in Users : userLock[u] = v => userLock'[u] = v
      BY <2>1 DEF Release, TypeOK
    <2>4. Visible'
      BY <2>1, <1>0 DEF Visible, Pending, PendingRow, readers
    <2>5. \A r \in rows[w] : ~ (r.sync <= cursor[r.user])
      <3> SUFFICES ASSUME NEW r \in rows[w] PROVE ~ (r.sync <= cursor[r.user])
        OBVIOUS
      <3>1. r.user \in Users /\ r.sync \in Nat /\ PendingRow(w, r)
        BY <1>0 DEF Pending
      <3>2. CASE cursor[r.user] = 0
        BY <3>1, <3>2 DEF PendingRow
      <3>3. CASE \E q \in inbox : q.user = r.user /\ q.sync = cursor[r.user]
        BY <3>1, <3>3 DEF PendingRow, TypeOK, Row
      <3> QED BY <3>1, <3>2, <3>3 DEF Visible
    <2>6. NoSkippedRow'
      BY <2>1, <2>5 DEF NoSkippedRow, readers
    <2>7. ASSUME NEW v \in Workers \ {w}, NEW r \in rows[v] PROVE PendingRow(v, r)'
      <3>1. PendingRow(v, r)
        BY DEF Pending
      <3>2. \A q \in rows[w] : q.user # r.user
        BY <3>1 DEF Pending, PendingRow
      <3> QED BY <1>0, <2>1, <2>2, <2>3, <3>1, <3>2 DEF PendingRow
    <2>8. Pending'
      BY <2>2, <2>3, <2>7 DEF Pending, NextUser
    <2> QED BY <2>4, <2>6, <2>8
  <1>11. ASSUME NEW w \in Workers, Abort(w) PROVE OrderInv'
    <2>1. Pending'
      BY <1>11, PendingRelease DEF Abort, Return, TypeOK, tables
    <2> QED BY <1>11, <2>1, VisibleFrame DEF Abort, tables
  <1>12. ASSUME NEW u \in Users, ListPage(u) PROVE OrderInv'
    <2>1. PICK last \in Unread(u) :
            LET page == PageUpTo(u, last)
            IN  cursor' = [cursor EXCEPT ![u] = last.sync] /\ seen' = [seen EXCEPT ![u] = @ \cup page]
      BY <1>12 DEF ListPage
    <2>2. last \in inbox /\ last.user = u
      BY DEF Unread
    <2>3. UNCHANGED <<inbox, nextSync, pc, cur, todo, rows, userLock>>
      BY <1>12 DEF ListPage, tables, locks
    <2>4. Pending'
      BY <2>3 DEF Pending, PendingRow, NextUser
    <2>5. Visible'
      BY <2>1, <2>2, <2>3 DEF Visible, TypeOK
    <2>6. ASSUME NEW r \in inbox, r.sync <= cursor'[r.user] PROVE r \in seen'[r.user]
      <3>1. r.user \in Users
        BY DEF TypeOK, Row
      <3>2. CASE r.user # u
        BY <2>1, <2>6, <3>1, <3>2 DEF NoSkippedRow, TypeOK
      <3>3. CASE r.user = u /\ r.sync <= cursor[u]
        BY <2>1, <3>3 DEF NoSkippedRow, TypeOK
      <3>4. CASE r.user = u /\ cursor[u] < r.sync
        BY <2>1, <2>6, <3>4 DEF PageUpTo, Unread, TypeOK
      <3> QED BY <3>1, <3>2, <3>3, <3>4 DEF TypeOK, Row
    <2>7. NoSkippedRow'
      BY <2>3, <2>6 DEF NoSkippedRow
    <2> QED BY <2>4, <2>5, <2>7
  <1>13. CASE UNCHANGED vars
    <2>1. UNCHANGED <<inbox, nextSync, userLock, pc, cur, todo, rows, readers>>
      BY <1>13 DEF vars, tables, locks
    <2>2. Pending'
      BY <2>1 DEF Pending, PendingRow, NextUser
    <2>3. Visible' /\ NoSkippedRow'
      BY <2>1, VisibleFrame
    <2> QED BY <2>2, <2>3
  <1> QED
    BY <1>1, <1>2, <1>3, <1>4, <1>5, <1>6, <1>7, <1>8, <1>9, <1>10, <1>11, <1>12, <1>13
       DEF Next, Work

LEMMA OrderInit == Init => OrderInv
  BY DEF Init, OrderInv, Pending, PendingRow, Visible, NoSkippedRow

\* However many transactions write to a user's inbox at the same time, in
\* whatever order they commit and however often they fail, a cursor that has
\* passed a position has been given every row that ever appears below it.
THEOREM NothingSkipped == Spec => []NoSkippedRow
  <1>1. Spec => []OrderInv
    BY OrderInit, OrderStep, TypeCorrect, PTL DEF Spec
  <1>2. OrderInv => NoSkippedRow
    BY DEF OrderInv
  <1> QED BY <1>1, <1>2, PTL

-----------------------------------------------------------------------------
(* The tables implement the timelines *)

LineOf(u) == {<<r.sync, r.uuid>> : r \in {q \in inbox : q.user = u}}

LEMMA TimelineInit == Init => T!TLInit
  BY DEF Init, T!TLInit

\* A commit is the one step that changes a line: it publishes its message.
LEMMA CommitPublishes ==
  ASSUME TypeOK, CurOK, OrderInv, NEW w \in Workers, Commit(w)
  PROVE  T!Publish
  <1>1. inbox' = inbox \cup rows[w] /\ UNCHANGED <<cursor, seen>>
    BY DEF Commit, readers
  <1>2. cur[w] \in Uuids
    BY DEF Commit, CurOK
  <1>3. \A r \in rows[w] : PendingRow(w, r) /\ r.user \in Users /\ r.sync \in Nat
    BY DEF OrderInv, Pending, TypeOK, Row
  <1>4. ASSUME NEW u \in Users
        PROVE  /\ LineOf(u) \subseteq LineOf(u)'
               /\ \A new \in LineOf(u)' \ LineOf(u) :
                     /\ new[1] \in Nat \ {0} /\ new[2] = cur[w]
                     /\ \A old \in LineOf(u) : old[1] < new[1] /\ old[2] # cur[w]
               /\ \A a, b \in LineOf(u)' \ LineOf(u) : a = b
    <2>1. LineOf(u) \subseteq LineOf(u)'
      BY <1>1 DEF LineOf
    <2>2. ASSUME NEW new \in LineOf(u)' \ LineOf(u)
          PROVE  \E r \in rows[w] : r.user = u /\ new = <<r.sync, r.uuid>>
      BY <1>1, <2>2 DEF LineOf
    <2>3. ASSUME NEW new \in LineOf(u)' \ LineOf(u), NEW old \in LineOf(u)
          PROVE  old[1] < new[1] /\ old[2] # cur[w]
      <3>1. PICK r \in rows[w] : r.user = u /\ new = <<r.sync, r.uuid>>
        BY <2>2
      <3>2. PICK q \in inbox : q.user = u /\ old = <<q.sync, q.uuid>>
        BY DEF LineOf
      <3> QED BY <1>3, <3>1, <3>2 DEF PendingRow
    <2>4. ASSUME NEW a \in LineOf(u)' \ LineOf(u), NEW b \in LineOf(u)' \ LineOf(u)
          PROVE  a = b
      <3>1. PICK r \in rows[w] : r.user = u /\ a = <<r.sync, r.uuid>>
        BY <2>2
      <3>2. PICK q \in rows[w] : q.user = u /\ b = <<q.sync, q.uuid>>
        BY <2>2
      <3> QED BY <1>3, <3>1, <3>2 DEF PendingRow
    <2>5. \A new \in LineOf(u)' \ LineOf(u) : new[1] \in Nat \ {0} /\ new[2] = cur[w]
      BY <1>3, <2>2 DEF PendingRow
    <2> QED BY <2>1, <2>3, <2>4, <2>5
  <1> DEFINE line == [u \in Users |-> LineOf(u)]
  <1>5. \A u \in Users : line[u] = LineOf(u) /\ line'[u] = LineOf(u)'
    OBVIOUS
  <1>6. \A u \in Users :
           /\ line[u] \subseteq line'[u]
           /\ \A new \in line'[u] \ line[u] :
                 /\ new[1] \in Nat \ {0} /\ new[2] = cur[w]
                 /\ \A old \in line[u] : old[1] < new[1] /\ old[2] # cur[w]
           /\ \A a, b \in line'[u] \ line[u] : a = b
    <2> SUFFICES ASSUME NEW u \in Users
                 PROVE  /\ LineOf(u) \subseteq LineOf(u)'
                        /\ \A new \in LineOf(u)' \ LineOf(u) :
                              /\ new[1] \in Nat \ {0} /\ new[2] = cur[w]
                              /\ \A old \in LineOf(u) : old[1] < new[1] /\ old[2] # cur[w]
                        /\ \A a, b \in LineOf(u)' \ LineOf(u) : a = b
      BY <1>5
    <2> QED BY <1>4
  <1>7. [u \in Users |-> {<<r.sync, r.uuid>> : r \in seen[u]}]'
          = [u \in Users |-> {<<r.sync, r.uuid>> : r \in seen[u]}]
    BY <1>1
  <1>8. \E e \in Uuids : \A u \in Users :
           /\ line[u] \subseteq line'[u]
           /\ \A new \in line'[u] \ line[u] :
                 /\ new[1] \in Nat \ {0} /\ new[2] = e
                 /\ \A old \in line[u] : old[1] < new[1] /\ old[2] # e
           /\ \A a, b \in line'[u] \ line[u] : a = b
    <2> HIDE DEF line
    <2> QED BY <1>2, <1>6
  <1>9. UNCHANGED <<cursor, [u \in Users |-> {<<r.sync, r.uuid>> : r \in seen[u]}]>>
    BY <1>1, <1>7
  <1> QED BY <1>8, <1>9, Zenon DEF T!Publish, T!Added, LineOf

\* A page is everything on the line between two positions.
LEMMA PageReads ==
  ASSUME TypeOK, NEW u \in Users, ListPage(u)
  PROVE  T!Read
  <1>1. PICK last \in Unread(u) :
          LET page == PageUpTo(u, last)
          IN  cursor' = [cursor EXCEPT ![u] = last.sync] /\ seen' = [seen EXCEPT ![u] = @ \cup page]
    BY DEF ListPage
  <1>2. /\ last \in inbox /\ last.user = u /\ last.sync \in Nat /\ cursor[u] < last.sync
        /\ cursor[u] \in Nat
    BY DEF Unread, TypeOK, Row
  <1>3. inbox' = inbox
    BY DEF ListPage, tables
  <1>4. cursor'[u] = last.sync /\ cursor' = [cursor EXCEPT ![u] = cursor'[u]]
    BY <1>1 DEF TypeOK
  <1>5. \E e \in LineOf(u) : e[1] = cursor'[u]
    <2>1. <<last.sync, last.uuid>> \in LineOf(u)
      BY <1>2 DEF LineOf
    <2> QED BY <1>4, <2>1
  <1> DEFINE page == PageUpTo(u, last)
  <1> DEFINE given(x) == {<<r.sync, r.uuid>> : r \in seen[x]}
  <1>6. {<<r.sync, r.uuid>> : r \in page}
          = {e \in LineOf(u) : cursor[u] < e[1] /\ e[1] <= cursor'[u]}
    BY <1>4 DEF LineOf, PageUpTo, Unread
  <1>7. [x \in Users |-> {<<r.sync, r.uuid>> : r \in seen'[x]}]
          = [[x \in Users |-> given(x)] EXCEPT
               ![u] = @ \cup {e \in LineOf(u) : cursor[u] < e[1] /\ e[1] <= cursor'[u]}]
    <2>1. seen' = [seen EXCEPT ![u] = @ \cup page]
      BY <1>1
    <2>2. {<<r.sync, r.uuid>> : r \in seen'[u]} = given(u) \cup {<<r.sync, r.uuid>> : r \in page}
      BY <2>1 DEF TypeOK
    <2>3. \A x \in Users \ {u} : seen'[x] = seen[x]
      BY <2>1 DEF TypeOK
    <2> QED BY <1>6, <2>2, <2>3
  <1> QED BY <1>2, <1>3, <1>4, <1>5, <1>7 DEF T!Read, LineOf

\* Every step of the tables is a step of the timelines or leaves them alone.
LEMMA TimelineStep ==
  TypeOK /\ CurOK /\ OrderInv /\ [Next]_vars => [T!TLNext]_(T!tvars)
  <1> SUFFICES ASSUME TypeOK, CurOK, OrderInv, [Next]_vars PROVE [T!TLNext]_(T!tvars)
    OBVIOUS
  <1>1. ASSUME NEW w \in Workers, Commit(w) PROVE T!TLNext
    BY <1>1, CommitPublishes DEF T!TLNext
  <1>2. ASSUME NEW u \in Users, ListPage(u) PROVE T!TLNext
    BY <1>2, PageReads DEF T!TLNext
  <1>3. ASSUME UNCHANGED <<inbox, cursor, seen>> PROVE UNCHANGED T!tvars
    BY <1>3 DEF T!tvars
  <1>4. ASSUME NEW w \in Workers, Work(w), ~Commit(w) PROVE UNCHANGED <<inbox, cursor, seen>>
    BY <1>4 DEF Work, Receive, AllocateSequence, InsertMessage, DuplicateKey, ResolveDuplicate,
                IdempotencyConflict, Project, LockUser, AppendRow, Abort, tables, readers
  <1>5. CASE UNCHANGED vars
    BY <1>3, <1>5 DEF vars, tables, readers
  <1> QED BY <1>1, <1>2, <1>3, <1>4, <1>5 DEF Next

\* The message transaction, the duplicate path and the projector together
\* implement the promise made to readers: timelines that only grow at the top
\* and cursors that read everything below them.
THEOREM ImplementsTimeline == Spec => TimelineSpec
  <1>1. Spec => [](TypeOK /\ CurOK /\ OrderInv)
    BY OrderInit, OrderStep, TypeCorrect, PTL DEF Spec
  <1> QED BY <1>1, TimelineInit, TimelineStep, PTL DEF Spec, TimelineSpec, T!TLSpec

-----------------------------------------------------------------------------
(* What is stored, once.                                                   *)
(*                                                                         *)
(* The tables say too little to be preserved: a worker between its insert  *)
(* and its commit has a message that is not in the table yet, and one that *)
(* resolves a duplicate or projects an event relies on one that is.        *)

\* The inserted message is new to the table and to the other transactions.
Inserted(v) ==
    storing[v] =>
       /\ pc[v] \in {"fanout", "append"}
       /\ \A m \in messages : ~SameKey(m.uuid, cur[v])
       /\ \A x \in Workers \ {v} : storing[x] => ~SameKey(cur[x], cur[v])

\* It bears the next number of its conversation, whose row is locked.
Numbered(v) ==
    storing[v] \/ pc[v] = "insert" =>
       /\ convLock[ConvOf[cur[v]]] = v
       /\ seq[v] = lastSeq[ConvOf[cur[v]]] + 1

\* Who fans out without having inserted has a locator of a stored message.
Located(v) ==
    pc[v] \in {"fanout", "append"} /\ ~storing[v] =>
       [uuid |-> cur[v], seq |-> seq[v]] \in messages

Carried(v) == \A r \in rows[v] : r.seq = seq[v]

Transactions ==
    \A v \in Workers : Inserted(v) /\ Numbered(v) /\ Located(v) /\ Carried(v)

StoreInv == Transactions /\ ExactlyOnceStore /\ Hydratable

LEMMA SameKeyIs ==
  ASSUME NEW m, NEW n PROVE SameKey(m, n) <=> KeyOf[m] = KeyOf[n]
  BY DEF SameKey

LEMMA StoreInit == Init => StoreInv
  BY DEF Init, StoreInv, Transactions, Inserted, Numbered, Located, Carried,
         ExactlyOnceStore, Hydratable

\* A worker that does not move keeps its number and its locator.
LEMMA WorkerFrame ==
  ASSUME CurOK, NEW v \in Workers,
         Inserted(v), Numbered(v), Located(v), Carried(v),
         pc'[v] = pc[v], cur'[v] = cur[v], seq'[v] = seq[v],
         storing'[v] = storing[v], rows'[v] = rows[v],
         messages \subseteq messages',
         storing[v] \/ pc[v] = "insert" =>
            lastSeq'[ConvOf[cur[v]]] = lastSeq[ConvOf[cur[v]]],
         \A c \in Conversations : convLock[c] = v => convLock'[c] = v
  PROVE  Numbered(v)' /\ Located(v)' /\ Carried(v)'
  <1>1. storing[v] \/ pc[v] = "insert" => ConvOf[cur[v]] \in Conversations
    BY DEF CurOK, Inserted
  <1> QED BY <1>1 DEF Numbered, Located, Carried

\* As long as nothing is inserted or stored, what is inserted stays new.
LEMMA InsertedFrame ==
  ASSUME Transactions, messages' = messages,
         \A v \in Workers : storing'[v] =>
            storing[v] /\ cur'[v] = cur[v] /\ pc'[v] \in {"fanout", "append"}
  PROVE  \A v \in Workers : Inserted(v)'
  BY DEF Transactions, Inserted, SameKey

LEMMA TablesFrame ==
  ASSUME ExactlyOnceStore, Hydratable, UNCHANGED <<messages, outbox, inbox>>
  PROVE  ExactlyOnceStore' /\ Hydratable'
  BY DEF ExactlyOnceStore, Hydratable, SameKey

\* A worker that moves while every table and every other worker stays.
LEMMA MoveFrame ==
  ASSUME CurOK, StoreInv, NEW w \in Workers,
         UNCHANGED <<messages, inbox, outbox, lastSeq>>,
         storing'[w] => storing[w] /\ cur'[w] = cur[w] /\ pc'[w] \in {"fanout", "append"},
         Numbered(w)' /\ Located(w)' /\ Carried(w)',
         \A v \in Workers \ {w} :
            /\ pc'[v] = pc[v] /\ cur'[v] = cur[v] /\ seq'[v] = seq[v]
            /\ storing'[v] = storing[v] /\ rows'[v] = rows[v]
            /\ \A c \in Conversations : convLock[c] = v => convLock'[c] = v
  PROVE  StoreInv'
  <1>1. ExactlyOnceStore' /\ Hydratable'
    BY TablesFrame DEF StoreInv
  <1>2. \A v \in Workers : Inserted(v)'
    <2>1. \A v \in Workers : storing'[v] =>
             storing[v] /\ cur'[v] = cur[v] /\ pc'[v] \in {"fanout", "append"}
      BY DEF StoreInv, Transactions, Inserted
    <2> QED BY <2>1, InsertedFrame DEF StoreInv
  <1>3. ASSUME NEW v \in Workers \ {w} PROVE Numbered(v)' /\ Located(v)' /\ Carried(v)'
    BY WorkerFrame DEF StoreInv, Transactions
  <1> QED BY <1>1, <1>2, <1>3 DEF StoreInv, Transactions

\* Giving up releases only what the worker held.
LEMMA ReleaseFrame ==
  ASSUME TypeOK, NEW w \in Workers, Release(w)
  PROVE  /\ rows'[w] = {} /\ ~storing'[w] /\ todo'[w] = {}
         /\ \A v \in Workers \ {w} :
               /\ storing'[v] = storing[v] /\ rows'[v] = rows[v] /\ todo'[v] = todo[v]
               /\ \A c \in Conversations : convLock[c] = v => convLock'[c] = v
               /\ \A u \in Users : userLock[u] = v => userLock'[u] = v
         /\ \A c \in Conversations : convLock'[c] # w
         /\ \A u \in Users : userLock'[u] # w
         /\ \A c \in Conversations, v \in Workers : convLock'[c] = v => convLock[c] = v
         /\ \A u \in Users, v \in Workers : userLock'[u] = v => userLock[u] = v
  BY DEF TypeOK, Release

LEMMA ReturnFrame ==
  ASSUME TypeOK, NEW w \in Workers, Return(w)
  PROVE  /\ pc'[w] = "idle"
         /\ \A v \in Workers \ {w} :
               pc'[v] = pc[v] /\ cur'[v] = cur[v] /\ seq'[v] = seq[v] /\ to'[v] = to[v]
  BY DEF TypeOK, Return

\* The heart of the matter: what becomes visible in a commit is new, or is
\* another row of a message that is stored.
LEMMA CommitStores ==
  ASSUME TypeOK, CurOK, OrderInv, StoreInv, NEW w \in Workers, Commit(w)
  PROVE  StoreInv'
  <1> DEFINE msg == [uuid |-> cur[w], seq |-> seq[w]]
  <1> DEFINE event == [uuid |-> cur[w], seq |-> seq[w], to |-> to[w]]
  <1>1. /\ pc[w] = "fanout" /\ inbox' = inbox \cup rows[w]
        /\ Release(w) /\ Return(w) /\ cur[w] \in Uuids
    BY DEF Commit, CurOK
  <1>2. Inserted(w) /\ Numbered(w) /\ Located(w) /\ Carried(w)
    BY DEF StoreInv, Transactions
  <1>3. \A r \in rows[w] : /\ r.uuid = cur[w] /\ r.seq = seq[w]
                           /\ \A q \in inbox : q.user = r.user => q.uuid # cur[w]
                           /\ \A q \in rows[w] : q.user = r.user => q = r
    BY <1>2 DEF OrderInv, Pending, PendingRow, Carried
  <1>4. /\ \A m \in messages : m = [uuid |-> m.uuid, seq |-> m.seq]
        /\ ~storing[w] => msg \in messages
        /\ storing[w] => \A m \in messages : KeyOf[m.uuid] # KeyOf[cur[w]]
    BY <1>1, <1>2 DEF TypeOK, Message, Inserted, Located, SameKey
  <1>5. /\ \A r \in inbox : \E m \in messages : m.uuid = r.uuid /\ m.seq = r.seq
        /\ \A e \in outbox : \E m \in messages : m.uuid = e.uuid /\ m.seq = e.seq
    BY DEF StoreInv, Hydratable
  <1>6. /\ messages' = IF storing[w] THEN messages \cup {msg} ELSE messages
        /\ outbox' = IF storing[w] THEN outbox \cup {event} ELSE outbox
    <2>1. CASE storing[w]
      <3>1. messages' = messages \cup {msg} /\ AddEvent(event)
        BY <2>1 DEF Commit
      <3>2. \A e \in outbox : e.uuid # cur[w]
        BY <1>4, <1>5, <2>1
      <3> QED BY <2>1, <3>1, <3>2 DEF AddEvent
    <2>2. CASE ~storing[w]
      BY <2>2 DEF Commit
    <2> QED BY <2>1, <2>2
  <1>7. messages \subseteq messages' /\ msg \in messages'
    BY <1>4, <1>6
  <1>8. Hydratable'
    <2>1. \A r \in inbox' : [uuid |-> r.uuid, seq |-> r.seq] \in messages'
      BY <1>1, <1>3, <1>7 DEF StoreInv, Hydratable
    <2>2. ASSUME NEW e \in outbox' PROVE [uuid |-> e.uuid, seq |-> e.seq] \in messages'
      <3>1. e \in outbox \/ e = event
        BY <1>6
      <3>2. event.uuid = cur[w] /\ event.seq = seq[w]
        OBVIOUS
      <3>3. e \in outbox => [uuid |-> e.uuid, seq |-> e.seq] \in messages
        BY DEF StoreInv, Hydratable
      <3> HIDE DEF event
      <3> QED BY <1>7, <3>1, <3>2, <3>3
    <2> QED BY <2>1, <2>2 DEF Hydratable
  <1>9. ExactlyOnceStore'
    <2>1. \A m, n \in messages' : KeyOf[m.uuid] = KeyOf[n.uuid] => m = n
      BY <1>4, <1>6 DEF StoreInv, ExactlyOnceStore, SameKey
    <2>2. ASSUME NEW m \in messages' PROVE \E e \in outbox' : e.uuid = m.uuid
      <3>1. CASE m \in messages
        BY <1>6, <3>1 DEF StoreInv, ExactlyOnceStore
      <3>2. CASE m \notin messages
        <4>1. m = msg /\ event \in outbox'
          BY <1>6, <3>2
        <4> QED BY <4>1
      <3> QED BY <3>1, <3>2
    <2>3. \A e, f \in outbox' : KeyOf[e.uuid] = KeyOf[f.uuid] => e = f
      BY <1>4, <1>5, <1>6 DEF StoreInv, ExactlyOnceStore, SameKey
    <2>4. ASSUME NEW r \in rows[w], NEW s \in inbox, r.user = s.user PROVE KeyOf[r.uuid] # KeyOf[s.uuid]
      <3>1. PICK n \in messages : n.uuid = s.uuid
        BY <1>5
      <3>2. r.uuid = cur[w] /\ s.uuid # cur[w]
        BY <1>3, <2>4
      <3>3. CASE storing[w]
        BY <1>4, <3>1, <3>2, <3>3
      <3>4. CASE ~storing[w]
        <4>1. msg \in messages /\ msg.uuid = cur[w]
          BY <1>4, <3>4
        <4>2. KeyOf[cur[w]] = KeyOf[n.uuid] => msg = n
          BY <4>1 DEF StoreInv, ExactlyOnceStore, SameKey
        <4> QED BY <3>1, <3>2, <4>1, <4>2
      <3> QED BY <3>3, <3>4
    <2>5. \A r, s \in inbox' : r.user = s.user /\ KeyOf[r.uuid] = KeyOf[s.uuid] => r = s
      <3>1. \A r, s \in inbox : r.user = s.user /\ KeyOf[r.uuid] = KeyOf[s.uuid] => r = s
        BY DEF StoreInv, ExactlyOnceStore, SameKey
      <3> QED BY <1>1, <1>3, <2>4, <3>1
    <2> QED BY <2>1, <2>2, <2>3, <2>5, SameKeyIs DEF ExactlyOnceStore
  <1>10. /\ pc'[w] = "idle" /\ ~storing'[w] /\ rows'[w] = {}
         /\ \A v \in Workers \ {w} :
               /\ pc'[v] = pc[v] /\ cur'[v] = cur[v] /\ seq'[v] = seq[v]
               /\ storing'[v] = storing[v] /\ rows'[v] = rows[v]
               /\ \A c \in Conversations : convLock[c] = v => convLock'[c] = v
    BY <1>1, ReleaseFrame, ReturnFrame
  <1>11. ASSUME NEW v \in Workers \ {w} PROVE Inserted(v)'
    <2>1. SUFFICES ASSUME storing[v] PROVE Inserted(v)'
      BY <1>10 DEF Inserted
    <2>2. /\ pc[v] \in {"fanout", "append"}
          /\ \A m \in messages : KeyOf[m.uuid] # KeyOf[cur[v]]
          /\ \A x \in Workers \ {v} : storing[x] => KeyOf[cur[x]] # KeyOf[cur[v]]
      BY <2>1, SameKeyIs DEF StoreInv, Transactions, Inserted
    <2>3. \A m \in messages' : KeyOf[m.uuid] # KeyOf[cur[v]]
      BY <1>6, <2>2
    <2>4. \A x \in Workers \ {v} : storing'[x] => KeyOf[cur'[x]] # KeyOf[cur[v]]
      BY <1>10, <2>2
    <2> QED BY <1>10, <2>2, <2>3, <2>4, SameKeyIs DEF Inserted
  <1>12. ASSUME NEW v \in Workers \ {w} PROVE Numbered(v)' /\ Located(v)' /\ Carried(v)'
    <2>1. Inserted(v) /\ Numbered(v) /\ Located(v) /\ Carried(v)
      BY DEF StoreInv, Transactions
    <2>2. storing[v] \/ pc[v] = "insert" =>
             lastSeq'[ConvOf[cur[v]]] = lastSeq[ConvOf[cur[v]]]
      <3>1. SUFFICES ASSUME storing[v] \/ pc[v] = "insert"
                     PROVE  lastSeq'[ConvOf[cur[v]]] = lastSeq[ConvOf[cur[v]]]
        OBVIOUS
      <3>2. cur[v] \in Uuids /\ convLock[ConvOf[cur[v]]] = v
        BY <2>1, <3>1 DEF Numbered, Inserted, CurOK
      <3>3. CASE storing[w]
        <4>1. convLock[ConvOf[cur[w]]] = w
          BY <1>2, <3>3 DEF Numbered
        <4>2. lastSeq' = [lastSeq EXCEPT ![ConvOf[cur[w]]] = seq[w]]
          BY <3>3 DEF Commit
        <4> QED BY <3>2, <4>1, <4>2 DEF TypeOK
      <3>4. CASE ~storing[w]
        BY <3>4 DEF Commit
      <3> QED BY <3>3, <3>4
    <2> QED BY <1>7, <1>10, <2>1, <2>2, WorkerFrame
  <1>13. Inserted(w)' /\ Numbered(w)' /\ Located(w)' /\ Carried(w)'
    BY <1>10 DEF Inserted, Numbered, Located, Carried
  <1> QED BY <1>8, <1>9, <1>11, <1>12, <1>13 DEF StoreInv, Transactions

LEMMA StoreStep ==
  TypeOK /\ CurOK /\ OrderInv /\ StoreInv /\ [Next]_vars => StoreInv'
  <1> SUFFICES ASSUME TypeOK, CurOK, OrderInv, StoreInv, [Next]_vars PROVE StoreInv'
    OBVIOUS
  <1>0. /\ \A v \in Workers : Inserted(v) /\ Numbered(v) /\ Located(v) /\ Carried(v)
        /\ \A v \in Workers : rows[v] # {} => pc[v] \in {"fanout", "append"}
    BY DEF StoreInv, Transactions, OrderInv, Pending
  <1>1. ASSUME NEW w \in Workers, Receive(w) PROVE StoreInv'
    <2>1. ~storing[w] /\ rows[w] = {} /\ pc'[w] = "allocate"
      BY <1>0, <1>1 DEF Receive, Inserted, TypeOK
    <2>2. UNCHANGED <<tables, locks, seq, storing, rows>>
          /\ \A v \in Workers \ {w} : pc'[v] = pc[v] /\ cur'[v] = cur[v]
      BY <1>1 DEF Receive, TypeOK
    <2>3. Numbered(w)' /\ Located(w)' /\ Carried(w)'
      BY <2>1, <2>2 DEF Numbered, Located, Carried
    <2> QED BY <2>1, <2>2, <2>3, MoveFrame DEF tables, locks
  <1>2. ASSUME NEW w \in Workers, AllocateSequence(w) PROVE StoreInv'
    <2>1. ~storing[w] /\ rows[w] = {} /\ pc'[w] = "insert" /\ cur[w] \in Uuids
      BY <1>0, <1>2 DEF AllocateSequence, Inserted, TypeOK, CurOK
    <2>2. /\ convLock[ConvOf[cur[w]]] = None
          /\ convLock' = [convLock EXCEPT ![ConvOf[cur[w]]] = w]
          /\ seq' = [seq EXCEPT ![w] = lastSeq[ConvOf[cur[w]]] + 1]
          /\ UNCHANGED <<tables, cur, storing, rows>>
          /\ \A v \in Workers \ {w} : pc'[v] = pc[v] /\ seq'[v] = seq[v]
      BY <1>2 DEF AllocateSequence, TypeOK
    <2>3. \A v \in Workers \ {w}, c \in Conversations : convLock[c] = v => convLock'[c] = v
      BY <2>2 DEF TypeOK
    <2>4. Numbered(w)' /\ Located(w)' /\ Carried(w)'
      BY <2>1, <2>2 DEF Numbered, Located, Carried, TypeOK, tables
    <2> QED BY <2>1, <2>2, <2>3, <2>4, MoveFrame DEF tables
  <1>3. ASSUME NEW w \in Workers, InsertMessage(w) PROVE StoreInv'
    <2>1. /\ pc[w] = "insert" /\ rows[w] = {} /\ pc'[w] = "fanout" /\ storing'[w] = TRUE
          /\ UNCHANGED <<messages, outbox, inbox, lastSeq, convLock, cur, seq, rows>>
          /\ \A v \in Workers \ {w} : pc'[v] = pc[v] /\ storing'[v] = storing[v]
      BY <1>0, <1>3 DEF InsertMessage, TypeOK, tables, locks
    <2>2. /\ \A m \in messages : KeyOf[m.uuid] # KeyOf[cur[w]]
          /\ \A v \in Workers \ {w} : storing[v] => KeyOf[cur[v]] # KeyOf[cur[w]]
      BY <1>3, SameKeyIs DEF InsertMessage, UniqueHolders
    <2>3. Inserted(w)'
      BY <2>1, <2>2, SameKeyIs DEF Inserted
    <2>4. ASSUME NEW v \in Workers \ {w} PROVE Inserted(v)'
      <3>1. Inserted(v)
        BY <1>0
      <3>2. storing[v] => ~SameKey(cur[w], cur[v])
        BY <2>2, SameKeyIs
      <3> QED BY <2>1, <3>1, <3>2 DEF Inserted, SameKey
    <2>5. Numbered(w)' /\ Located(w)' /\ Carried(w)'
      BY <1>0, <2>1 DEF Numbered, Located, Carried
    <2>6. ASSUME NEW v \in Workers \ {w} PROVE Numbered(v)' /\ Located(v)' /\ Carried(v)'
      BY <1>0, <2>1, WorkerFrame
    <2>7. ExactlyOnceStore' /\ Hydratable'
      BY <2>1, TablesFrame DEF StoreInv
    <2> QED BY <2>3, <2>4, <2>5, <2>6, <2>7 DEF StoreInv, Transactions
  <1>4. ASSUME NEW w \in Workers, DuplicateKey(w) PROVE StoreInv'
    <2>1. /\ pc'[w] = "duplicate" /\ UNCHANGED <<tables, cur, seq>>
          /\ \A v \in Workers \ {w} : pc'[v] = pc[v]
      BY <1>4 DEF DuplicateKey, TypeOK
    <2>2. /\ rows'[w] = {} /\ ~storing'[w]
          /\ \A v \in Workers \ {w} :
                /\ storing'[v] = storing[v] /\ rows'[v] = rows[v]
                /\ \A c \in Conversations : convLock[c] = v => convLock'[c] = v
      BY <1>4, ReleaseFrame DEF DuplicateKey
    <2>3. Numbered(w)' /\ Located(w)' /\ Carried(w)'
      BY <2>1, <2>2 DEF Numbered, Located, Carried
    <2> QED BY <2>1, <2>2, <2>3, MoveFrame DEF tables
  <1>5. ASSUME NEW w \in Workers, ResolveDuplicate(w) PROVE StoreInv'
    <2>1. PICK m \in messages :
            /\ AddEvent([uuid |-> m.uuid, seq |-> m.seq, to |-> to[w]])
            /\ \/ cur'[w] = m.uuid /\ seq'[w] = m.seq /\ pc'[w] = "fanout"
               \/ pc'[w] = "idle"
      BY <1>5 DEF ResolveDuplicate, Return, TypeOK
    <2>2. /\ ~storing[w] /\ rows[w] = {}
          /\ UNCHANGED <<lastSeq, messages, inbox, convLock, storing, rows>>
          /\ \A v \in Workers \ {w} : pc'[v] = pc[v] /\ cur'[v] = cur[v] /\ seq'[v] = seq[v]
      BY <1>0, <1>5 DEF ResolveDuplicate, Return, Inserted, TypeOK, locks
    <2> DEFINE event == [uuid |-> m.uuid, seq |-> m.seq, to |-> to[w]]
    <2>3. /\ outbox \subseteq outbox' /\ outbox' \subseteq outbox \cup {event}
          /\ \A e \in outbox : e.uuid = m.uuid => outbox' = outbox
      BY <2>1 DEF AddEvent
    <2>4. event.uuid = m.uuid /\ event.seq = m.seq /\ m = [uuid |-> m.uuid, seq |-> m.seq]
      BY DEF TypeOK, Message
    <2> HIDE DEF event
    <2>5. ASSUME NEW e \in outbox, KeyOf[e.uuid] = KeyOf[m.uuid] PROVE e.uuid = m.uuid
      <3>1. [uuid |-> e.uuid, seq |-> e.seq] \in messages
        BY DEF StoreInv, Hydratable
      <3> QED BY <2>5, <3>1 DEF StoreInv, ExactlyOnceStore, SameKey
    <2>6. \A e, f \in outbox' : KeyOf[e.uuid] = KeyOf[f.uuid] => e = f
      BY <2>3, <2>4, <2>5 DEF StoreInv, ExactlyOnceStore, SameKey
    <2>7. ExactlyOnceStore'
      BY <2>2, <2>3, <2>6, SameKeyIs DEF StoreInv, ExactlyOnceStore
    <2>8. Hydratable'
      BY <2>2, <2>3, <2>4 DEF StoreInv, Hydratable
    <2>9. Numbered(w)' /\ Located(w)' /\ Carried(w)'
      <3>1. pc'[w] = "fanout" => [uuid |-> cur'[w], seq |-> seq'[w]] \in messages
        BY <2>1, <2>4
      <3> QED BY <2>1, <2>2, <3>1 DEF Numbered, Located, Carried
    <2>10. \A v \in Workers : Inserted(v)'
      <3>1. \A v \in Workers : storing'[v] =>
               storing[v] /\ cur'[v] = cur[v] /\ pc'[v] \in {"fanout", "append"}
        BY <1>0, <2>2 DEF Inserted
      <3> QED BY <2>2, <3>1, InsertedFrame DEF StoreInv
    <2>11. ASSUME NEW v \in Workers \ {w} PROVE Numbered(v)' /\ Located(v)' /\ Carried(v)'
      BY <1>0, <2>2, WorkerFrame
    <2> QED BY <2>7, <2>8, <2>9, <2>10, <2>11 DEF StoreInv, Transactions
  <1>6. ASSUME NEW w \in Workers, IdempotencyConflict(w) PROVE StoreInv'
    <2>1. /\ ~storing[w] /\ rows[w] = {} /\ pc'[w] = "idle"
          /\ UNCHANGED <<tables, locks, storing, rows>>
          /\ \A v \in Workers \ {w} : pc'[v] = pc[v] /\ cur'[v] = cur[v] /\ seq'[v] = seq[v]
      BY <1>0, <1>6 DEF IdempotencyConflict, Return, Inserted, TypeOK
    <2>2. Numbered(w)' /\ Located(w)' /\ Carried(w)'
      BY <2>1 DEF Numbered, Located, Carried
    <2> QED BY <2>1, <2>2, MoveFrame DEF tables, locks
  <1>7. ASSUME NEW w \in Workers, Project(w) PROVE StoreInv'
    <2>1. PICK e \in outbox : cur'[w] = e.uuid /\ seq'[w] = e.seq
      BY <1>7 DEF Project, TypeOK
    <2>2. /\ ~storing[w] /\ rows[w] = {} /\ pc'[w] = "fanout"
          /\ UNCHANGED <<tables, locks, storing, rows>>
          /\ \A v \in Workers \ {w} : pc'[v] = pc[v] /\ cur'[v] = cur[v] /\ seq'[v] = seq[v]
      BY <1>0, <1>7 DEF Project, Inserted, TypeOK
    <2>3. Numbered(w)' /\ Located(w)' /\ Carried(w)'
      BY <2>1, <2>2 DEF Numbered, Located, Carried, StoreInv, Hydratable, tables
    <2> QED BY <2>2, <2>3, MoveFrame DEF tables, locks
  <1>8. ASSUME NEW w \in Workers, LockUser(w) PROVE StoreInv'
    <2>1. /\ pc[w] = "fanout" /\ pc'[w] = "append"
          /\ UNCHANGED <<tables, convLock, cur, seq, storing, rows>>
          /\ \A v \in Workers \ {w} : pc'[v] = pc[v]
      BY <1>8 DEF LockUser, TypeOK
    <2>2. Numbered(w)' /\ Located(w)' /\ Carried(w)'
      BY <1>0, <2>1 DEF Numbered, Located, Carried, tables
    <2> QED BY <2>1, <2>2, MoveFrame DEF tables
  <1>9. ASSUME NEW w \in Workers, AppendRow(w) PROVE StoreInv'
    <2>1. /\ pc[w] = "append" /\ pc'[w] = "fanout"
          /\ UNCHANGED <<tables, locks, cur, seq, storing>>
          /\ \A v \in Workers \ {w} : pc'[v] = pc[v] /\ rows'[v] = rows[v]
      BY <1>9 DEF AppendRow, TypeOK
    <2>2. \A r \in rows'[w] : r \in rows[w] \/ r.seq = seq[w]
      BY <1>9 DEF AppendRow, TypeOK
    <2>3. Numbered(w)' /\ Located(w)' /\ Carried(w)'
      BY <1>0, <2>1, <2>2 DEF Numbered, Located, Carried, tables, locks
    <2> QED BY <2>1, <2>3, MoveFrame DEF tables, locks
  <1>10. ASSUME NEW w \in Workers, Commit(w) PROVE StoreInv'
    BY <1>10, CommitStores
  <1>11. ASSUME NEW w \in Workers, Abort(w) PROVE StoreInv'
    <2>1. /\ pc'[w] = "idle" /\ UNCHANGED tables
          /\ \A v \in Workers \ {w} : pc'[v] = pc[v] /\ cur'[v] = cur[v] /\ seq'[v] = seq[v]
      BY <1>11, ReturnFrame DEF Abort
    <2>2. /\ rows'[w] = {} /\ ~storing'[w]
          /\ \A v \in Workers \ {w} :
                /\ storing'[v] = storing[v] /\ rows'[v] = rows[v]
                /\ \A c \in Conversations : convLock[c] = v => convLock'[c] = v
      BY <1>11, ReleaseFrame DEF Abort
    <2>3. Numbered(w)' /\ Located(w)' /\ Carried(w)'
      BY <2>1, <2>2 DEF Numbered, Located, Carried
    <2> QED BY <2>1, <2>2, <2>3, MoveFrame DEF tables
  <1>12. ASSUME UNCHANGED <<tables, locks, pc, cur, seq, storing, rows>> PROVE StoreInv'
    BY <1>12 DEF tables, locks, StoreInv, Transactions, Inserted, Numbered, Located, Carried,
                 ExactlyOnceStore, Hydratable, SameKey
  <1>13. ASSUME NEW u \in Users, ListPage(u) PROVE StoreInv'
    BY <1>12, <1>13 DEF ListPage
  <1>14. CASE UNCHANGED vars
    BY <1>12, <1>14 DEF vars
  <1> QED
    BY <1>1, <1>2, <1>3, <1>4, <1>5, <1>6, <1>7, <1>8, <1>9, <1>10, <1>11, <1>13, <1>14
       DEF Next, Work

LEMMA StoreAlways == Spec => [](TypeOK /\ CurOK /\ OrderInv /\ StoreInv)
  BY OrderInit, OrderStep, StoreInit, StoreStep, TypeCorrect, PTL DEF Spec

\* Whatever is retried with a fresh uuid, redelivered, raced or rolled back,
\* one client key has one message, one event and one row for a recipient.
THEOREM StoredOnce == Spec => []ExactlyOnceStore
  <1>1. StoreInv => ExactlyOnceStore
    BY DEF StoreInv
  <1> QED BY <1>1, StoreAlways, PTL

\* A row and an event never point at a message that is not stored, also when
\* the projector or the duplicate path wrote them: no page fails to hydrate.
THEOREM NoDanglingLocator == Spec => []Hydratable
  <1>1. StoreInv => Hydratable
    BY DEF StoreInv
  <1> QED BY <1>1, StoreAlways, PTL

-----------------------------------------------------------------------------
(* The numbers of a conversation *)

Stored(c) == {m \in messages : ConvOf[m.uuid] = c}

\* The messages of a conversation are exactly as many as its last number.
Head(c) ==
    /\ {m.seq : m \in Stored(c)} = 1..lastSeq[c]
    /\ IsFiniteSet(Stored(c)) /\ Cardinality(Stored(c)) = lastSeq[c]
    /\ c \in Groups => groupLatest[c] = lastSeq[c]

HeadsInv == \A c \in Conversations : Head(c)

LEMMA HeadsInit == Init => HeadsInv
  <1> SUFFICES ASSUME Init, NEW c \in Conversations PROVE Head(c)
    BY DEF HeadsInv
  <1>1. Stored(c) = {} /\ lastSeq[c] = 0
    BY DEF Init, Stored
  <1>2. {m.seq : m \in Stored(c)} = 1..lastSeq[c]
    BY <1>1
  <1> QED BY <1>1, <1>2, FS_EmptySet DEF Init, Head

\* A conversation nobody stores to keeps its messages and its numbers.
LEMMA HeadFrame ==
  ASSUME NEW c \in Conversations, Head(c), Stored(c)' = Stored(c),
         lastSeq'[c] = lastSeq[c], c \in Groups => groupLatest'[c] = groupLatest[c]
  PROVE  Head(c)'
  BY DEF Head

\* The committed message takes the one number that follows.
LEMMA CommitNumbers ==
  ASSUME TypeOK, CurOK, StoreInv, HeadsInv, NEW w \in Workers, Commit(w)
  PROVE  HeadsInv'
  <1> SUFFICES ASSUME NEW c \in Conversations PROVE Head(c)'
    BY DEF HeadsInv
  <1>0. Head(c)
    BY DEF HeadsInv
  <1>1. CASE ~storing[w]
    <2>1. UNCHANGED <<messages, lastSeq, groupLatest>>
      BY <1>1 DEF Commit
    <2> QED BY <1>0, <2>1, HeadFrame DEF Stored
  <1>2. CASE storing[w]
    <2> DEFINE msg == [uuid |-> cur[w], seq |-> seq[w]]
    <2> DEFINE d == ConvOf[cur[w]]
    <2>1. /\ cur[w] \in Uuids /\ d \in Conversations /\ pc[w] = "fanout"
          /\ seq[w] = lastSeq[d] + 1
          /\ \A m \in messages : m.uuid # cur[w]
      BY <1>2 DEF Commit, CurOK, StoreInv, Transactions, Inserted, Numbered, SameKey
    <2>2. /\ messages' = messages \cup {msg}
          /\ lastSeq' = [lastSeq EXCEPT ![d] = seq[w]]
          /\ groupLatest' = [g \in Groups |->
                               IF g = d /\ groupLatest[g] < seq[w]
                               THEN seq[w] ELSE groupLatest[g]]
      BY <1>2 DEF Commit
    <2>3. msg.uuid = cur[w] /\ msg.seq = seq[w] /\ msg \notin messages
      BY <2>1
    <2> HIDE DEF msg
    <2>4. CASE c # d
      <3>1. Stored(c)' = Stored(c)
        BY <2>2, <2>3, <2>4 DEF Stored
      <3>2. lastSeq'[c] = lastSeq[c] /\ (c \in Groups => groupLatest'[c] = groupLatest[c])
        BY <2>2, <2>4 DEF TypeOK
      <3> QED BY <1>0, <3>1, <3>2, HeadFrame
    <2>5. CASE c = d
      <3>1. Stored(c)' = Stored(c) \cup {msg} /\ msg \notin Stored(c)
        BY <2>2, <2>3, <2>5 DEF Stored
      <3>2. lastSeq'[c] = lastSeq[c] + 1 /\ seq[w] = lastSeq[c] + 1 /\ lastSeq[c] \in Nat
        BY <2>1, <2>2, <2>5 DEF TypeOK
      <3>3. IsFiniteSet(Stored(c)')
            /\ \/ msg \in Stored(c)
               \/ Cardinality(Stored(c)') = Cardinality(Stored(c)) + 1
        BY <1>0, <3>1, FS_AddElement DEF Head
      <3>4. Cardinality(Stored(c)') = lastSeq'[c]
        BY <1>0, <3>1, <3>2, <3>3 DEF Head
      <3>5. {m.seq : m \in Stored(c)'} = {m.seq : m \in Stored(c)} \cup {seq[w]}
        BY <2>3, <3>1
      <3>6. 1..(lastSeq[c] + 1) = 1..lastSeq[c] \cup {lastSeq[c] + 1}
        BY <3>2
      <3>7. {m.seq : m \in Stored(c)'} = 1..lastSeq'[c]
        BY <1>0, <3>2, <3>5, <3>6 DEF Head
      <3>8. c \in Groups => groupLatest'[c] = lastSeq'[c]
        BY <1>0, <2>2, <2>5, <3>2 DEF Head
      <3> QED BY <3>3, <3>4, <3>7, <3>8 DEF Head
    <2> QED BY <2>4, <2>5
  <1> QED BY <1>1, <1>2

LEMMA HeadsStep == TypeOK /\ CurOK /\ StoreInv /\ HeadsInv /\ [Next]_vars => HeadsInv'
  <1> SUFFICES ASSUME TypeOK, CurOK, StoreInv, HeadsInv, [Next]_vars PROVE HeadsInv'
    OBVIOUS
  <1>1. ASSUME UNCHANGED <<messages, lastSeq, groupLatest>> PROVE HeadsInv'
    BY <1>1 DEF HeadsInv, Head, Stored
  <1>2. ASSUME NEW w \in Workers, Work(w), ~Commit(w)
        PROVE  UNCHANGED <<messages, lastSeq, groupLatest>>
    BY <1>2 DEF Work, Receive, AllocateSequence, InsertMessage, DuplicateKey, ResolveDuplicate,
                IdempotencyConflict, Project, LockUser, AppendRow, Abort, tables
  <1>3. ASSUME NEW u \in Users, ListPage(u) PROVE UNCHANGED <<messages, lastSeq, groupLatest>>
    BY <1>3 DEF ListPage, tables
  <1>4. CASE UNCHANGED vars
    BY <1>1, <1>4 DEF vars, tables
  <1> QED BY <1>1, <1>2, <1>3, <1>4, CommitNumbers DEF Next

\* The numbers of a conversation have no gap and no repetition, whichever
\* transactions fail after they took one, and a group's head is the last one.
THEOREM GaplessHeads == Spec => []ConversationHeads
  <1>1. Spec => []HeadsInv
    BY HeadsInit, HeadsStep, StoreAlways, PTL DEF Spec
  <1>2. HeadsInv => ConversationHeads
    BY DEF HeadsInv, Head, Stored, ConversationHeads
  <1> QED BY <1>1, <1>2, PTL

-----------------------------------------------------------------------------
(* No transactions wait for each other in a circle *)

\* Locks are held by those who have come so far, and a user's lock is behind
\* every recipient that is left, or is the one the next row is written under.
LockInv ==
    /\ \A c \in Conversations, v \in Workers :
          convLock[c] = v => pc[v] \in {"insert", "fanout", "append"}
    /\ \A u \in Users, v \in Workers :
          userLock[u] = v =>
             /\ pc[v] \in {"fanout", "append"}
             /\ \A x \in todo[v] : u < x \/ (u = x /\ pc[v] = "append")

LEMMA LockInit == Init => LockInv
  BY DEF Init, LockInv

\* Only the worker that moves may change what it holds.
LEMMA LockFrame ==
  ASSUME LockInv, NEW w \in Workers,
         \A v \in Workers \ {w} :
            /\ pc'[v] = pc[v] /\ todo'[v] = todo[v]
            /\ \A c \in Conversations : convLock'[c] = v => convLock[c] = v
            /\ \A u \in Users : userLock'[u] = v => userLock[u] = v,
         \A c \in Conversations : convLock'[c] = w => pc'[w] \in {"insert", "fanout", "append"},
         \A u \in Users : userLock'[u] = w =>
            /\ pc'[w] \in {"fanout", "append"}
            /\ \A x \in todo'[w] : u < x \/ (u = x /\ pc'[w] = "append")
  PROVE  LockInv'
  BY DEF LockInv

LEMMA LockStep == TypeOK /\ LockInv /\ [Next]_vars => LockInv'
  <1> SUFFICES ASSUME TypeOK, LockInv, [Next]_vars PROVE LockInv'
    OBVIOUS
  <1>1. ASSUME NEW w \in Workers, pc[w] \in {"idle", "allocate", "duplicate"}
        PROVE  /\ \A c \in Conversations : convLock[c] # w
               /\ \A u \in Users : userLock[u] # w
    BY <1>1 DEF LockInv
  <1>2. ASSUME NEW w \in Workers, Receive(w) \/ Project(w) \/ IdempotencyConflict(w) PROVE LockInv'
    <2>1. /\ pc[w] \in {"idle", "duplicate"} /\ UNCHANGED locks
          /\ \A v \in Workers \ {w} : pc'[v] = pc[v] /\ todo'[v] = todo[v]
      BY <1>2 DEF Receive, Project, IdempotencyConflict, Return, TypeOK
    <2> QED BY <1>1, <2>1, LockFrame DEF locks
  <1>3. ASSUME NEW w \in Workers, ResolveDuplicate(w) PROVE LockInv'
    <2>1. /\ pc[w] = "duplicate" /\ UNCHANGED locks
          /\ \A v \in Workers \ {w} : pc'[v] = pc[v] /\ todo'[v] = todo[v]
      BY <1>3 DEF ResolveDuplicate, Return, TypeOK
    <2> QED BY <1>1, <2>1, LockFrame DEF locks
  <1>4. ASSUME NEW w \in Workers, AllocateSequence(w) PROVE LockInv'
    <2>1. /\ pc[w] = "allocate" /\ pc'[w] = "insert" /\ UNCHANGED <<userLock, todo>>
          /\ convLock' = [convLock EXCEPT ![ConvOf[cur[w]]] = w]
          /\ \A v \in Workers \ {w} : pc'[v] = pc[v]
      BY <1>4 DEF AllocateSequence, TypeOK
    <2> QED BY <1>1, <2>1, LockFrame DEF TypeOK
  <1>5. ASSUME NEW w \in Workers, InsertMessage(w) PROVE LockInv'
    <2>1. /\ pc[w] = "insert" /\ pc'[w] = "fanout" /\ UNCHANGED locks
          /\ \A v \in Workers \ {w} : pc'[v] = pc[v] /\ todo'[v] = todo[v]
      BY <1>5 DEF InsertMessage, TypeOK
    <2>2. \A u \in Users : userLock[u] # w
      BY <2>1 DEF LockInv
    <2> QED BY <2>1, <2>2, LockFrame DEF locks
  <1>6. ASSUME NEW w \in Workers, LockUser(w) PROVE LockInv'
    <2>1. PICK u \in Users : /\ NextUser(w, u)
                             /\ userLock' = [userLock EXCEPT ![u] = w]
      BY <1>6 DEF LockUser
    <2>2. /\ pc[w] = "fanout" /\ pc'[w] = "append" /\ UNCHANGED <<convLock, todo>>
          /\ \A v \in Workers \ {w} : pc'[v] = pc[v]
      BY <1>6 DEF LockUser, TypeOK
    <2>3. \A x \in todo[w] : u < x \/ u = x
      <3> SUFFICES ASSUME NEW x \in todo[w] PROVE u < x \/ u = x
        OBVIOUS
      <3>1. u \in Nat /\ x \in Nat /\ u <= x
        BY <2>1 DEF NextUser, TypeOK
      <3> QED BY <3>1
    <2>4. \A y \in Users : userLock'[y] = w => y = u \/ userLock[y] = w
      BY <2>1 DEF TypeOK
    <2>5. \A v \in Workers \ {w}, y \in Users : userLock'[y] = v => userLock[y] = v
      BY <2>1 DEF TypeOK
    <2>6. \A y \in Users : userLock'[y] = w => \A x \in todo[w] : y < x \/ y = x
      BY <2>2, <2>3, <2>4 DEF LockInv
    <2> QED BY <2>2, <2>5, <2>6, LockFrame
  <1>7. ASSUME NEW w \in Workers, AppendRow(w) PROVE LockInv'
    <2>1. PICK u \in Users : /\ NextUser(w, u)
                             /\ todo' = [todo EXCEPT ![w] = @ \ {u}]
      BY <1>7 DEF AppendRow
    <2>2. /\ pc[w] = "append" /\ pc'[w] = "fanout" /\ UNCHANGED locks
          /\ todo'[w] = todo[w] \ {u}
          /\ \A v \in Workers \ {w} : pc'[v] = pc[v] /\ todo'[v] = todo[v]
      BY <1>7, <2>1 DEF AppendRow, TypeOK
    <2>3. ASSUME NEW y \in Users, userLock[y] = w, NEW x \in todo[w] \ {u} PROVE y < x
      <3>1. x \in Nat /\ y \in Nat /\ u \in Nat /\ u <= x
        BY <2>1 DEF NextUser, TypeOK
      <3>2. (y < x \/ y = x) /\ (y < u \/ y = u)
        BY <2>1, <2>3 DEF LockInv, NextUser
      <3> QED BY <2>3, <3>1, <3>2
    <2>4. \A y \in Users : userLock'[y] = w => \A x \in todo'[w] : y < x
      BY <2>2, <2>3 DEF locks
    <2>5. \A c \in Conversations, v \in Workers : convLock'[c] = v => convLock[c] = v
      BY <2>2 DEF locks
    <2>6. \A y \in Users, v \in Workers : userLock'[y] = v => userLock[y] = v
      BY <2>2 DEF locks
    <2> QED BY <2>2, <2>4, <2>5, <2>6, LockFrame
  <1>8. ASSUME NEW w \in Workers, DuplicateKey(w) \/ Commit(w) \/ Abort(w) PROVE LockInv'
    <2>1. Release(w) /\ \A v \in Workers \ {w} : pc'[v] = pc[v]
      BY <1>8 DEF DuplicateKey, Commit, Abort, Return, TypeOK
    <2>2. /\ \A v \in Workers \ {w} : todo'[v] = todo[v]
          /\ \A c \in Conversations : convLock'[c] # w
          /\ \A u \in Users : userLock'[u] # w
          /\ \A c \in Conversations, v \in Workers : convLock'[c] = v => convLock[c] = v
          /\ \A u \in Users, v \in Workers : userLock'[u] = v => userLock[u] = v
      BY <2>1, ReleaseFrame
    <2> QED BY <2>1, <2>2, LockFrame
  <1>9. ASSUME UNCHANGED <<locks, pc, todo>> PROVE LockInv'
    BY <1>9 DEF locks, LockInv
  <1>10. ASSUME NEW u \in Users, ListPage(u) PROVE LockInv'
    BY <1>9, <1>10 DEF ListPage
  <1>11. CASE UNCHANGED vars
    BY <1>9, <1>11 DEF vars
  <1> QED BY <1>2, <1>3, <1>4, <1>5, <1>6, <1>7, <1>8, <1>10, <1>11 DEF Next, Work

\* A finite set of numbers has a greatest one.
LEMMA FiniteMax ==
  ASSUME NEW S \in SUBSET Nat, IsFiniteSet(S), S # {}
  PROVE  \E x \in S : \A y \in S : y <= x
  <1> DEFINE above(x) == {y \in S : x < y}
  <1> DEFINE tops == {above(x) : x \in S}
  <1>1. tops \subseteq FiniteSubsetsOf(S) /\ tops # {}
    <2>1. FiniteSubsetsOf(S) = SUBSET S
      BY FS_FiniteSubsetsOfFinite
    <2>2. tops \subseteq SUBSET S /\ tops # {}
      <3>1. \A x \in S : above(x) \in SUBSET S
        OBVIOUS
      <3> HIDE DEF above
      <3> QED BY <3>1
    <2> QED BY <2>1, <2>2
  <1>2. PICK t \in tops : \A s \in tops : ~ (<<s, t>> \in StrictSubsetOrdering(S))
    <2> HIDE DEF tops
    <2> QED BY <1>1, FS_StrictSubsetOrderingWellFounded, WFMin
  <1>3. PICK x \in S : t = above(x)
    OBVIOUS
  <1>4. ASSUME NEW y \in S PROVE y <= x
    <2>1. x \in Nat /\ y \in Nat
      OBVIOUS
    <2>2. SUFFICES ASSUME x < y PROVE FALSE
      BY <2>1
    <2>3. above(y) \in tops /\ above(y) \in SUBSET S /\ above(x) \in SUBSET S
      OBVIOUS
    <2>4. above(y) \subseteq above(x) /\ y \in above(x) /\ y \notin above(y)
      <3>1. \A z \in Nat : y < z => x < z
        BY <2>1, <2>2
      <3>2. ~ (y < y)
        BY <2>1
      <3> QED BY <2>2, <3>1, <3>2
    <2>5. above(y) # above(x)
      BY <2>4
    <2> HIDE DEF above, tops
    <2>6. <<above(y), above(x)>> \in StrictSubsetOrdering(S)
      BY <2>3, <2>4, <2>5 DEF StrictSubsetOrdering
    <2> QED BY <1>2, <1>3, <2>3, <2>6
  <1> QED BY <1>4

\* In a circle someone would wait for a user's lock, and whoever holds it for a
\* user that is greater still.
LEMMA OrderedLocks ==
  TypeOK /\ CurOK /\ Transactions /\ LockInv => NoWaitCycle
  <1> SUFFICES ASSUME TypeOK, CurOK, Transactions, LockInv,
                      NEW ring \in SUBSET Workers, ring # {},
                      \A w \in ring : WaitsFor(w) \cap ring # {}
               PROVE  FALSE
    BY DEF NoWaitCycle
  <1>1. \A w \in ring : pc[w] \in {"allocate", "insert", "fanout"}
    BY DEF WaitsFor
  <1>2. ASSUME NEW w \in ring, pc[w] = "allocate"
        PROVE  \E v \in ring : pc[v] \in {"insert", "fanout"}
    <2>1. cur[w] \in Uuids /\ WaitsFor(w) = {convLock[ConvOf[cur[w]]]} \ {None}
      BY <1>2 DEF WaitsFor, CurOK
    <2>2. PICK v \in ring : convLock[ConvOf[cur[w]]] = v
      BY <2>1
    <2>3. pc[v] \in {"insert", "fanout", "append"}
      BY <2>1, <2>2 DEF LockInv
    <2> QED BY <1>1, <2>3
  <1>3. ASSUME NEW w \in ring, pc[w] = "insert"
        PROVE  \E v \in ring : pc[v] = "fanout"
    <2>1. WaitsFor(w) = UniqueHolders(w)
      BY <1>3 DEF WaitsFor
    <2>2. PICK v \in ring : storing[v]
      BY <2>1 DEF UniqueHolders
    <2>3. pc[v] \in {"fanout", "append"}
      BY <2>2 DEF Transactions, Inserted
    <2> QED BY <1>1, <2>3
  <1>4. \E w \in ring : pc[w] = "fanout"
    BY <1>1, <1>2, <1>3
  <1>5. ASSUME NEW w \in ring, pc[w] = "fanout"
        PROVE  \E u \in Users, v \in ring : NextUser(w, u) /\ userLock[u] = v
    <2>1. WaitsFor(w) = {userLock[u] : u \in {x \in Users : NextUser(w, x)}} \ {None}
      BY <1>5 DEF WaitsFor
    <2> QED BY <2>1
  <1>6. ASSUME NEW w \in ring, pc[w] = "fanout", NEW u \in Users, NextUser(w, u)
        PROVE  \E v \in ring, y \in Users : pc[v] = "fanout" /\ NextUser(v, y) /\ u < y
    <2>1. PICK x \in Users, v \in ring : NextUser(w, x) /\ userLock[x] = v
      BY <1>5, <1>6
    <2>2. x = u
      <3>1. x \in Nat /\ u \in Nat /\ x <= u /\ u <= x
        BY <1>6, <2>1 DEF NextUser
      <3> QED BY <3>1
    <2>3. /\ pc[v] \in {"fanout", "append"}
          /\ \A z \in todo[v] : u < z \/ (u = z /\ pc[v] = "append")
      BY <2>1, <2>2 DEF LockInv
    <2>4. pc[v] = "fanout"
      BY <1>1, <2>3
    <2>5. PICK y \in Users : NextUser(v, y)
      BY <1>5, <2>4
    <2> QED BY <2>3, <2>4, <2>5 DEF NextUser
  <1> DEFINE awaited == {u \in Users : \E w \in ring : pc[w] = "fanout" /\ NextUser(w, u)}
  <1>7. awaited # {}
    BY <1>4, <1>5
  <1>8. \A u \in awaited : \E y \in awaited : u < y
    BY <1>6
  <1>9. awaited \in SUBSET Nat /\ IsFiniteSet(awaited)
    BY FS_Subset
  <1> HIDE DEF awaited
  <1>10. PICK top \in awaited : \A y \in awaited : y <= top
    BY <1>7, <1>9, FiniteMax
  <1>11. PICK y \in awaited : top < y
    BY <1>8
  <1>12. y <= top /\ y \in Nat /\ top \in Nat
    BY <1>9, <1>10
  <1> QED BY <1>11, <1>12

\* The message transactions, the duplicate path and the projectors take their
\* locks in one order, so that no set of them ever waits in a circle.
THEOREM NoCircle == Spec => []NoWaitCycle
  <1>1. Spec => []LockInv
    BY LockInit, LockStep, TypeCorrect, PTL DEF Spec
  <1>2. StoreInv => Transactions
    BY DEF StoreInv
  <1> QED BY <1>1, <1>2, OrderedLocks, StoreAlways, PTL
=============================================================================
