----------------------------- MODULE SyncClient -----------------------------
(***************************************************************************)
(* The browser's copy of one user's inbox: tabs of one browser share an    *)
(* IndexedDB store, each pulls pages after the stored cursor, commits a    *)
(* page together with the cursor, and then acknowledges it to the server.  *)
(*                                                                         *)
(* The inbox is what SyncInbox promises: rows appear in the order of their *)
(* sync_seq.  The tabs have one device id (it is kept in localStorage),    *)
(* hence one checkpoint.                                                   *)
(*                                                                         *)
(* The messages of a group are pulled by their message_seq as well, those  *)
(* of a hot group, which are in nobody's inbox, in no other way.  A row    *)
(* that is written by a group pull has its message_seq where the others    *)
(* have their sync_seq.  Messages are numbered in the order in which they  *)
(* become visible; one group is looked at.                                 *)
(***************************************************************************)
EXTENDS Naturals, Sequences, FiniteSetsExt

CONSTANTS
    Tabs,
    Pulls,              \* recoveries of the group, in whatever tabs
    Conversations,
    Group,              \* the conversation that is a group
    Ahead,              \* how far sync_seq, which all users share, is ahead of message_seq
    PageSize,
    HighWater,          \* more rows than this start an eviction
    LowWater,           \* the rows an eviction leaves
    MinPerConversation, \* newest rows of a conversation that are spared first
    MaxSeq,             \* bound on the rows of the inbox
    MaxFaults,          \* bound on runs that are interrupted
    MaxClears           \* bound on sign-outs

ASSUME ClientAssumption ==
    /\ Group \in Conversations /\ Ahead \in Nat
    /\ PageSize \in Nat \ {0} /\ HighWater \in Nat \ {0}
    /\ LowWater \in 0..HighWater /\ MinPerConversation \in 0..LowWater
    /\ MaxSeq \in Nat /\ MaxFaults \in Nat /\ MaxClears \in Nat

VARIABLES
    messages,    \* the messages: conversation, message_seq, in the user's inbox or not
    checkpoint,  \* the device's checkpoint on the server
    acks,        \* acknowledgements on their way: [tab, seq]
    store,       \* the messages in IndexedDB
    pulled,      \* those that were last written by a group pull
    cursor,      \* sync_seq of the stored state
    groupCursor, \* message_seq of the stored group state
    manifest,    \* message_count and compacted of the stored state
    pc,          \* what recover() is waiting for in a tab
    at,          \* the tab's cursor
    upto,        \* next_seq of the page the tab holds
    more,        \* has_more of that page
    target,      \* the last row of the inbox when the tab's run began
    stale,       \* there was a sign-out since the tab's run began
    evicted,     \* rows evicted since the last sign-out
    everStored,  \* rows that have ever been committed
    pull,        \* a group recovery: where it is, its cursor, page and goal
    torn,        \* since the last sign-out a page was committed above a gap
    mixed,       \* since then an inbox page has held a message already pulled
    faults,
    clears

serverVars == <<messages, checkpoint, acks>>
storeVars == <<store, pulled, cursor, groupCursor, manifest, evicted, everStored, torn, mixed>>
tabVars == <<pc, at, upto, more, target, stale>>
vars == <<serverVars, storeVars, tabVars, pull, faults, clears>>

Sent == DOMAIN messages
Inbox == {m \in Sent : messages[m].fanned}
OfConv(c) == {m \in Sent : messages[m].conv = c}
OfGroup == OfConv(Group)
LastRow == Max(Inbox \union {0})
MessageSeq(m) == messages[m].seq
Latest == Cardinality(OfGroup)

NoPull == [step |-> "idle", at |-> 0, upto |-> 0, target |-> 0, stale |-> FALSE]

Page(t) == {m \in Inbox : at[t] < m /\ m <= upto[t]}

Empty == [count |-> 0, compacted |-> FALSE]

\* Besides the types: an eviction keeps the store under its high water mark.
TypeOK ==
    /\ messages \in Seq([conv : Conversations, seq : 1..MaxSeq, fanned : BOOLEAN]) /\ Len(messages) <= MaxSeq
    /\ checkpoint \in Inbox \union {0}
    /\ acks \subseteq [tab : Tabs, seq : Inbox]
    /\ store \subseteq Sent /\ pulled \subseteq store /\ Cardinality(store) <= HighWater
    /\ cursor \in Inbox \union {0} /\ groupCursor \in 0..Latest
    /\ manifest \in [count : Nat, compacted : BOOLEAN]
    /\ pc \in [Tabs -> {"idle", "ack", "list", "commit"}]
    /\ \A t \in Tabs : at[t] \in Inbox \union {0} /\ target[t] \in Inbox \union {0}
    /\ \A t \in Tabs : pc[t] = "commit" => Cardinality(Page(t)) \in 1..PageSize
    /\ more \in [Tabs -> BOOLEAN] /\ stale \in [Tabs -> BOOLEAN]
    /\ evicted \subseteq everStored /\ everStored \subseteq Sent
    /\ pull \in [Pulls -> [step : {"idle", "list", "commit"}, at : 0..Latest, upto : 0..Latest,
                           target : 0..Latest, stale : BOOLEAN]]
    /\ torn \in BOOLEAN /\ mixed \in BOOLEAN /\ faults \in 0..MaxFaults /\ clears \in 0..MaxClears

Init ==
    /\ messages = << >> /\ checkpoint = 0 /\ acks = {}
    /\ store = {} /\ pulled = {} /\ cursor = 0 /\ groupCursor = 0 /\ manifest = Empty
    /\ evicted = {} /\ everStored = {} /\ torn = FALSE /\ mixed = FALSE
    /\ pull = [p \in Pulls |-> NoPull]
    /\ pc = [t \in Tabs |-> "idle"]
    /\ at = [t \in Tabs |-> 0]
    /\ upto = [t \in Tabs |-> 0]
    /\ more = [t \in Tabs |-> FALSE]
    /\ target = [t \in Tabs |-> 0]
    /\ stale = [t \in Tabs |-> FALSE]
    /\ faults = 0 /\ clears = 0

-----------------------------------------------------------------------------
(* The server *)

\* A message for the user becomes visible; those of a hot group are not fanned out.
Arrive(c) ==
    /\ Len(messages) < MaxSeq
    /\ \E fanned \in (IF c = Group THEN BOOLEAN ELSE {TRUE}) :
          messages' = Append(messages,
             [conv |-> c, seq |-> Cardinality(OfConv(c)) + 1, fanned |-> fanned])
    /\ UNCHANGED <<checkpoint, acks, storeVars, tabVars, pull, faults, clears>>

\* Variant: the upsert assigns the sequence it is given.
ServerAckLastWins(a) ==
    /\ a \in acks
    /\ acks' = acks \ {a}
    /\ checkpoint' = IF a.seq <= LastRow THEN a.seq ELSE checkpoint
    /\ UNCHANGED <<messages, storeVars, tabVars, pull, faults, clears>>

\* AdvanceCheckpoint: refuses what is ahead of the inbox, and an upsert with
\* GREATEST does the rest.
ServerAck(a) ==
    /\ a \in acks
    /\ acks' = acks \ {a}
    /\ checkpoint' = IF a.seq <= LastRow /\ a.seq > checkpoint THEN a.seq ELSE checkpoint
    /\ UNCHANGED <<messages, storeVars, tabVars, pull, faults, clears>>

-----------------------------------------------------------------------------
(* IndexedDB: a readwrite transaction is one step *)

\* The field by which rows are ordered, and the key for rows that agree in it.
Precedes(q, r, renumbered) ==
    LET number(m) == IF m \in renumbered THEN MessageSeq(m) ELSE Ahead + m
    IN  number(q) < number(r) \/ (number(q) = number(r) /\ q < r)

\* Of the rows given, those that are not among the last of their conversation.
Spare(rows, renumbered) ==
    {r \in rows : Cardinality({q \in rows : /\ messages[q].conv = messages[r].conv
                                           /\ Precedes(r, q, renumbered)}) >= MinPerConversation}

\* Variant: whatever the conversation.
OlderThan(q, r, spare, renumbered) == Precedes(q, r, renumbered)

\* The order in which rows are evicted: the spare ones first.
EvictedBefore(q, r, spare, renumbered) ==
    \/ q \in spare /\ r \notin spare
    \/ (q \in spare <=> r \in spare) /\ Precedes(q, r, renumbered)

Excess(rows) ==
    IF Cardinality(rows) > HighWater THEN Cardinality(rows) - LowWater ELSE 0

\* Variant: a row that is the last of its conversation is never evicted.
EvictSpare(rows, renumbered) ==
    LET spare == Spare(rows, renumbered)
    IN  {r \in spare :
            Cardinality({q \in rows : EvictedBefore(q, r, spare, renumbered)}) < Excess(rows)}

\* evictIfNeeded
Evict(rows, renumbered) ==
    LET spare == Spare(rows, renumbered)
    IN  {r \in rows :
            Cardinality({q \in rows : EvictedBefore(q, r, spare, renumbered)}) < Excess(rows)}

\* Variant: the manifest tells what this page evicted.
ManifestOfPage(rows, gone) ==
    [count |-> Cardinality(rows \ gone), compacted |-> gone # {}]

\* What evictIfNeeded writes with the cursor.
ManifestAfter(rows, gone) ==
    [count |-> Cardinality(rows \ gone), compacted |-> manifest.compacted \/ gone # {}]

\* The rows of a page are put, those that the store has already included.
Put(page, renumbered) ==
    LET rows == store \union page
        gone == Evict(rows, renumbered)
    IN /\ store' = rows \ gone
       /\ pulled' = renumbered \ gone
       /\ evicted' = evicted \union gone
       /\ everStored' = everStored \union page
       /\ manifest' = ManifestAfter(rows, gone)

-----------------------------------------------------------------------------
(* recover() in a tab; every action ends at an await *)

Goto(t, step) == pc' = [pc EXCEPT ![t] = step]

Send(t, seq) == acks' = acks \union {[tab |-> t, seq |-> seq]}

\* recover() returns or throws: what the tab held is gone.
Leave(t) ==
    /\ Goto(t, "idle")
    /\ at' = [at EXCEPT ![t] = 0]
    /\ upto' = [upto EXCEPT ![t] = 0]
    /\ more' = [more EXCEPT ![t] = FALSE]
    /\ target' = [target EXCEPT ![t] = 0]
    /\ stale' = [stale EXCEPT ![t] = FALSE]

\* Variant: a run continues where the server says that the device is.
StartFromCheckpoint(t) ==
    /\ pc[t] = "idle"
    /\ at' = [at EXCEPT ![t] = IF checkpoint > cursor THEN checkpoint ELSE cursor]
    /\ more' = [more EXCEPT ![t] = TRUE]
    /\ target' = [target EXCEPT ![t] = LastRow]
    /\ stale' = [stale EXCEPT ![t] = FALSE]
    /\ Goto(t, "list")
    /\ UNCHANGED <<serverVars, storeVars, upto, pull, faults, clears>>

\* load, and the acknowledgement that a previous run may have lost.  A tab
\* runs one recover() at a time (activeSync).
Start(t) ==
    /\ pc[t] = "idle"
    /\ at' = [at EXCEPT ![t] = cursor]
    /\ more' = [more EXCEPT ![t] = TRUE]
    /\ target' = [target EXCEPT ![t] = LastRow]
    /\ stale' = [stale EXCEPT ![t] = FALSE]
    /\ \/ cursor > 0 /\ Send(t, cursor) /\ Goto(t, "ack")
       \/ cursor = 0 /\ Goto(t, "list") /\ UNCHANGED acks
    /\ UNCHANGED <<messages, checkpoint, storeVars, upto, pull, faults, clears>>

\* The response of the server to the tab's last acknowledgement.  Without a
\* page to come, the run returns.
Acked(t) ==
    /\ pc[t] = "ack"
    /\ [tab |-> t, seq |-> at[t]] \notin acks
    /\ \/ more[t] /\ Goto(t, "list") /\ UNCHANGED <<at, upto, more, target, stale>>
       \/ ~more[t] /\ Leave(t)
    /\ UNCHANGED <<serverVars, storeVars, pull, faults, clears>>

\* Variant: the server reads no more rows than the page holds.
NoRowAhead(t) == FALSE

After(t) == {m \in Inbox : m > at[t]}

\* The server reads one row more than the page holds.
HasMore(t) == Cardinality(After(t)) > PageSize

PageEnd(t) == CHOOSE m \in After(t) :
    Cardinality({q \in After(t) : q <= m}) =
        IF Cardinality(After(t)) > PageSize THEN PageSize ELSE Cardinality(After(t))

\* Variant: a page is acknowledged when it is received.
ListAndAck(t) ==
    /\ pc[t] = "list"
    /\ \/ /\ After(t) # {}
          /\ more' = [more EXCEPT ![t] = HasMore(t)]
          /\ upto' = [upto EXCEPT ![t] = PageEnd(t)]
          /\ Goto(t, "commit") /\ Send(t, PageEnd(t))
          /\ UNCHANGED <<at, target, stale>>
       \/ After(t) = {} /\ Leave(t) /\ UNCHANGED acks
    /\ UNCHANGED <<messages, checkpoint, storeVars, pull, faults, clears>>

\* A page of rows behind the tab's cursor; an empty one ends the run.
List(t) ==
    /\ pc[t] = "list"
    /\ \/ /\ After(t) # {}
          /\ more' = [more EXCEPT ![t] = HasMore(t)]
          /\ upto' = [upto EXCEPT ![t] = PageEnd(t)]
          /\ Goto(t, "commit")
          /\ UNCHANGED <<at, target, stale>>
       \/ After(t) = {} /\ Leave(t)
    /\ UNCHANGED <<serverVars, storeVars, pull, faults, clears>>

\* commitPage
Commit(t) ==
    /\ pc[t] = "commit"
    /\ cursor <= upto[t]
    /\ Put(Page(t), pulled \ Page(t))
    /\ cursor' = upto[t]
    /\ torn' = (torn \/ (stale[t] /\ at[t] > cursor))
    /\ mixed' = (mixed \/ \E m \in Page(t) \intersect OfGroup : MessageSeq(m) <= groupCursor)
    /\ at' = [at EXCEPT ![t] = upto[t]]
    /\ upto' = [upto EXCEPT ![t] = 0]
    /\ Send(t, upto[t])
    /\ Goto(t, "ack")
    /\ UNCHANGED <<messages, checkpoint, groupCursor, more, target, stale, pull, faults, clears>>

\* Another tab has stored a later cursor: the transaction is aborted.
CommitRefused(t) ==
    /\ pc[t] = "commit"
    /\ cursor > upto[t]
    /\ Leave(t)
    /\ UNCHANGED <<serverVars, storeVars, pull, faults, clears>>

\* A request or a transaction fails, or the tab goes away.
Interrupted(t) ==
    /\ pc[t] \in {"ack", "list", "commit"}
    /\ faults < MaxFaults
    /\ faults' = faults + 1
    /\ Leave(t)
    /\ UNCHANGED <<serverVars, storeVars, pull, clears>>

-----------------------------------------------------------------------------
(* Recovery of the group.  A tab may run several: each connection starts one. *)

\* The latest message_seq is asked for, then the stored cursor is loaded.
PullStart(p) ==
    /\ pull[p].step = "idle" /\ groupCursor < Latest
    /\ pull' = [pull EXCEPT ![p] = [NoPull EXCEPT !.step = "list", !.at = groupCursor, !.target = Latest]]
    /\ UNCHANGED <<serverVars, storeVars, tabVars, faults, clears>>

PullList(p) ==
    /\ pull[p].step = "list"
    /\ LET end == IF pull[p].at + PageSize < Latest THEN pull[p].at + PageSize ELSE Latest
       IN  pull' = [pull EXCEPT ![p].step = "commit", ![p].upto = end]
    /\ UNCHANGED <<serverVars, storeVars, tabVars, faults, clears>>

\* commitGroupPage
PullCommit(p) ==
    LET q == pull[p]
        page == {m \in OfGroup : MessageSeq(m) \in (q.at + 1)..q.upto}
    IN  /\ pull[p].step = "commit"
        /\ groupCursor <= pull[p].upto
        /\ Put(page, pulled \union page)
        /\ groupCursor' = pull[p].upto
        /\ torn' = (torn \/ (pull[p].stale /\ pull[p].at > groupCursor))
        /\ pull' = [pull EXCEPT ![p] =
                      IF @.upto < @.target THEN [q EXCEPT !.step = "list", !.at = q.upto, !.upto = 0] ELSE NoPull]
        /\ UNCHANGED <<serverVars, cursor, mixed, tabVars, faults, clears>>

\* A request fails, a later cursor is stored, or the tab goes away.
PullEnds(p) ==
    /\ pull[p].step # "idle"
    /\ pull' = [pull EXCEPT ![p] = NoPull]
    /\ UNCHANGED <<serverVars, storeVars, tabVars, faults, clears>>

-----------------------------------------------------------------------------

\* clearLocalMessages at a sign-out: it waits for the recover() of its own tab,
\* and for no recovery of a group.
Clear(t) ==
    /\ pc[t] = "idle"
    /\ clears < MaxClears
    /\ clears' = clears + 1
    /\ store' = {} /\ pulled' = {} /\ cursor' = 0 /\ groupCursor' = 0 /\ manifest' = Empty
    /\ evicted' = {} /\ torn' = FALSE /\ mixed' = FALSE
    /\ stale' = [u \in Tabs |-> pc[u] # "idle"]
    /\ pull' = [p \in Pulls |-> [pull[p] EXCEPT !.stale = pull[p].step # "idle"]]
    /\ target' = [u \in Tabs |-> 0]
    /\ UNCHANGED <<serverVars, everStored, pc, at, upto, more, faults>>

Next ==
    \/ \E c \in Conversations : Arrive(c)
    \/ \E a \in acks : ServerAck(a)
    \/ \E t \in Tabs :
        \/ Start(t) \/ Acked(t) \/ List(t) \/ Commit(t) \/ CommitRefused(t)
        \/ Interrupted(t) \/ Clear(t)
    \/ \E p \in Pulls : PullStart(p) \/ PullList(p) \/ PullCommit(p) \/ PullEnds(p)

Spec == Init /\ [][Next]_vars

-----------------------------------------------------------------------------
(* Properties *)

\* The stored cursors stand for every row up to them: each of them is in the
\* store or was evicted from it.  The sign-out code waits for the recovery that
\* is under way (clearLocalMessages) so that it stays so.
NoLocalGap ==
    /\ {m \in Inbox : m <= cursor} \subseteq store \union evicted
    /\ {m \in OfGroup : MessageSeq(m) <= groupCursor} \subseteq store \union evicted

\* The same, but for a page which was asked for before a sign-out that did not
\* wait for it, and which is committed afterwards on top of rows that were
\* cleared (commitPage, commitGroupPage, clearUser).
GapsAreTorn == torn \/ NoLocalGap

\* The checkpoint on the server never covers a row that no tab has committed,
\* whichever acknowledgements were lost, late or repeated.
AckedIsDurable == {m \in Inbox : m <= checkpoint} \subseteq everStored

\* A recovery that returns has brought every row the inbox held at its start,
\* although other tabs commit to the same store.
FinishedRunIsComplete ==
    [][\A t \in Tabs :
          /\ pc[t] \in {"ack", "list"} /\ pc'[t] = "idle" /\ faults' = faults
          /\ ~stale[t] /\ ~torn
          => {m \in Inbox : m <= target[t]} \subseteq store \union evicted]_vars

\* Eviction keeps the newest row of every conversation, as long as an eviction
\* leaves room for all the rows that it spares first, although the rows of a group
\* are ordered by another counter: unless the inbox has brought a message of the
\* group again after a group pull had brought it (evictIfNeeded, commitGroupPage).
NewestKept ==
    LET seen == {m \in Inbox : m <= cursor} \union {m \in OfGroup : MessageSeq(m) <= groupCursor}
        convs == {messages[m].conv : m \in seen}
    IN MinPerConversation > 0 /\ Cardinality(convs) * MinPerConversation <= LowWater /\ ~torn /\ ~mixed =>
        \A c \in convs : \E s \in store :
            messages[s].conv = c /\ \A m \in seen : m > s => messages[m].conv # c

\* The manifest says how many rows there are, and whether some are missing.
ManifestIsTrue ==
    /\ manifest.count = Cardinality(store)
    /\ manifest.compacted <=> evicted # {}

\* Neither the checkpoint nor a stored cursor moves backwards; a sign-out
\* alone resets the cursors, and the rows with them.
CursorsNeverBack ==
    [][/\ checkpoint' >= checkpoint
       /\ (cursor' >= cursor /\ groupCursor' >= groupCursor)
          \/ (cursor' = 0 /\ groupCursor' = 0 /\ store' = {})]_vars
=============================================================================
