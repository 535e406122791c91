--------------------------- MODULE DeliveryFence ---------------------------
(***************************************************************************)
(* The fence that says which data plane, Go or C++, may deliver messages:  *)
(* one Redis key with an epoch, an authority, a phase and a lease, changed *)
(* by compare-and-set and read by every process before each delivery.      *)
(*                                                                         *)
(* A record is compared byte for byte and named by its SHA-256; here a     *)
(* record is equal to itself only, and is its own hash.                    *)
(*                                                                         *)
(* Redis deletes a record some time after its lease, and a receipt some    *)
(* time after its retention; it may be late.  Writers and readers share    *)
(* one clock, of which a unit is the smallest lease.                       *)
(***************************************************************************)
EXTENDS Naturals, FiniteSets

CONSTANTS
    Processes,       \* data plane processes
    Local,           \* the authority a process was configured with
    Expected,        \* the epoch it was configured with
    Operators,       \* callers of Apply
    Ids,             \* transition ids
    Targets,         \* authorities an activation asks for
    MaxLease,        \* an hour
    ReceiptTTL,      \* retention of a receipt
    MaxEpoch,        \* the terminal epoch, 2^64 - 1
    MaxTime,         \* bound on the clock
    MaxChanges,      \* bound on the transitions made before the last request
    None

Authorities == {"go", "shadow", "cpp"}

ASSUME FenceAssumption ==
    /\ Local \in [Processes -> Authorities] /\ Expected \in [Processes -> Nat \ {0}]
    /\ Targets \subseteq Authorities
    /\ MaxLease \in Nat \ {0} /\ ReceiptTTL \in Nat /\ MaxLease <= ReceiptTTL
    /\ MaxEpoch \in Nat \ {0} /\ MaxTime \in Nat
    /\ MaxChanges \in Nat

VARIABLES
    now,
    fence,       \* the record under the fence key, or None
    receipts,    \* per transition id: the request that was applied, and its end
    pc,          \* what Apply is doing for an operator
    request,     \* the request an operator has made last
    started,     \* the clock when that Apply began, while it matters
    succeeded,   \* the operators whose last Apply returned a receipt
    lapses,      \* how often a record has disappeared
    installed    \* every request that took effect, its record, and the lapses before it

writerVars == <<pc, request, started, succeeded>>
ghostVars == <<lapses, installed>>
vars == <<now, fence, receipts, writerVars, ghostVars>>

Records == [epoch : 1..MaxEpoch, authority : Authorities,
            phase : {"active", "frozen"}, lease : Nat]

Actions == {"bootstrap", "freeze", "activate", "renew"}

Requests == [id : Ids, action : Actions, expected : Records \union {None},
             target : Authorities \union {None}, lease : Nat]

TypeOK ==
    /\ now \in 0..MaxTime
    /\ fence \in Records \union {None}
    /\ receipts \in [Ids -> [request : Requests, until : Nat] \union {None}]
    /\ \A i \in Ids : receipts[i] # None => receipts[i].request.id = i
    /\ pc \in [Operators -> {"idle", "receipt", "read", "swap"}]
    /\ request \in [Operators -> Requests \union {None}]
    /\ started \in [Operators -> Nat] /\ \A o \in Operators : started[o] <= now
    /\ succeeded \subseteq Operators
    /\ lapses \in Nat

Init ==
    /\ now = 0
    /\ fence = None
    /\ receipts = [i \in Ids |-> None]
    /\ pc = [o \in Operators |-> "idle"]
    /\ request = [o \in Operators |-> None]
    /\ started = [o \in Operators |-> 0]
    /\ succeeded = {}
    /\ lapses = 0
    /\ installed = {}

-----------------------------------------------------------------------------
(* The data plane *)

\* RedisAuthorityFence.Assert and its C++ counterpart.
Authorised(p) ==
    /\ fence # None
    /\ fence.epoch = Expected[p]
    /\ fence.phase = "active"
    /\ fence.authority = Local[p]
    /\ fence.lease > now

-----------------------------------------------------------------------------
(* The writer *)

Goto(o, step) == pc' = [pc EXCEPT ![o] = step]

Answer(o, answer) ==
    /\ succeeded' = IF answer = "ok" THEN succeeded \union {o} ELSE succeeded
    /\ Goto(o, "idle")

\* Variant: active authorities are exchanged without the frozen phase.
AllowedDirectly(q) ==
    CASE q.action = "bootstrap" -> TRUE
      [] q.action = "freeze" -> q.expected.phase = "active" /\ q.expected.epoch < MaxEpoch
      [] q.action = "activate" -> TRUE
      [] q.action = "renew" -> q.lease > q.expected.lease

\* The conditions of nextFenceRecord.
Allowed(q) ==
    CASE q.action = "bootstrap" -> TRUE
      [] q.action = "freeze" -> q.expected.phase = "active" /\ q.expected.epoch < MaxEpoch
      [] q.action = "activate" -> q.expected.phase = "frozen"
      [] q.action = "renew" -> q.lease > q.expected.lease

Record(epoch, authority, phase, lease) ==
    [epoch |-> epoch, authority |-> authority, phase |-> phase, lease |-> lease]

\* Variant: activation begins the epoch anew.
NextFenceRewound(q) ==
    LET r == q.expected
    IN  CASE q.action = "bootstrap" -> Record(1, "go", "active", q.lease)
          [] q.action = "freeze" -> Record(r.epoch + 1, r.authority, "frozen", q.lease)
          [] q.action = "activate" -> Record(1, q.target, "active", q.lease)
          [] q.action = "renew" -> Record(r.epoch, r.authority, r.phase, q.lease)

\* Variant: every transition writes the target, which only some requests have.
NextFenceAlwaysTargeted(q) ==
    LET r == q.expected
    IN  CASE q.action = "bootstrap" -> Record(1, "go", "active", q.lease)
          [] q.action = "freeze" -> Record(r.epoch + 1, q.target, "frozen", q.lease)
          [] q.action = "activate" -> Record(r.epoch, q.target, "active", q.lease)
          [] q.action = "renew" -> Record(r.epoch, q.target, r.phase, q.lease)

\* The record nextFenceRecord makes of the one that was read.
NextFence(q) ==
    LET r == q.expected
    IN  CASE q.action = "bootstrap" -> Record(1, "go", "active", q.lease)
          [] q.action = "freeze" -> Record(r.epoch + 1, r.authority, "frozen", q.lease)
          [] q.action = "activate" -> Record(r.epoch, q.target, "active", q.lease)
          [] q.action = "renew" -> Record(r.epoch, r.authority, r.phase, q.lease)

TargetsOf(a) ==
    CASE a = "bootstrap" -> {"go"}
      [] a = "activate" -> Targets
      [] OTHER -> {None}

\* A request that validateFenceTransitionRequest lets pass.  The operator has
\* read the fence before: the expected hash is that of the record of that time.
Submit(o) ==
    /\ pc[o] = "idle" /\ Cardinality(installed) < MaxChanges
    /\ \E i \in Ids, a \in Actions, l \in (now + 1)..(now + MaxLease) :
          /\ (a = "bootstrap") <=> (fence = None)
          /\ \E t \in TargetsOf(a) :
                request' = [request EXCEPT ![o] =
                    [id |-> i, action |-> a, expected |-> fence, target |-> t, lease |-> l]]
    /\ started' = [started EXCEPT ![o] = now]
    /\ succeeded' = succeeded \ {o}
    /\ Goto(o, "receipt")
    /\ UNCHANGED <<now, fence, receipts, ghostVars>>

\* The answer did not arrive, or an operator repeats what another has begun.
Resubmit(o, other) ==
    /\ pc[o] = "idle" /\ request[other] # None
    /\ request' = [request EXCEPT ![o] = request[other]]
    /\ started' = [started EXCEPT ![o] = now]
    /\ succeeded' = succeeded \ {o}
    /\ Goto(o, "receipt")
    /\ UNCHANGED <<now, fence, receipts, ghostVars>>

\* Variant: whoever used the transition id, it is taken for a replay.
MatchById(o) == receipts[request[o].id] # None

\* decodeMatchingFenceReceipt: the receipt is of this very request.
Match(o) == receipts[request[o].id].request = request[o]

LeaseInBounds(q, at) == at < q.lease /\ q.lease <= at + MaxLease

ReadReceipt(o) ==
    /\ pc[o] = "receipt"
    /\ IF receipts[request[o].id] # None
       THEN Answer(o, IF Match(o) THEN "ok" ELSE "error")
       ELSE IF LeaseInBounds(request[o], started[o])
            THEN Goto(o, "read") /\ UNCHANGED succeeded
            ELSE Answer(o, "error")
    /\ started' = [started EXCEPT ![o] = 0]
    /\ UNCHANGED <<now, fence, receipts, request, ghostVars>>

ReadFence(o) ==
    /\ pc[o] = "read"
    /\ IF fence = request[o].expected /\ Allowed(request[o])
       THEN Goto(o, "swap") /\ UNCHANGED succeeded
       ELSE Answer(o, "error")
    /\ UNCHANGED <<now, fence, receipts, request, started, ghostVars>>

Install(o) ==
    LET q == request[o]
        next == NextFence(q)
    IN  /\ receipts' = [receipts EXCEPT ![q.id] =
              [request |-> q, until |-> now + ReceiptTTL]]
        /\ IF next.lease > now
           THEN /\ fence' = next
                /\ installed' = installed \union {[after |-> lapses, by |-> q, record |-> next]}
                /\ UNCHANGED lapses
           ELSE /\ fence' = None
                /\ lapses' = lapses + 1
                /\ UNCHANGED installed

\* Variant: the script does not look for the receipt.
SwapUnrecorded(o) ==
    /\ pc[o] = "swap"
    /\ IF fence = request[o].expected
       THEN Install(o) /\ \E answer \in {"ok", "error"} : Answer(o, answer)
       ELSE Answer(o, "error") /\ UNCHANGED <<fence, receipts, ghostVars>>
    /\ UNCHANGED <<now, request, started>>

\* applyFenceTransitionScript: the receipt is looked up again, the record is
\* compared and replaced, and PEXPIREAT deletes it at once when its lease is
\* already over.  The answer may be lost.
Swap(o) ==
    /\ pc[o] = "swap"
    /\ IF receipts[request[o].id] # None
       THEN /\ Answer(o, IF Match(o) THEN "ok" ELSE "error")
            /\ UNCHANGED <<fence, receipts, ghostVars>>
       ELSE IF fence = request[o].expected
            THEN Install(o) /\ \E answer \in {"ok", "error"} : Answer(o, answer)
            ELSE Answer(o, "error") /\ UNCHANGED <<fence, receipts, ghostVars>>
    /\ UNCHANGED <<now, request, started>>

Tick ==
    /\ now < MaxTime
    /\ now' = now + 1
    /\ UNCHANGED <<fence, receipts, writerVars, ghostVars>>

FenceExpires ==
    /\ fence # None /\ fence.lease <= now
    /\ fence' = None
    /\ lapses' = lapses + 1
    /\ UNCHANGED <<now, receipts, writerVars, installed>>

ReceiptExpires(i) ==
    /\ receipts[i] # None /\ receipts[i].until <= now
    /\ receipts' = [receipts EXCEPT ![i] = None]
    /\ UNCHANGED <<now, fence, writerVars, ghostVars>>

Next ==
    \/ \E o \in Operators : Submit(o) \/ ReadReceipt(o) \/ ReadFence(o) \/ Swap(o)
    \/ \E o, other \in Operators : Resubmit(o, other)
    \/ Tick \/ FenceExpires
    \/ \E i \in Ids : ReceiptExpires(i)

Spec == Init /\ [][Next]_vars

-----------------------------------------------------------------------------
(* Properties *)

\* What the design promises of the epoch: a process of an older epoch does not
\* get its permission back (REALTIME-DELIVERY.md, validateFenceRecord).
StaleStaysOut ==
    \A p \in Processes, i \in installed : Authorised(p) => i.record.epoch <= Expected[p]

\* What the code keeps: this holds as long as the record is kept alive.  When
\* it lapses, bootstrap begins with epoch 1 again (nextFenceRecord, PEXPIREAT).
StaleStaysOutUntilLapse ==
    \A p \in Processes, i \in installed :
        Authorised(p) /\ i.after = lapses => i.record.epoch <= Expected[p]

\* In one epoch of one fence at most one authority is ever active, so two
\* processes with the same epoch never deliver for different data planes,
\* whatever requests race (nextFenceRecord, applyFenceTransitionScript).
OneAuthorityPerEpoch ==
    \A i, j \in installed :
        /\ i.after = j.after /\ i.record.epoch = j.record.epoch
        /\ i.record.phase = "active" /\ j.record.phase = "active"
        => i.record.authority = j.record.authority

\* A request that took effect does not take effect again under a later fence,
\* however often and however late it is repeated: its receipt is found, or its
\* deadline has passed (Apply, applyFenceTransitionScript).
AppliedOnce == \A i, j \in installed : i.by = j.by => i = j

\* Apply reports success only for a request whose own transition was made, by
\* this call or an earlier one; another request under the same transition id
\* is refused (decodeMatchingFenceReceipt).  A record that was already over
\* when it was written counts as made.
SuccessIsOwn ==
    \A o \in succeeded :
        (\E i \in installed : i.by = request[o]) \/ request[o].lease <= now

-----------------------------------------------------------------------------
(* The abstract authority: the record without its lease, and the active ones *)
(* that were installed since the fence disappeared last.                     *)

GrantOf(r) ==
    IF r = None THEN None
    ELSE [epoch |-> r.epoch, authority |-> r.authority, frozen |-> r.phase = "frozen"]

ASSUME NoneAssumption ==
    /\ None \notin Records
    /\ None \notin [epoch : Nat \ {0}, authority : Authorities, frozen : BOOLEAN]
    /\ None \notin [request : Requests, until : Nat]

Grant(i) == [epoch |-> i.record.epoch, authority |-> i.record.authority]

InForce == {i \in installed : i.after = lapses /\ i.record.phase = "active"}

A == INSTANCE Authority WITH
        First <- "go",
        grant <- GrantOf(fence),
        granted <- {Grant(i) : i \in InForce}

\* However requests race, are repeated, come late or lose their answers, and
\* whenever records and receipts disappear: what the processes see is one
\* sequence of bootstrap, freeze, activation and lapse (Apply and its script).
AuthoritySpec == A!ASpec
=============================================================================
