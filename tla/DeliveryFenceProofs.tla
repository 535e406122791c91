------------------------ MODULE DeliveryFenceProofs ------------------------
(***************************************************************************)
(* Proofs about DeliveryFence for any operators, requests, leases and      *)
(* clocks: its type invariant, that an epoch has one authority, that a     *)
(* stale process stays out while the fence is kept alive, that the writer  *)
(* implements Authority, and that a request takes effect once and is told  *)
(* of its own success.                                                     *)
(***************************************************************************)
EXTENDS DeliveryFence, TLAPS

USE FenceAssumption, NoneAssumption DEF FenceAssumption, NoneAssumption

\* A request that was validated.
Sound == {q \in Requests :
            /\ q.action = "bootstrap" => q.expected = None
            /\ q.action # "bootstrap" => q.expected \in Records
            /\ q.action = "activate" => q.target \in Targets}

\* What is known of a request when the record it makes is written.
Permitted == {q \in Sound : Allowed(q)}

-----------------------------------------------------------------------------
(* The record a request makes *)

LEMMA NextBootstrap ==
  ASSUME NEW q \in Permitted, q.action = "bootstrap"
  PROVE  /\ NextFence(q) \in Records /\ NextFence(q).lease = q.lease
         /\ NextFence(q).epoch = 1 /\ NextFence(q).authority = "go"
         /\ NextFence(q).phase = "active"
  BY DEF Permitted, Sound, Requests, NextFence, Record, Records, Authorities

LEMMA NextFreeze ==
  ASSUME NEW q \in Permitted, q.action = "freeze"
  PROVE  /\ NextFence(q) \in Records /\ NextFence(q).lease = q.lease
         /\ NextFence(q).epoch = q.expected.epoch + 1
         /\ NextFence(q).authority = q.expected.authority
         /\ q.expected.phase = "active" /\ NextFence(q).phase = "frozen"
  <1>1. q.expected \in Records /\ q.lease \in Nat
    BY DEF Permitted, Sound, Requests
  <1>2. q.expected.phase = "active" /\ q.expected.epoch < MaxEpoch
    BY DEF Permitted, Allowed
  <1>3. q.expected.epoch + 1 \in 1..MaxEpoch /\ q.expected.authority \in Authorities
    BY <1>1, <1>2 DEF Records
  <1>4. NextFence(q) = Record(q.expected.epoch + 1, q.expected.authority, "frozen", q.lease)
    BY DEF NextFence
  <1> QED BY <1>1, <1>2, <1>3, <1>4 DEF Record, Records

LEMMA NextActivate ==
  ASSUME NEW q \in Permitted, q.action = "activate"
  PROVE  /\ NextFence(q) \in Records /\ NextFence(q).lease = q.lease
         /\ NextFence(q).epoch = q.expected.epoch
         /\ NextFence(q).authority = q.target /\ q.target \in Authorities
         /\ q.expected.phase = "frozen" /\ NextFence(q).phase = "active"
  BY DEF Permitted, Sound, Requests, NextFence, Record, Records, Allowed

LEMMA NextRenew ==
  ASSUME NEW q \in Permitted, q.action = "renew"
  PROVE  /\ NextFence(q) \in Records /\ NextFence(q).lease = q.lease
         /\ NextFence(q).epoch = q.expected.epoch
         /\ NextFence(q).authority = q.expected.authority
         /\ NextFence(q).phase = q.expected.phase
  BY DEF Permitted, Sound, Requests, NextFence, Record, Records

LEMMA NextRecord ==
  ASSUME NEW q \in Permitted
  PROVE  /\ NextFence(q) \in Records /\ NextFence(q) # None /\ NextFence(q).lease = q.lease
         /\ q.action # "bootstrap" => q.expected \in Records
         /\ q.action = "bootstrap" => q.expected = None
  <1>1. q.action \in Actions
    BY DEF Permitted, Sound, Requests
  <1>2. NextFence(q) \in Records /\ NextFence(q).lease = q.lease
    BY <1>1, NextBootstrap, NextFreeze, NextActivate, NextRenew DEF Actions
  <1> QED BY <1>2 DEF Permitted, Sound

-----------------------------------------------------------------------------
(* Type correctness *)

\* An operator that is at work has a validated request, and one that is about
\* to write has found it permitted; so was everything that took effect.
Working ==
    /\ request \in [Operators -> Sound \union {None}]
    /\ \A o \in Operators :
          /\ pc[o] # "idle" => request[o] \in Sound
          /\ pc[o] = "swap" => request[o] \in Permitted
    /\ \A i \in installed : /\ i.after \in Nat /\ i.after <= lapses /\ i.by \in Permitted
                            /\ i.record \in Records

Typed == TypeOK /\ Working

LEMMA TypedInit == Init => Typed
  BY DEF Init, Typed, TypeOK, Working

\* What Submit makes is validated.
LEMMA SubmitSound ==
  ASSUME Typed, NEW o \in Operators, Submit(o)
  PROVE  \E q \in Sound : request' = [request EXCEPT ![o] = q]
  <1>1. PICK i \in Ids, a \in Actions, l \in (now + 1)..(now + MaxLease) :
          /\ (a = "bootstrap") <=> (fence = None)
          /\ \E t \in TargetsOf(a) : request' = [request EXCEPT ![o] =
                [id |-> i, action |-> a, expected |-> fence, target |-> t, lease |-> l]]
    BY DEF Submit
  <1>2. PICK t \in TargetsOf(a) : request' = [request EXCEPT ![o] =
                [id |-> i, action |-> a, expected |-> fence, target |-> t, lease |-> l]]
    BY <1>1
  <1> DEFINE q == [id |-> i, action |-> a, expected |-> fence, target |-> t, lease |-> l]
  <1>3. fence \in Records \union {None} /\ now \in Nat
    BY DEF Typed, TypeOK
  <1>4. l \in Nat
    BY <1>3
  <1>5. /\ t \in Authorities \union {None}
        /\ a = "activate" => t \in Targets
    BY DEF TargetsOf, Actions, Authorities
  <1>6. q \in Requests
    BY <1>3, <1>4, <1>5 DEF Requests
  <1>7. q \in Sound
    BY <1>1, <1>3, <1>5, <1>6 DEF Sound
  <1> QED BY <1>2, <1>7

LEMMA SoundType == Sound \subseteq Requests /\ Permitted \subseteq Sound
  BY DEF Sound, Permitted

LEMMA AnswerTyped ==
  ASSUME Typed, NEW o \in Operators, NEW answer \in {"ok", "error"}, Answer(o, answer)
  PROVE  /\ succeeded' \subseteq Operators
         /\ pc' \in [Operators -> {"idle", "receipt", "read", "swap"}]
         /\ pc' = [pc EXCEPT ![o] = "idle"]
  BY DEF Typed, TypeOK, Answer, Goto

LEMMA WriteTyped ==
  ASSUME Typed, NEW o \in Operators, pc[o] = "swap", Install(o)
  PROVE  /\ fence' \in Records \union {None}
         /\ receipts' \in [Ids -> [request : Requests, until : Nat] \union {None}]
         /\ \A i \in Ids : receipts'[i] # None => receipts'[i].request.id = i
         /\ lapses' \in Nat
         /\ \A i \in installed' : /\ i.after \in Nat /\ i.after <= lapses' /\ i.by \in Permitted
                                  /\ i.record \in Records
  <1> DEFINE q == request[o]
  <1>1. q \in Permitted /\ q \in Requests /\ q.id \in Ids
    BY SoundType DEF Typed, Working, Requests
  <1>2. NextFence(q) \in Records
    BY <1>1, NextRecord
  <1>3. now \in Nat /\ lapses \in Nat
    BY DEF Typed, TypeOK
  <1> DEFINE receipt == [request |-> q, until |-> now + ReceiptTTL]
  <1>4. receipt \in [request : Requests, until : Nat] /\ receipt.request = q
    BY <1>1, <1>3
  <1>5. receipts' = [receipts EXCEPT ![q.id] = receipt]
    BY DEF Install
  <1>6. /\ receipts' \in [Ids -> [request : Requests, until : Nat] \union {None}]
        /\ \A i \in Ids : receipts'[i] # None => receipts'[i].request.id = i
    <2> HIDE DEF receipt
    <2> QED BY <1>1, <1>4, <1>5 DEF Typed, TypeOK
  <1>7. fence' \in Records \union {None} /\ lapses' \in Nat
    BY <1>2, <1>3 DEF Install
  <1>8. \A i \in installed' : /\ i.after \in Nat /\ i.after <= lapses' /\ i.by \in Permitted
                              /\ i.record \in Records
    BY <1>1, <1>2, <1>3 DEF Install, Typed, Working
  <1> QED BY <1>6, <1>7, <1>8

LEMMA SwapTyped ==
  ASSUME Typed, NEW o \in Operators, Swap(o)
  PROVE  Typed'
  <1>1. PICK answer \in {"ok", "error"} : Answer(o, answer)
    BY DEF Swap
  <1>2. /\ pc[o] = "swap"
        /\ Install(o) \/ UNCHANGED <<fence, receipts, lapses, installed>>
        /\ UNCHANGED <<now, request, started>>
    BY DEF Swap, ghostVars
  <1>3. /\ fence' \in Records \union {None}
        /\ receipts' \in [Ids -> [request : Requests, until : Nat] \union {None}]
        /\ \A i \in Ids : receipts'[i] # None => receipts'[i].request.id = i
        /\ lapses' \in Nat
        /\ \A i \in installed' : /\ i.after \in Nat /\ i.after <= lapses' /\ i.by \in Permitted
                                 /\ i.record \in Records
    BY <1>2, WriteTyped DEF Typed, TypeOK, Working
  <1>4. /\ succeeded' \subseteq Operators
        /\ pc' \in [Operators -> {"idle", "receipt", "read", "swap"}]
        /\ pc' = [pc EXCEPT ![o] = "idle"]
    BY <1>1, AnswerTyped
  <1>5. TypeOK'
    BY <1>2, <1>3, <1>4 DEF Typed, TypeOK
  <1>6. \A p \in Operators : pc'[p] # "idle" => pc'[p] = pc[p]
    BY <1>4 DEF Typed, TypeOK
  <1>7. Working'
    BY <1>2, <1>3, <1>4, <1>6 DEF Typed, Working
  <1> QED BY <1>5, <1>7 DEF Typed

LEMMA AskTyped ==
  ASSUME Typed, NEW o \in Operators, NEW q \in Sound,
         request' = [request EXCEPT ![o] = q],
         started' = [started EXCEPT ![o] = now],
         succeeded' = succeeded \ {o},
         Goto(o, "receipt"),
         UNCHANGED <<now, fence, receipts, ghostVars>>
  PROVE  Typed'
  <1>1. TypeOK'
    BY SoundType DEF Typed, TypeOK, Goto, ghostVars
  <1>2. pc' = [pc EXCEPT ![o] = "receipt"] /\ pc \in [Operators -> {"idle", "receipt", "read", "swap"}]
    BY DEF Goto, Typed, TypeOK
  <1>3. Working'
    BY <1>2 DEF Typed, Working, ghostVars
  <1> QED BY <1>1, <1>3 DEF Typed

LEMMA TypedStep == Typed /\ [Next]_vars => Typed'
  <1> SUFFICES ASSUME Typed, [Next]_vars PROVE Typed'
    OBVIOUS
  <1> USE DEF writerVars, ghostVars
  <1>1. ASSUME NEW o \in Operators, Submit(o) PROVE Typed'
    BY <1>1, SubmitSound, AskTyped DEF Submit
  <1>2. ASSUME NEW o \in Operators, NEW other \in Operators, Resubmit(o, other) PROVE Typed'
    <2>1. request[other] \in Sound
      BY <1>2 DEF Resubmit, Typed, Working
    <2> QED BY <1>2, <2>1, AskTyped DEF Resubmit
  <1>3. ASSUME NEW o \in Operators, ReadReceipt(o) PROVE Typed'
    <2>1. /\ succeeded' \subseteq Operators
          /\ pc' \in [Operators -> {"idle", "receipt", "read", "swap"}]
          /\ pc' = [pc EXCEPT ![o] = "idle"] \/ pc' = [pc EXCEPT ![o] = "read"]
      BY <1>3, AnswerTyped DEF ReadReceipt, Typed, TypeOK, Goto
    <2>2. /\ pc[o] = "receipt" /\ started' = [started EXCEPT ![o] = 0]
          /\ UNCHANGED <<now, fence, receipts, request, lapses, installed>>
      BY <1>3 DEF ReadReceipt
    <2>3. TypeOK'
      BY <2>1, <2>2 DEF Typed, TypeOK
    <2>4. \A p \in Operators : /\ pc'[p] # "idle" => pc[p] # "idle"
                               /\ pc'[p] = "swap" => pc[p] = "swap"
      BY <2>1, <2>2 DEF Typed, TypeOK
    <2>5. Working'
      BY <2>2, <2>4 DEF Typed, Working
    <2> QED BY <2>3, <2>5 DEF Typed
  <1>4. ASSUME NEW o \in Operators, ReadFence(o) PROVE Typed'
    <2>1. /\ succeeded' \subseteq Operators
          /\ pc' \in [Operators -> {"idle", "receipt", "read", "swap"}]
          /\ \/ pc' = [pc EXCEPT ![o] = "idle"]
             \/ pc' = [pc EXCEPT ![o] = "swap"] /\ Allowed(request[o])
      BY <1>4, AnswerTyped DEF ReadFence, Typed, TypeOK, Goto
    <2>2. /\ pc[o] = "read"
          /\ UNCHANGED <<now, fence, receipts, request, started, lapses, installed>>
      BY <1>4 DEF ReadFence
    <2>3. TypeOK'
      BY <2>1, <2>2 DEF Typed, TypeOK
    <2>4. request[o] \in Sound
      BY <2>2 DEF Typed, Working
    <2>5. \A p \in Operators : /\ pc'[p] # "idle" => pc[p] # "idle"
                               /\ pc'[p] = "swap" => request[p] \in Permitted
      BY <2>1, <2>2, <2>4 DEF Typed, TypeOK, Working, Permitted
    <2>6. Working'
      BY <2>2, <2>5 DEF Typed, Working
    <2> QED BY <2>3, <2>6 DEF Typed
  <1>5. ASSUME NEW o \in Operators, Swap(o) PROVE Typed'
    BY <1>5, SwapTyped
  <1>6. CASE Tick
    BY <1>6 DEF Tick, Typed, TypeOK, Working
  <1>7. CASE FenceExpires
    BY <1>7 DEF FenceExpires, Typed, TypeOK, Working
  <1>8. ASSUME NEW i \in Ids, ReceiptExpires(i) PROVE Typed'
    BY <1>8 DEF ReceiptExpires, Typed, TypeOK, Working
  <1>9. CASE UNCHANGED vars
    BY <1>9 DEF vars, Typed, TypeOK, Working
  <1> QED BY <1>1, <1>2, <1>3, <1>4, <1>5, <1>6, <1>7, <1>8, <1>9 DEF Next

LEMMA TypedAlways == Spec => []Typed
  BY TypedInit, TypedStep, PTL DEF Spec

\* Every variable keeps its type, whatever requests race and expire.
THEOREM TypeCorrect == Spec => []TypeOK
  BY TypedAlways, PTL DEF Typed

-----------------------------------------------------------------------------
(* The order of what took effect since the fence disappeared last: it lies   *)
(* at or below the record in force, an authority in the epoch of the record  *)
(* is that of the record, and an active record has taken effect.             *)

Below(i) ==
    /\ fence # None
    /\ i.record.epoch <= fence.epoch
    /\ i.record.epoch = fence.epoch /\ i.record.phase = "active" =>
          fence.phase = "active" /\ fence.authority = i.record.authority

Placed ==
    /\ \A i \in installed : i.after = lapses => Below(i)
    /\ fence # None /\ fence.phase = "active" =>
          \E i \in InForce : i.record.epoch = fence.epoch /\ i.record.authority = fence.authority

Ordered == Placed /\ OneAuthorityPerEpoch

LEMMA OrderedInit == Init => Ordered
  BY DEF Init, Ordered, Placed, OneAuthorityPerEpoch

\* When the fence disappears, what took effect belongs to an earlier life.
LEMMA LapseStep ==
  ASSUME Typed, Ordered, fence' = None, lapses' = lapses + 1, installed' = installed
  PROVE  Ordered'
  <1>1. \A i \in installed : i.after # lapses'
    BY DEF Typed, TypeOK, Working
  <1> QED BY <1>1 DEF Ordered, Placed, OneAuthorityPerEpoch

\* What a request that takes effect does to the order.
LEMMA TakesEffect ==
  ASSUME Typed, Ordered, NEW q \in Permitted, fence = q.expected,
         fence' = NextFence(q), UNCHANGED lapses,
         installed' = installed \union {[after |-> lapses, by |-> q, record |-> NextFence(q)]}
  PROVE  Ordered'
  <1> DEFINE n == [after |-> lapses, by |-> q, record |-> NextFence(q)]
  <1> DEFINE r == NextFence(q)
  <1>1. r \in Records /\ r # None /\ n.record = r /\ n.after = lapses
    BY NextRecord
  <1>2. q.action \in Actions /\ n \in installed'
    BY SoundType DEF Requests
  <1>3. \A i \in installed : i.record \in Records
    BY DEF Typed, Working
  <1>4. \A i \in installed : i.after = lapses =>
          /\ i.record.epoch <= r.epoch
          /\ i.record.epoch = r.epoch /\ i.record.phase = "active" =>
                r.phase = "active" /\ r.authority = i.record.authority
    <2> SUFFICES ASSUME NEW i \in installed, i.after = lapses
                 PROVE  /\ i.record.epoch <= r.epoch
                        /\ i.record.epoch = r.epoch /\ i.record.phase = "active" =>
                              r.phase = "active" /\ r.authority = i.record.authority
      OBVIOUS
    <2>1. Below(i)
      BY DEF Ordered, Placed
    <2>2. i.record.epoch \in Nat /\ r.epoch \in Nat
      BY <1>1, <1>3 DEF Records
    <2>3. CASE q.action = "bootstrap"
      BY <2>1, <2>3, NextRecord DEF Below
    <2>4. CASE q.action = "freeze"
      <3>1. fence \in Records /\ r.epoch = fence.epoch + 1
        BY <2>4, NextRecord, NextFreeze
      <3>2. i.record.epoch <= fence.epoch /\ fence.epoch \in Nat
        BY <2>1, <3>1 DEF Below, Records
      <3> QED BY <2>2, <3>1, <3>2
    <2>5. CASE q.action = "activate"
      <3>1. r.epoch = fence.epoch /\ fence.phase = "frozen"
        BY <2>5, NextActivate
      <3> QED BY <2>1, <3>1 DEF Below
    <2>6. CASE q.action = "renew"
      <3>1. r.epoch = fence.epoch /\ r.phase = fence.phase /\ r.authority = fence.authority
        BY <2>6, NextRenew
      <3> QED BY <2>1, <3>1 DEF Below
    <2> QED BY <1>2, <2>3, <2>4, <2>5, <2>6 DEF Actions
  <1>5. \A i \in installed' : i.after = lapses => Below(i)'
    <2> SUFFICES ASSUME NEW i \in installed', i.after = lapses PROVE Below(i)'
      OBVIOUS
    <2>1. fence' = r /\ fence' # None /\ r.epoch <= r.epoch
      BY <1>1 DEF Records
    <2>2. CASE i \in installed
      BY <1>3, <1>4, <2>1, <2>2 DEF Below
    <2>3. CASE i = n
      <3>1. i.record = fence'
        BY <2>1, <2>3
      <3> QED BY <2>1, <3>1 DEF Below
    <2> QED BY <2>2, <2>3
  <1>6. fence'.phase = "active" =>
          n \in InForce' /\ n.record.epoch = fence'.epoch /\ n.record.authority = fence'.authority
    BY <1>1, <1>2 DEF InForce
  <1>7. Placed'
    BY <1>5, <1>6 DEF Placed
  <1>8. OneAuthorityPerEpoch'
    <2> SUFFICES ASSUME NEW i \in installed', NEW j \in installed',
                        i.after = j.after, i.record.epoch = j.record.epoch,
                        i.record.phase = "active", j.record.phase = "active"
                 PROVE  i.record.authority = j.record.authority
      BY DEF OneAuthorityPerEpoch
    <2>1. CASE i \in installed /\ j \in installed
      BY <2>1 DEF Ordered, OneAuthorityPerEpoch
    <2>2. CASE i = n \/ j = n
      BY <1>1, <1>4, <2>2
    <2> QED BY <2>1, <2>2
  <1> QED BY <1>7, <1>8 DEF Ordered

\* Steps that leave fence and history alone.
LEMMA OrderedStays ==
  ASSUME Ordered, UNCHANGED <<fence, lapses, installed>>
  PROVE  Ordered'
  BY DEF Ordered, Placed, Below, InForce, OneAuthorityPerEpoch

\* Only a swap that finds the record it expects, and an expiry, change the fence.
LEMMA SwapCases ==
  ASSUME Typed, NEW o \in Operators, Swap(o)
  PROVE  \/ UNCHANGED <<fence, lapses, installed>>
         \/ fence' = None /\ lapses' = lapses + 1 /\ installed' = installed
         \/ \E q \in Permitted :
               /\ fence = q.expected /\ fence' = NextFence(q) /\ UNCHANGED lapses
               /\ installed' = installed \union {[after |-> lapses, by |-> q, record |-> NextFence(q)]}
  <1>1. request[o] \in Permitted
    BY DEF Swap, Typed, Working
  <1> QED BY <1>1 DEF Swap, Install, ghostVars

LEMMA Elsewhere ==
  ASSUME [Next]_vars, ~ \E o \in Operators : Swap(o), ~FenceExpires
  PROVE  UNCHANGED <<fence, lapses, installed>>
  BY DEF Next, vars, writerVars, ghostVars, Submit, Resubmit, ReadReceipt, ReadFence, Tick,
         ReceiptExpires

LEMMA OrderedStep == Typed /\ Ordered /\ [Next]_vars => Ordered'
  <1> SUFFICES ASSUME Typed, Ordered, [Next]_vars PROVE Ordered'
    OBVIOUS
  <1>1. ASSUME NEW o \in Operators, Swap(o) PROVE Ordered'
    BY <1>1, SwapCases, OrderedStays, LapseStep, TakesEffect
  <1>2. CASE FenceExpires
    BY <1>2, LapseStep DEF FenceExpires
  <1> QED BY <1>1, <1>2, Elsewhere, OrderedStays

LEMMA OrderedAlways == Spec => [](Typed /\ Ordered)
  BY TypedInit, TypedStep, OrderedInit, OrderedStep, PTL DEF Spec

\* In one epoch of one fence at most one authority is ever active, whatever
\* requests race (nextFenceRecord, applyFenceTransitionScript).
THEOREM OneAuthority == Spec => []OneAuthorityPerEpoch
  BY OrderedAlways, PTL DEF Ordered

\* While the record is kept alive, a process of an older epoch does not get its
\* permission back (validateFenceRecord).
THEOREM StaleOut == Spec => []StaleStaysOutUntilLapse
  <1>1. Typed /\ Ordered => StaleStaysOutUntilLapse
    BY DEF Ordered, Placed, Below, StaleStaysOutUntilLapse, Authorised
  <1> QED BY <1>1, OrderedAlways, PTL

-----------------------------------------------------------------------------
(* The writer implements the abstract authority *)

Granted == {Grant(i) : i \in InForce}

LEMMA GrantOfRecord ==
  ASSUME NEW r \in Records
  PROVE  GrantOf(r) # None
  <1> DEFINE g == [epoch |-> r.epoch, authority |-> r.authority, frozen |-> r.phase = "frozen"]
  <1>1. GrantOf(r) = g
    BY DEF GrantOf
  <1>2. r.epoch \in Nat \ {0} /\ r.authority \in Authorities
    BY DEF Records
  <1>3. (r.phase = "frozen") \in BOOLEAN
    OBVIOUS
  <1>4. g \in [epoch : Nat \ {0}, authority : Authorities, frozen : BOOLEAN]
    BY <1>2, <1>3
  <1> HIDE DEF g
  <1> QED BY <1>1, <1>4

LEMMA AuthorityInit == Init => A!AInit
  BY DEF Init, A!AInit, GrantOf, InForce

LEMMA AuthorityLapses ==
  ASSUME Typed, fence' = None, lapses' = lapses + 1, installed' = installed
  PROVE  A!Lapse
  <1>1. \A i \in installed : i.after # lapses'
    BY DEF Typed, TypeOK, Working
  <1> QED BY <1>1 DEF A!Lapse, GrantOf, InForce

\* A request that takes effect adds the record it makes, if that is active.
LEMMA GrantedStep ==
  ASSUME Typed, NEW q \in Permitted, UNCHANGED lapses,
         installed' = installed \union {[after |-> lapses, by |-> q, record |-> NextFence(q)]}
  PROVE  LET r == NextFence(q)
         IN  Granted' = Granted \union
                (IF r.phase = "active" THEN {[epoch |-> r.epoch, authority |-> r.authority]} ELSE {})
  <1> DEFINE n == [after |-> lapses, by |-> q, record |-> NextFence(q)]
  <1> DEFINE r == NextFence(q)
  <1>1. n.record = r /\ n.after = lapses /\ Grant(n) = [epoch |-> r.epoch, authority |-> r.authority]
    BY DEF Grant
  <1>2. InForce' = InForce \union (IF r.phase = "active" THEN {n} ELSE {})
    BY <1>1 DEF InForce
  <1>3. Granted' = {Grant(i) : i \in InForce'}
    BY DEF Granted, Grant
  <1> QED BY <1>1, <1>2, <1>3 DEF Granted

LEMMA AuthorityTakes ==
  ASSUME Typed, Ordered, NEW q \in Permitted, fence = q.expected,
         fence' = NextFence(q), UNCHANGED lapses,
         installed' = installed \union {[after |-> lapses, by |-> q, record |-> NextFence(q)]}
  PROVE  [A!ANext]_(A!gvars)
  <1> DEFINE r == NextFence(q)
  <1> DEFINE named == [epoch |-> r.epoch, authority |-> r.authority]
  <1>1. /\ r \in Records /\ r # None /\ fence' = r
        /\ q.action # "bootstrap" => fence \in Records /\ fence # None
        /\ q.action = "bootstrap" => fence = None
    BY NextRecord
  <1>2. Granted' = Granted \union (IF r.phase = "active" THEN {named} ELSE {})
    BY GrantedStep
  <1>3. GrantOf(fence)' = [epoch |-> r.epoch, authority |-> r.authority, frozen |-> r.phase = "frozen"]
    BY <1>1 DEF GrantOf
  <1>4. fence # None => GrantOf(fence) =
           [epoch |-> fence.epoch, authority |-> fence.authority, frozen |-> fence.phase = "frozen"]
    BY DEF GrantOf
  <1>5. q.action \in Actions
    BY SoundType DEF Requests
  <1>6. CASE q.action = "bootstrap"
    <2>1. r.epoch = 1 /\ r.authority = "go" /\ r.phase = "active"
      BY <1>6, NextBootstrap
    <2>2. GrantOf(fence) = None
      BY <1>1, <1>6 DEF GrantOf
    <2>3. A!Bootstrap
      BY <1>2, <1>3, <2>1, <2>2 DEF A!Bootstrap, A!Give, A!Named, Granted
    <2> QED BY <2>3 DEF A!ANext
  <1>7. CASE q.action = "freeze"
    <2>1. /\ r.epoch = fence.epoch + 1 /\ r.authority = fence.authority
          /\ fence.phase = "active" /\ r.phase = "frozen"
      BY <1>7, NextFreeze
    <2>2. GrantOf(fence) = [epoch |-> fence.epoch, authority |-> fence.authority, frozen |-> FALSE]
      BY <1>1, <1>4, <1>7, <2>1
    <2>3. GrantOf(fence) # None
      BY <1>1, <1>7, GrantOfRecord
    <2>4. GrantOf(fence)' = [epoch |-> fence.epoch + 1, authority |-> fence.authority, frozen |-> TRUE]
      BY <1>3, <2>1
    <2>5. A!Freeze
      BY <1>2, <2>1, <2>2, <2>3, <2>4 DEF A!Freeze, Granted
    <2> QED BY <2>5 DEF A!ANext
  <1>8. CASE q.action = "activate"
    <2>1. /\ r.epoch = fence.epoch /\ r.authority \in Authorities
          /\ fence.phase = "frozen" /\ r.phase = "active"
      BY <1>8, NextActivate
    <2>2. GrantOf(fence) = [epoch |-> fence.epoch, authority |-> fence.authority, frozen |-> TRUE]
      BY <1>1, <1>4, <1>8, <2>1
    <2>3. GrantOf(fence) # None
      BY <1>1, <1>8, GrantOfRecord
    <2>4. GrantOf(fence)' = [epoch |-> fence.epoch, authority |-> r.authority, frozen |-> FALSE]
      BY <1>3, <2>1
    <2>5. A!Activate(r.authority)
      BY <1>2, <2>1, <2>2, <2>3, <2>4 DEF A!Activate, A!Give, A!Named, Granted
    <2> QED BY <2>1, <2>5 DEF A!ANext
  <1>9. CASE q.action = "renew"
    <2>1. r.epoch = fence.epoch /\ r.authority = fence.authority /\ r.phase = fence.phase
      BY <1>9, NextRenew
    <2>2. GrantOf(fence)' = GrantOf(fence)
      BY <1>1, <1>3, <1>4, <1>9, <2>1
    <2>3. r.phase = "active" => named \in Granted
      BY <1>1, <1>9, <2>1 DEF Ordered, Placed, Granted, Grant
    <2>4. Granted' = Granted
      BY <1>2, <2>3
    <2> QED BY <2>2, <2>4 DEF A!gvars, Granted
  <1> QED BY <1>5, <1>6, <1>7, <1>8, <1>9 DEF Actions

LEMMA AuthorityStays ==
  ASSUME UNCHANGED <<fence, lapses, installed>>
  PROVE  UNCHANGED A!gvars
  BY DEF A!gvars, GrantOf, InForce, Grant

LEMMA AuthorityStep == Typed /\ Ordered /\ [Next]_vars => [A!ANext]_(A!gvars)
  <1> SUFFICES ASSUME Typed, Ordered, [Next]_vars PROVE [A!ANext]_(A!gvars)
    OBVIOUS
  <1>1. ASSUME NEW o \in Operators, Swap(o) PROVE [A!ANext]_(A!gvars)
    BY <1>1, SwapCases, AuthorityStays, AuthorityLapses, AuthorityTakes DEF A!ANext
  <1>2. CASE FenceExpires
    BY <1>2, AuthorityLapses DEF FenceExpires, A!ANext
  <1> QED BY <1>1, <1>2, Elsewhere, AuthorityStays

\* Whatever operators do, repeat or lose, and whatever expires, the processes
\* see one sequence of bootstrap, freeze, activation and lapse.
THEOREM ImplementsAuthority == Spec => AuthoritySpec
  BY AuthorityInit, AuthorityStep, OrderedAlways, PTL DEF Spec, AuthoritySpec, A!ASpec

-----------------------------------------------------------------------------
(* A request takes effect once.                                              *)
(*                                                                           *)
(* The receipt alone does not say so, since it is deleted after a time, and  *)
(* an Apply may have looked for it before it was written.  But a request is  *)
(* written only while its deadline is at most a lease away, and its receipt  *)
(* is kept for at least that long: where the receipt is gone, what the       *)
(* request would write is over, and the key is deleted instead.              *)

\* A request on its way to the script has a deadline within one lease.
Bounded == \A o \in Operators :
    pc[o] \in {"read", "swap"} => request[o].lease <= now + MaxLease

\* What took effect is over, or its receipt will be there until it is.
Remembered(i) ==
    \/ i.by.lease <= now
    \/ /\ receipts[i.by.id] # None
       /\ receipts[i.by.id].request = i.by
       /\ i.by.lease <= receipts[i.by.id].until

\* A receipt is of a request that took effect, or whose record was over.
Vouched(x) == receipts[x] # None =>
    \/ receipts[x].request.lease <= now
    \/ \E i \in installed : i.by = receipts[x].request

Once ==
    /\ Bounded
    /\ \A i \in installed : Remembered(i)
    /\ \A x \in Ids : Vouched(x)
    /\ \A o \in succeeded : request[o] \in Requests
    /\ AppliedOnce /\ SuccessIsOwn

LEMMA OnceInit == Init => Once
  BY DEF Init, Once, Bounded, Remembered, Vouched, AppliedOnce, SuccessIsOwn

LEMMA Numbers ==
  ASSUME Typed
  PROVE  /\ now \in Nat
         /\ \A i \in installed : i.by \in Requests /\ i.by.lease \in Nat /\ i.by.id \in Ids
         /\ \A x \in Ids : receipts[x] # None => receipts[x].until \in Nat
                                              /\ receipts[x].request.lease \in Nat
         /\ \A o \in Operators : pc[o] # "idle" =>
               request[o] \in Requests /\ request[o].lease \in Nat /\ request[o].id \in Ids
  BY SoundType DEF Typed, TypeOK, Working, Requests

\* The clock runs, or a receipt that is over disappears.
LEMMA OncePasses ==
  ASSUME Typed, Once, now' \in {now, now + 1},
         \A x \in Ids : \/ receipts'[x] = receipts[x]
                        \/ receipts'[x] = None /\ receipts[x] # None /\ receipts[x].until <= now,
         UNCHANGED <<pc, request, succeeded, installed>>
  PROVE  Once'
  <1>1. /\ now \in Nat /\ now' \in Nat /\ now <= now'
        /\ \A n \in Nat : n <= now => n <= now'
        /\ \A n \in Nat : n <= now + MaxLease => n <= now' + MaxLease
    BY Numbers
  <1>2. Bounded'
    BY <1>1, Numbers DEF Once, Bounded
  <1>3. ASSUME NEW i \in installed PROVE Remembered(i)'
    <2>1. Remembered(i) /\ i.by.lease \in Nat /\ i.by.id \in Ids
      BY Numbers DEF Once
    <2>2. CASE i.by.lease <= now
      BY <1>1, <2>1, <2>2 DEF Remembered
    <2>3. CASE ~ (i.by.lease <= now)
      <3>1. /\ receipts[i.by.id] # None /\ receipts[i.by.id].request = i.by
            /\ i.by.lease <= receipts[i.by.id].until /\ receipts[i.by.id].until \in Nat
        BY <2>1, <2>3, Numbers DEF Remembered
      <3>2. ~ (receipts[i.by.id].until <= now)
        BY <1>1, <2>1, <2>3, <3>1
      <3>3. receipts'[i.by.id] = receipts[i.by.id]
        BY <2>1, <3>2
      <3> QED BY <3>1, <3>3 DEF Remembered
    <2> QED BY <2>2, <2>3
  <1>4. \A x \in Ids : Vouched(x)'
    BY <1>1, Numbers DEF Once, Vouched
  <1>5. AppliedOnce'
    BY DEF Once, AppliedOnce
  <1>6. SuccessIsOwn'
    <2>1. ASSUME NEW o \in succeeded
          PROVE  (\E i \in installed : i.by = request[o]) \/ request[o].lease <= now'
      <3>1. CASE \E i \in installed : i.by = request[o]
        BY <3>1
      <3>2. CASE request[o].lease <= now
        <4>1. request[o].lease \in Nat
          BY DEF Once, Requests
        <4> QED BY <1>1, <3>2, <4>1
      <3> QED BY <3>1, <3>2 DEF Once, SuccessIsOwn
    <2> QED BY <2>1 DEF SuccessIsOwn
  <1>7. \A o \in succeeded : request[o] \in Requests
    BY DEF Once
  <1> QED BY <1>2, <1>3, <1>4, <1>5, <1>6, <1>7 DEF Once

\* An operator's step that changes neither clock, receipts nor history.
LEMMA OnceStays ==
  ASSUME Once, NEW o \in Operators, UNCHANGED <<now, receipts, installed>>,
         \A p \in Operators \ {o} : pc'[p] = pc[p] /\ request'[p] = request[p],
         pc'[o] \in {"read", "swap"} => request'[o].lease <= now + MaxLease,
         succeeded' \subseteq succeeded \union {o}, succeeded \subseteq Operators,
         o \in succeeded' =>
            /\ request'[o] \in Requests
            /\ (\E i \in installed : i.by = request'[o]) \/ request'[o].lease <= now
  PROVE  Once'
  BY DEF Once, Bounded, Remembered, Vouched, AppliedOnce, SuccessIsOwn

\* A receipt that matches answers for its request.
LEMMA MatchVouches ==
  ASSUME Typed, Once, NEW o \in Operators, pc[o] # "idle",
         receipts[request[o].id] # None, Match(o)
  PROVE  (\E i \in installed : i.by = request[o]) \/ request[o].lease <= now
  BY Numbers DEF Once, Vouched, Match

LEMMA InstallOnce ==
  ASSUME Typed, Once, NEW o \in Operators, pc[o] = "swap",
         receipts[request[o].id] = None, Install(o),
         pc' = [pc EXCEPT ![o] = "idle"], succeeded' \subseteq succeeded \union {o},
         UNCHANGED <<now, request>>
  PROVE  Once'
  <1> DEFINE q == request[o]
  <1> DEFINE receipt == [request |-> q, until |-> now + ReceiptTTL]
  <1> DEFINE n == [after |-> lapses, by |-> q, record |-> NextFence(q)]
  <1>1. /\ q \in Permitted /\ q \in Requests /\ q.id \in Ids /\ q.lease \in Nat /\ now \in Nat
        /\ NextFence(q).lease = q.lease
    BY Numbers, NextRecord DEF Typed, Working
  <1>2. q.lease <= now + ReceiptTTL
    <2>1. q.lease <= now + MaxLease
      BY DEF Once, Bounded
    <2> QED BY <1>1, <2>1
  <1>3. receipt # None /\ receipt.request = q /\ receipt.until = now + ReceiptTTL
    <2>1. receipt \in [request : Requests, until : Nat]
      BY <1>1
    <2> QED BY <2>1
  <1>4. /\ receipts' = [receipts EXCEPT ![q.id] = receipt]
        /\ \/ q.lease > now /\ installed' = installed \union {n}
           \/ ~ (q.lease > now) /\ installed' = installed
    BY <1>1 DEF Install
  <1>5. n.by = q
    OBVIOUS
  <1>6. /\ receipts'[q.id] = receipt
        /\ \A x \in Ids \ {q.id} : receipts'[x] = receipts[x]
    BY <1>1, <1>4 DEF Typed, TypeOK
  <1> HIDE DEF receipt, n
  <1>7. \A i \in installed : i.by.id = q.id => i.by.lease <= now
    BY DEF Once, Remembered
  <1>8. Bounded'
    BY DEF Once, Bounded, Typed, TypeOK
  <1>9. ASSUME NEW i \in installed' PROVE Remembered(i)'
    <2>1. CASE i \in installed
      <3>1. i.by.id \in Ids /\ Remembered(i)
        BY <2>1, Numbers DEF Once
      <3> QED BY <1>6, <1>7, <2>1, <3>1 DEF Remembered
    <2>2. CASE i = n
      <3>1. /\ i.by = q /\ receipts'[q.id] # None /\ receipts'[q.id].request = q
            /\ q.lease <= receipts'[q.id].until
        BY <1>2, <1>3, <1>5, <1>6, <2>2
      <3> QED BY <3>1 DEF Remembered
    <2> QED BY <1>4, <2>1, <2>2
  <1>10. ASSUME NEW x \in Ids PROVE Vouched(x)'
    <2>1. CASE x = q.id
      <3>1. CASE q.lease > now
        BY <1>3, <1>4, <1>5, <1>6, <2>1, <3>1 DEF Vouched
      <3>2. CASE ~ (q.lease > now)
        BY <1>1, <1>3, <1>6, <2>1, <3>2 DEF Vouched
      <3> QED BY <3>1, <3>2
    <2>2. CASE x # q.id
      BY <1>4, <1>6, <2>2 DEF Once, Vouched
    <2> QED BY <2>1, <2>2
  <1>11. AppliedOnce'
    <2>1. CASE q.lease > now
      <3>1. \A i \in installed : i.by # q
        BY <1>1, <1>7, <2>1
      <3> QED BY <1>4, <1>5, <3>1 DEF Once, AppliedOnce
    <2>2. CASE ~ (q.lease > now)
      BY <1>4, <2>2 DEF Once, AppliedOnce
    <2> QED BY <2>1, <2>2
  <1>12. SuccessIsOwn'
    <2>1. (\E i \in installed' : i.by = q) \/ q.lease <= now
      BY <1>1, <1>4, <1>5
    <2>2. \A p \in succeeded : (\E i \in installed' : i.by = request[p]) \/ request[p].lease <= now
      BY <1>4 DEF Once, SuccessIsOwn
    <2> QED BY <2>1, <2>2 DEF SuccessIsOwn
  <1>13. \A p \in succeeded' : request'[p] \in Requests
    BY <1>1 DEF Once
  <1> QED BY <1>8, <1>9, <1>10, <1>11, <1>12, <1>13 DEF Once

LEMMA OnceStep == Typed /\ Once /\ [Next]_vars => Once'
  <1> SUFFICES ASSUME Typed, Once, [Next]_vars PROVE Once'
    OBVIOUS
  <1> USE DEF writerVars, ghostVars
  <1>0. succeeded \subseteq Operators
    BY DEF Typed, TypeOK
  <1>1. ASSUME NEW o \in Operators,
               Submit(o) \/ \E other \in Operators : Resubmit(o, other)
        PROVE  Once'
    <2>1. /\ UNCHANGED <<now, receipts, installed>> /\ succeeded' = succeeded \ {o}
          /\ pc'[o] = "receipt"
          /\ \A p \in Operators \ {o} : pc'[p] = pc[p] /\ request'[p] = request[p]
      BY <1>1 DEF Submit, Resubmit, Goto, Typed, TypeOK
    <2> QED BY <1>0, <2>1, OnceStays
  <1>2. ASSUME NEW o \in Operators, ReadReceipt(o) PROVE Once'
    <2>1. /\ pc[o] = "receipt" /\ UNCHANGED <<now, receipts, installed, request>>
          /\ \A p \in Operators \ {o} : pc'[p] = pc[p]
          /\ succeeded' \subseteq succeeded \union {o}
          /\ \/ pc'[o] = "idle"
             \/ pc'[o] = "read" /\ LeaseInBounds(request[o], started[o])
          /\ \/ succeeded' = succeeded
             \/ receipts[request[o].id] # None /\ Match(o)
      BY <1>2 DEF ReadReceipt, Answer, Goto, Typed, TypeOK
    <2>2. LeaseInBounds(request[o], started[o]) => request[o].lease <= now + MaxLease
      <3>1. started[o] \in Nat /\ started[o] <= now /\ now \in Nat /\ request[o].lease \in Nat
        BY <2>1, Numbers DEF Typed, TypeOK
      <3> QED BY <3>1 DEF LeaseInBounds
    <2>3. o \in succeeded' => /\ request[o] \in Requests
                              /\ (\E i \in installed : i.by = request[o]) \/ request[o].lease <= now
      BY <2>1, Numbers, MatchVouches DEF Once, SuccessIsOwn
    <2> QED BY <1>0, <2>1, <2>2, <2>3, OnceStays
  <1>3. ASSUME NEW o \in Operators, ReadFence(o) PROVE Once'
    <2>1. /\ pc[o] = "read" /\ UNCHANGED <<now, receipts, installed, request, succeeded>>
          /\ \A p \in Operators \ {o} : pc'[p] = pc[p]
      BY <1>3 DEF ReadFence, Answer, Goto, Typed, TypeOK
    <2>2. request[o].lease <= now + MaxLease
      BY <2>1 DEF Once, Bounded
    <2> QED BY <1>0, <2>1, <2>2, OnceStays DEF Once, SuccessIsOwn
  <1>4. ASSUME NEW o \in Operators, Swap(o) PROVE Once'
    <2>1. /\ pc[o] = "swap" /\ UNCHANGED <<now, request>>
          /\ pc' = [pc EXCEPT ![o] = "idle"] /\ succeeded' \subseteq succeeded \union {o}
          /\ \/ receipts[request[o].id] = None /\ Install(o)
             \/ /\ UNCHANGED <<receipts, installed>>
                /\ \/ succeeded' = succeeded
                   \/ receipts[request[o].id] # None /\ Match(o)
      BY <1>4 DEF Swap, Answer, Goto
    <2>2. CASE receipts[request[o].id] = None /\ Install(o)
      BY <2>1, <2>2, InstallOnce
    <2>3. CASE /\ UNCHANGED <<receipts, installed>>
               /\ \/ succeeded' = succeeded
                  \/ receipts[request[o].id] # None /\ Match(o)
      <3>1. o \in succeeded' => /\ request[o] \in Requests
                                /\ (\E i \in installed : i.by = request[o]) \/ request[o].lease <= now
        BY <2>1, <2>3, Numbers, MatchVouches DEF Once, SuccessIsOwn
      <3>2. pc'[o] = "idle" /\ \A p \in Operators \ {o} : pc'[p] = pc[p]
        BY <2>1 DEF Typed, TypeOK
      <3> QED BY <1>0, <2>1, <2>3, <3>1, <3>2, OnceStays
    <2> QED BY <2>1, <2>2, <2>3
  <1>5. CASE Tick
    BY <1>5, OncePasses DEF Tick
  <1>6. CASE FenceExpires
    BY <1>6, OncePasses DEF FenceExpires
  <1>7. ASSUME NEW i \in Ids, ReceiptExpires(i) PROVE Once'
    <2>1. \A x \in Ids : \/ receipts'[x] = receipts[x]
                         \/ receipts'[x] = None /\ receipts[x] # None /\ receipts[x].until <= now
      BY <1>7 DEF ReceiptExpires, Typed, TypeOK
    <2> QED BY <1>7, <2>1, OncePasses DEF ReceiptExpires
  <1>8. CASE UNCHANGED vars
    BY <1>8, OncePasses DEF vars
  <1> QED BY <1>1, <1>2, <1>3, <1>4, <1>5, <1>6, <1>7, <1>8 DEF Next

LEMMA OnceAlways == Spec => []Once
  BY OnceInit, OnceStep, TypedAlways, PTL DEF Spec

\* A request takes effect once, also when it is repeated after its receipt is
\* gone or raced by a copy of itself (Apply, applyFenceTransitionScript).
THEOREM NeverTwice == Spec => []AppliedOnce
  BY OnceAlways, PTL DEF Once

\* Apply does not report the success of another request that used the same
\* transition id (decodeMatchingFenceReceipt).
THEOREM OwnSuccess == Spec => []SuccessIsOwn
  BY OnceAlways, PTL DEF Once
=============================================================================
