--------------------------- MODULE SyncClientProofs ---------------------------
(***************************************************************************)
(* Proofs about SyncClient for any tabs, pulls, conversations, page sizes  *)
(* and water marks: its type invariant, that nothing is acknowledged that  *)
(* is not durable, that gaps are torn, that the manifest is true, that a   *)
(* finished run is complete, and what an eviction spares.                  *)
(***************************************************************************)
EXTENDS SyncClient, FiniteSetTheorems, SequenceTheorems, TLAPS

USE ClientAssumption DEF ClientAssumption

-----------------------------------------------------------------------------
(* Ranks in a finite set with a strict total order R, given as the set of   *)
(* its pairs: how many elements lie before one.                             *)

Before(S, R, x) == {y \in S : <<y, x>> \in R}

Orders(R, S) ==
    /\ \A x \in S : <<x, x>> \notin R
    /\ \A x, y \in S : x = y \/ <<x, y>> \in R \/ <<y, x>> \in R
    /\ \A x, y, z \in S : <<x, y>> \in R /\ <<y, z>> \in R => <<x, z>> \in R

\* Every place is taken by exactly one element.
LEMMA Ranks ==
  ASSUME NEW S, IsFiniteSet(S), NEW R, Orders(R, S)
  PROVE  /\ \A x \in S : Cardinality(Before(S, R, x)) \in 0..(Cardinality(S) - 1)
         /\ \A x, y \in S : Cardinality(Before(S, R, x)) = Cardinality(Before(S, R, y)) => x = y
         /\ \A k \in 0..(Cardinality(S) - 1) : \E x \in S : Cardinality(Before(S, R, x)) = k
  <1> DEFINE n == Cardinality(S)
             rank == [x \in S |-> Cardinality(Before(S, R, x))]
  <1>1. n \in Nat
    BY FS_CardinalityType
  <1>2. \A x \in S : IsFiniteSet(Before(S, R, x)) /\ Cardinality(Before(S, R, x)) \in Nat
    <2> SUFFICES ASSUME NEW x \in S
                 PROVE  IsFiniteSet(Before(S, R, x)) /\ Cardinality(Before(S, R, x)) \in Nat
      OBVIOUS
    <2>1. Before(S, R, x) \in SUBSET S
      BY DEF Before
    <2> QED BY <2>1, FS_Subset, FS_CardinalityType
  <1>3. \A x \in S : Cardinality(Before(S, R, x)) \in 0..(n - 1)
    <2> SUFFICES ASSUME NEW x \in S PROVE Cardinality(Before(S, R, x)) < n
      BY <1>1, <1>2
    <2>1. Before(S, R, x) \in SUBSET S /\ x \notin Before(S, R, x)
      BY DEF Before, Orders
    <2>2. Cardinality(Before(S, R, x)) <= n /\ Cardinality(Before(S, R, x)) # n
      BY <2>1, FS_Subset
    <2> QED BY <2>2, <1>1, <1>2
  <1>4. ASSUME NEW x \in S, NEW y \in S, <<x, y>> \in R
        PROVE  Cardinality(Before(S, R, x)) < Cardinality(Before(S, R, y))
    <2>1. Before(S, R, x) \in SUBSET Before(S, R, y)
      BY <1>4 DEF Before, Orders
    <2>2. x \in Before(S, R, y) /\ x \notin Before(S, R, x)
      BY <1>4 DEF Before, Orders
    <2>3. IsFiniteSet(Before(S, R, y))
      BY <1>2
    <2>4. /\ Cardinality(Before(S, R, x)) <= Cardinality(Before(S, R, y))
          /\ Cardinality(Before(S, R, x)) # Cardinality(Before(S, R, y))
      BY <2>1, <2>2, <2>3, FS_Subset
    <2>5. Cardinality(Before(S, R, x)) \in Nat /\ Cardinality(Before(S, R, y)) \in Nat
      BY <1>2
    <2> QED BY <2>4, <2>5
  <1>5. \A x, y \in S : Cardinality(Before(S, R, x)) = Cardinality(Before(S, R, y)) => x = y
    <2> SUFFICES ASSUME NEW x \in S, NEW y \in S, x # y,
                        Cardinality(Before(S, R, x)) = Cardinality(Before(S, R, y))
                 PROVE  FALSE
      OBVIOUS
    <2>1. Cardinality(Before(S, R, x)) \in Nat
      BY <1>2
    <2>2. <<x, y>> \in R \/ <<y, x>> \in R
      BY DEF Orders
    <2>3. \/ Cardinality(Before(S, R, x)) < Cardinality(Before(S, R, y))
          \/ Cardinality(Before(S, R, y)) < Cardinality(Before(S, R, x))
      BY <2>2, <1>4
    <2> QED BY <2>1, <2>3
  <1>6. rank \in Injection(S, 0..(n - 1))
    BY <1>3, <1>5 DEF Injection, IsInjective
  <1>7. IsFiniteSet(0..(n - 1)) /\ Cardinality(0..(n - 1)) = n
    <2>1. Cardinality(0..(n - 1)) = IF 0 > n - 1 THEN 0 ELSE (n - 1) - 0 + 1
      BY <1>1, FS_Interval
    <2>2. IsFiniteSet(0..(n - 1))
      BY <1>1, FS_Interval
    <2>3. \/ 0 > n - 1 /\ Cardinality(0..(n - 1)) = 0
          \/ ~(0 > n - 1) /\ Cardinality(0..(n - 1)) = (n - 1) - 0 + 1
      BY <2>1
    <2> HIDE DEF n
    <2>4. \A c : (0 > n - 1 /\ c = 0) \/ (~(0 > n - 1) /\ c = (n - 1) - 0 + 1) => c = n
      BY <1>1
    <2> QED BY <2>2, <2>3, <2>4
  <1>8. rank \in Surjection(S, 0..(n - 1))
    BY <1>6, <1>7, FS_Injection
  <1>9. \A k \in 0..(n - 1) : \E x \in S : rank[x] = k
    BY <1>8 DEF Surjection
  <1> QED BY <1>3, <1>5, <1>9

\* As many elements lie at the first k places as there are places.
LEMMA FirstPlaces ==
  ASSUME NEW S, IsFiniteSet(S), NEW R, Orders(R, S), NEW k \in 0..Cardinality(S)
  PROVE  Cardinality({x \in S : Cardinality(Before(S, R, x)) < k}) = k
  <1> DEFINE T == {x \in S : Cardinality(Before(S, R, x)) < k}
             rank == [x \in T |-> Cardinality(Before(S, R, x))]
  <1>1. Cardinality(S) \in Nat /\ k \in Nat
    BY FS_CardinalityType
  <1>2. T \in SUBSET S /\ IsFiniteSet(T)
    <2>1. T \in SUBSET S
      OBVIOUS
    <2> QED BY <2>1, FS_Subset
  <1>3. \A x \in S : Cardinality(Before(S, R, x)) \in 0..(Cardinality(S) - 1)
    BY Ranks
  <1>4. \A x, y \in S : Cardinality(Before(S, R, x)) = Cardinality(Before(S, R, y)) => x = y
    BY Ranks
  <1>5. \A j \in 0..(Cardinality(S) - 1) : \E x \in S : Cardinality(Before(S, R, x)) = j
    BY Ranks
  <1>6. \A x \in T : Cardinality(Before(S, R, x)) \in 0..(k - 1)
    <2> SUFFICES ASSUME NEW x \in T PROVE Cardinality(Before(S, R, x)) \in 0..(k - 1)
      OBVIOUS
    <2>1. Cardinality(Before(S, R, x)) \in 0..(Cardinality(S) - 1) /\ Cardinality(Before(S, R, x)) < k
      BY <1>3
    <2> HIDE DEF T
    <2> QED BY <2>1, <1>1
  <1>7. \A j \in 0..(k - 1) : \E x \in T : Cardinality(Before(S, R, x)) = j
    <2> SUFFICES ASSUME NEW j \in 0..(k - 1) PROVE \E x \in T : Cardinality(Before(S, R, x)) = j
      OBVIOUS
    <2>1. j \in 0..(Cardinality(S) - 1) /\ j < k
      BY <1>1
    <2>2. PICK x \in S : Cardinality(Before(S, R, x)) = j
      BY <2>1, <1>5
    <2> QED BY <2>1, <2>2
  <1>8. rank \in Bijection(T, 0..(k - 1))
    <2>1. rank \in [T -> 0..(k - 1)]
      BY <1>6
    <2>2. rank \in Injection(T, 0..(k - 1))
      BY <1>2, <1>4, <2>1 DEF Injection, IsInjective
    <2>3. rank \in Surjection(T, 0..(k - 1))
      BY <1>7, <2>1 DEF Surjection
    <2> QED BY <2>2, <2>3 DEF Bijection
  <1>9. Cardinality(0..(k - 1)) = Cardinality(T)
    BY <1>2, <1>8, FS_Bijection DEF ExistsBijection
  <1>10. Cardinality(0..(k - 1)) = IF 0 > k - 1 THEN 0 ELSE (k - 1) - 0 + 1
    BY <1>1, FS_Interval
  <1>11. \/ 0 > k - 1 /\ Cardinality(0..(k - 1)) = 0
         \/ ~(0 > k - 1) /\ Cardinality(0..(k - 1)) = (k - 1) - 0 + 1
    BY <1>10
  <1>12. \A c : (0 > k - 1 /\ c = 0) \/ (~(0 > k - 1) /\ c = (k - 1) - 0 + 1) => c = k
    BY <1>1
  <1> QED BY <1>9, <1>11, <1>12

LEMMA KthInOrder ==
  ASSUME NEW S, IsFiniteSet(S), NEW R, Orders(R, S), NEW k \in 0..(Cardinality(S) - 1)
  PROVE  \E x \in S : Cardinality(Before(S, R, x)) = k
  <1>1. \A j \in 0..(Cardinality(S) - 1) : \E x \in S : Cardinality(Before(S, R, x)) = j
    BY Ranks
  <1> QED BY <1>1

Less(S) == {p \in S \X S : p[1] < p[2]}

LEMMA LessOrders ==
  ASSUME NEW S \in SUBSET Nat PROVE Orders(Less(S), S)
  BY DEF Orders, Less

\* In a set of numbers there is one that has k - 1 below it.
LEMMA KthNumber ==
  ASSUME NEW S \in SUBSET Nat, IsFiniteSet(S), NEW k \in 1..Cardinality(S)
  PROVE  \E m \in S : Cardinality({q \in S : q <= m}) = k
  <1>1. Cardinality(S) \in Nat
    BY FS_CardinalityType
  <1>2. k - 1 \in 0..(Cardinality(S) - 1)
    BY <1>1
  <1>3. Orders(Less(S), S)
    BY LessOrders
  <1>4. PICK m \in S : Cardinality(Before(S, Less(S), m)) = k - 1
    BY <1>2, <1>3, KthInOrder
  <1>5. {q \in S : q <= m} = Before(S, Less(S), m) \cup {m} /\ m \notin Before(S, Less(S), m)
    <2>1. Before(S, Less(S), m) = {q \in S : q < m}
      BY DEF Before, Less
    <2>2. \A q \in S : (q <= m <=> q < m \/ q = m) /\ ~(m < m)
      OBVIOUS
    <2>3. {q \in S : q <= m} = {q \in S : q < m} \cup {m} /\ m \notin {q \in S : q < m}
      BY <2>2
    <2> QED BY <2>1, <2>3
  <1>6. Before(S, Less(S), m) \in SUBSET S
    BY DEF Before
  <1>7. IsFiniteSet(Before(S, Less(S), m))
    BY <1>6, FS_Subset
  <1>8. Cardinality(Before(S, Less(S), m) \cup {m}) =
          IF m \in Before(S, Less(S), m) THEN Cardinality(Before(S, Less(S), m))
          ELSE Cardinality(Before(S, Less(S), m)) + 1
    BY <1>7, FS_AddElement
  <1>9. Cardinality(Before(S, Less(S), m) \cup {m}) = (k - 1) + 1
    BY <1>4, <1>5, <1>8
  <1>10. (k - 1) + 1 = k
    BY <1>1
  <1> QED BY <1>5, <1>9, <1>10

\* The greatest number.
LEMMA MaxNumber ==
  ASSUME NEW S \in SUBSET Nat, IsFiniteSet(S), S # {}
  PROVE  Max(S) \in S /\ \A q \in S : q <= Max(S)
  <1>1. Cardinality(S) \in Nat /\ Cardinality(S) # 0
    BY FS_CardinalityType, FS_EmptySet
  <1>2. Cardinality(S) \in 1..Cardinality(S)
    BY <1>1
  <1>3. PICK m \in S : Cardinality({q \in S : q <= m}) = Cardinality(S)
    BY <1>2, KthNumber
  <1>4. {q \in S : q <= m} \in SUBSET S
    OBVIOUS
  <1>5. {q \in S : q <= m} = S
    BY <1>3, <1>4, FS_Subset
  <1>6. \A q \in S : m >= q
    BY <1>5
  <1>7. \E x \in S : \A y \in S : x >= y
    BY <1>6
  <1>8. Max(S) \in S /\ \A q \in S : Max(S) >= q
    BY <1>7 DEF Max
  <1> QED BY <1>8

-----------------------------------------------------------------------------
(* Type correctness.  What TypeOK does not say: the page that a tab holds   *)
(* ends with a row of the inbox, and what is in the store was committed.    *)

MessageType == [conv : Conversations, seq : 1..MaxSeq, fanned : BOOLEAN]

Held ==
    /\ at \in [Tabs -> Nat] /\ upto \in [Tabs -> Nat] /\ target \in [Tabs -> Nat]
    /\ \A t \in Tabs : pc[t] = "commit" => upto[t] \in Inbox
    /\ store \subseteq everStored

Typed == TypeOK /\ Held

LEMMA RowsTyped ==
  ASSUME TypeOK
  PROVE  /\ Len(messages) \in Nat /\ Sent = 1..Len(messages)
         /\ Sent \subseteq Nat \ {0} /\ IsFiniteSet(Sent)
         /\ Inbox \subseteq Sent /\ IsFiniteSet(Inbox) /\ Inbox \subseteq Nat
         /\ LastRow \in Inbox \union {0} /\ \A m \in Inbox : m <= LastRow
         /\ \A c : /\ OfConv(c) \subseteq Sent /\ IsFiniteSet(OfConv(c))
                  /\ Cardinality(OfConv(c)) \in Nat /\ Cardinality(OfConv(c)) <= Len(messages)
         /\ Latest \in Nat
         /\ \A m \in Sent : messages[m] \in MessageType
  <1>1. messages \in Seq(MessageType)
    BY DEF TypeOK, MessageType
  <1>2. Len(messages) \in Nat /\ Sent = 1..Len(messages)
    BY <1>1 DEF Sent
  <1>3. IsFiniteSet(1..Len(messages)) /\ Cardinality(1..Len(messages)) = Len(messages)
    <2>1. Cardinality(1..Len(messages)) = IF 1 > Len(messages) THEN 0 ELSE Len(messages) - 1 + 1
      BY <1>2, FS_Interval
    <2>2. IsFiniteSet(1..Len(messages))
      BY <1>2, FS_Interval
    <2>3. \/ 1 > Len(messages) /\ Cardinality(1..Len(messages)) = 0
          \/ ~(1 > Len(messages)) /\ Cardinality(1..Len(messages)) = Len(messages) - 1 + 1
      BY <2>1
    <2>4. \A n \in Nat : \A k : (1 > n /\ k = 0) \/ (~(1 > n) /\ k = n - 1 + 1) => k = n
      OBVIOUS
    <2> QED BY <1>2, <2>2, <2>3, <2>4
  <1>4. Sent \subseteq Nat \ {0}
    BY <1>2
  <1>5. Inbox \in SUBSET Sent /\ Inbox \subseteq Nat
    BY <1>4 DEF Inbox
  <1>6. IsFiniteSet(Inbox)
    BY <1>2, <1>3, <1>5, FS_Subset
  <1>7. IsFiniteSet(Inbox \union {0}) /\ (Inbox \union {0}) \in SUBSET Nat
    BY <1>5, <1>6, FS_AddElement
  <1>8. LastRow \in Inbox \union {0} /\ \A m \in Inbox \union {0} : m <= LastRow
    BY <1>7, MaxNumber DEF LastRow
  <1>9. ASSUME NEW c
        PROVE  /\ OfConv(c) \subseteq Sent /\ IsFiniteSet(OfConv(c))
               /\ Cardinality(OfConv(c)) \in Nat /\ Cardinality(OfConv(c)) <= Len(messages)
    <2>1. OfConv(c) \in SUBSET Sent
      BY DEF OfConv
    <2> QED BY <2>1, <1>2, <1>3, FS_Subset, FS_CardinalityType
  <1>10. Latest \in Nat
    BY <1>9 DEF Latest, OfGroup
  <1>11. \A m \in Sent : messages[m] \in MessageType
    BY <1>1, <1>2
  <1> QED BY <1>2, <1>3, <1>4, <1>5, <1>6, <1>8, <1>9, <1>10, <1>11

\* A message arrives: everything else keeps its place and its number.
LEMMA Arrives ==
  ASSUME TypeOK, NEW c \in Conversations, Arrive(c)
  PROVE  /\ messages' \in Seq(MessageType) /\ Len(messages') <= MaxSeq
         /\ Len(messages') = Len(messages) + 1 /\ Sent' = Sent \union {Len(messages) + 1}
         /\ \A m \in Sent : m < Len(messages) + 1 /\ messages'[m] = messages[m]
         /\ messages'[Len(messages) + 1].conv = c
         /\ messages'[Len(messages) + 1].seq = Cardinality(OfConv(c)) + 1
         /\ Inbox \subseteq Inbox' /\ Inbox' \subseteq Inbox \union {Len(messages) + 1}
         /\ OfConv(c)' = OfConv(c) \union {Len(messages) + 1}
         /\ \A d : d # c => OfConv(d)' = OfConv(d)
         /\ Latest <= Latest' /\ Latest' \in Nat
         /\ (c # Group => Latest' = Latest) /\ (c = Group => Latest' = Latest + 1)
  <1> DEFINE n == Len(messages) + 1
  <1>1. /\ Len(messages) \in Nat /\ Sent = 1..Len(messages) /\ IsFiniteSet(OfGroup) /\ Latest \in Nat
        /\ \A d : Cardinality(OfConv(d)) \in Nat /\ Cardinality(OfConv(d)) <= Len(messages)
    BY RowsTyped DEF OfGroup
  <1>2. messages \in Seq(MessageType)
    BY DEF TypeOK, MessageType
  <1>3. Len(messages) < MaxSeq
    BY DEF Arrive
  <1>4. PICK fanned \in BOOLEAN :
           messages' = Append(messages, [conv |-> c, seq |-> Cardinality(OfConv(c)) + 1, fanned |-> fanned])
    BY DEF Arrive
  <1>5. Cardinality(OfConv(c)) + 1 \in 1..MaxSeq
    <2>1. \A k \in Nat, l \in Nat : k <= l /\ l < MaxSeq => k + 1 \in 1..MaxSeq
      OBVIOUS
    <2> QED BY <1>1, <1>3, <2>1
  <1>6. [conv |-> c, seq |-> Cardinality(OfConv(c)) + 1, fanned |-> fanned] \in MessageType
    BY <1>5 DEF MessageType
  <1>7. /\ messages' \in Seq(MessageType) /\ Len(messages') = n
        /\ \A m \in 1..Len(messages) : messages'[m] = messages[m]
        /\ messages'[n] = [conv |-> c, seq |-> Cardinality(OfConv(c)) + 1, fanned |-> fanned]
    BY <1>2, <1>4, <1>6
  <1>8. Sent' = 1..n
    BY <1>7 DEF Sent
  <1>9. Sent' = Sent \union {n}
    BY <1>1, <1>8
  <1>10. \A m \in Sent : m < n /\ messages'[m] = messages[m]
    BY <1>1, <1>7
  <1>11. Inbox \subseteq Inbox' /\ Inbox' \subseteq Inbox \union {n}
    BY <1>9, <1>10 DEF Inbox
  <1>12. \A d : OfConv(d)' = OfConv(d) \union (IF d = c THEN {n} ELSE {})
    BY <1>7, <1>9, <1>10 DEF OfConv
  <1>13. n \notin OfGroup /\ n \in Nat
    BY <1>1, <1>10 DEF OfGroup, OfConv
  <1>16. OfConv(c)' = OfConv(c) \union {n} /\ \A d : d # c => OfConv(d)' = OfConv(d)
    BY <1>12
  <1>17. Len(messages') <= MaxSeq
    BY <1>1, <1>3, <1>7
  <1>18. messages'[n].conv = c /\ messages'[n].seq = Cardinality(OfConv(c)) + 1
    BY <1>7
  <1>14. CASE c = Group
    <2>1. OfGroup' = OfGroup \union {n}
      BY <1>12, <1>14 DEF OfGroup
    <2>2. Cardinality(OfGroup \union {n}) = IF n \in OfGroup THEN Cardinality(OfGroup) ELSE Cardinality(OfGroup) + 1
      BY <1>1, FS_AddElement
    <2>3. Latest' = Latest + 1
      BY <1>13, <2>1, <2>2 DEF Latest
    <2> HIDE DEF n
    <2>4. Latest <= Latest' /\ Latest' \in Nat
      BY <1>1, <2>3
    <2> USE DEF n
    <2> QED BY <1>7, <1>9, <1>10, <1>11, <1>14, <1>16, <1>17, <1>18, <2>3, <2>4
  <1>15. CASE c # Group
    <2>1. OfGroup' = OfGroup
      BY <1>12, <1>15 DEF OfGroup
    <2>2. Latest' = Latest
      BY <2>1 DEF Latest
    <2>3. Latest <= Latest' /\ Latest' \in Nat
      BY <1>1, <2>2
    <2> QED BY <1>7, <1>9, <1>10, <1>11, <1>15, <1>16, <1>17, <1>18, <2>2, <2>3
  <1> QED BY <1>14, <1>15

LEMMA TypedInit == Init => Typed
  <1> SUFFICES ASSUME Init PROVE Typed
    OBVIOUS
  <1> USE DEF Init
  <1>1. DOMAIN messages = {} /\ messages \in Seq(MessageType) /\ Len(messages) = 0
    OBVIOUS
  <1>2. Cardinality({}) = 0
    BY FS_EmptySet
  <1>3. Sent = {} /\ Inbox = {} /\ OfGroup = {} /\ Latest = 0
    BY <1>1, <1>2 DEF Sent, Inbox, OfGroup, OfConv, Latest
  <1>4. messages \in Seq([conv : Conversations, seq : 1..MaxSeq, fanned : BOOLEAN])
    BY <1>1 DEF MessageType
  <1>5. \A t \in Tabs : at[t] = 0 /\ target[t] = 0 /\ pc[t] = "idle"
    OBVIOUS
  <1>6. pull \in [Pulls -> [step : {"idle", "list", "commit"}, at : 0..Latest, upto : 0..Latest,
                            target : 0..Latest, stale : BOOLEAN]]
    BY <1>3 DEF NoPull
  <1>7. /\ manifest \in [count : Nat, compacted : BOOLEAN]
        /\ pc \in [Tabs -> {"idle", "ack", "list", "commit"}]
        /\ more \in [Tabs -> BOOLEAN] /\ stale \in [Tabs -> BOOLEAN]
    BY DEF Empty
  <1>8. torn \in BOOLEAN /\ mixed \in BOOLEAN
    OBVIOUS
  <1>9. faults \in 0..MaxFaults /\ clears \in 0..MaxClears
    OBVIOUS
  <1>10. checkpoint \in Inbox \union {0} /\ cursor \in Inbox \union {0} /\ groupCursor \in 0..Latest
    BY <1>3
  <1>11. /\ acks \subseteq [tab : Tabs, seq : Inbox] /\ store \subseteq Sent /\ pulled \subseteq store
         /\ evicted \subseteq everStored /\ everStored \subseteq Sent /\ store \subseteq everStored
    OBVIOUS
  <1>12. Cardinality(store) <= HighWater
    BY <1>2
  <1>13. Len(messages) <= MaxSeq
    BY <1>1
  <1>14. TypeOK
    BY <1>4, <1>5, <1>6, <1>7, <1>8, <1>9, <1>10, <1>11, <1>12, <1>13 DEF TypeOK
  <1>15. at \in [Tabs -> Nat] /\ upto \in [Tabs -> Nat] /\ target \in [Tabs -> Nat]
    OBVIOUS
  <1> QED BY <1>5, <1>11, <1>14, <1>15 DEF Typed, Held

-----------------------------------------------------------------------------
(* Eviction: the rows lie in one order, and the first of them are removed.  *)

LEMMA PrecedesOrders ==
  ASSUME TypeOK, NEW renumbered
  PROVE  /\ \A q \in Sent : ~ Precedes(q, q, renumbered)
         /\ \A q, r \in Sent : q = r \/ Precedes(q, r, renumbered) \/ Precedes(r, q, renumbered)
         /\ \A q, r, s \in Sent :
               Precedes(q, r, renumbered) /\ Precedes(r, s, renumbered) => Precedes(q, s, renumbered)
  <1> DEFINE num == [m \in Sent |-> IF m \in renumbered THEN MessageSeq(m) ELSE Ahead + m]
  <1>1. Sent \subseteq Nat /\ \A m \in Sent : MessageSeq(m) \in Nat
    BY RowsTyped DEF MessageSeq, MessageType
  <1>2. \A m \in Sent : num[m] \in Nat
    BY <1>1
  <1>3. \A q, r \in Sent :
           Precedes(q, r, renumbered) <=> num[q] < num[r] \/ (num[q] = num[r] /\ q < r)
    BY DEF Precedes
  <1> HIDE DEF num
  <1> QED BY <1>1, <1>2, <1>3

EvictionOrder(rows, renumbered) ==
    {p \in rows \X rows : EvictedBefore(p[1], p[2], Spare(rows, renumbered), renumbered)}

LEMMA EvictionOrders ==
  ASSUME TypeOK, NEW renumbered, NEW rows \in SUBSET Sent
  PROVE  Orders(EvictionOrder(rows, renumbered), rows)
  <1> DEFINE spare == Spare(rows, renumbered)
  <1>1. /\ \A q \in rows : ~ Precedes(q, q, renumbered)
        /\ \A q, r \in rows : q = r \/ Precedes(q, r, renumbered) \/ Precedes(r, q, renumbered)
        /\ \A q, r, s \in rows :
               Precedes(q, r, renumbered) /\ Precedes(r, s, renumbered) => Precedes(q, s, renumbered)
    BY PrecedesOrders
  <1>2. \A q, r \in rows :
           <<q, r>> \in EvictionOrder(rows, renumbered) <=> EvictedBefore(q, r, spare, renumbered)
    BY DEF EvictionOrder
  <1>3. \A q, r \in rows : EvictedBefore(q, r, spare, renumbered) <=>
            \/ q \in spare /\ r \notin spare
            \/ (q \in spare <=> r \in spare) /\ Precedes(q, r, renumbered)
    BY DEF EvictedBefore
  <1> HIDE DEF spare
  <1>4. \A q \in rows : <<q, q>> \notin EvictionOrder(rows, renumbered)
    BY <1>1, <1>2, <1>3
  <1>5. \A q, r \in rows : \/ q = r \/ <<q, r>> \in EvictionOrder(rows, renumbered)
                           \/ <<r, q>> \in EvictionOrder(rows, renumbered)
    BY <1>1, <1>2, <1>3
  <1>6. ASSUME NEW q \in rows, NEW r \in rows, NEW s \in rows,
               <<q, r>> \in EvictionOrder(rows, renumbered), <<r, s>> \in EvictionOrder(rows, renumbered)
        PROVE  <<q, s>> \in EvictionOrder(rows, renumbered)
    <2>1. EvictedBefore(q, r, spare, renumbered) /\ EvictedBefore(r, s, spare, renumbered)
      BY <1>2, <1>6
    <2>2. EvictedBefore(q, s, spare, renumbered)
      BY <1>1, <1>3, <2>1
    <2> QED BY <1>2, <2>2
  <1> QED BY <1>4, <1>5, <1>6 DEF Orders

LEMMA ExcessTyped ==
  ASSUME NEW rows, IsFiniteSet(rows)
  PROVE  /\ Cardinality(rows) \in Nat
         /\ Excess(rows) \in 0..Cardinality(rows)
         /\ Cardinality(rows) - Excess(rows) <= HighWater
         /\ Excess(rows) > 0 => Cardinality(rows) - Excess(rows) = LowWater
  <1>1. Cardinality(rows) \in Nat
    BY FS_CardinalityType
  <1>2. \/ Cardinality(rows) > HighWater /\ Excess(rows) = Cardinality(rows) - LowWater
        \/ ~(Cardinality(rows) > HighWater) /\ Excess(rows) = 0
    BY DEF Excess
  <1>3. HighWater \in Nat /\ LowWater \in 0..HighWater
    OBVIOUS
  <1>4. \A n \in Nat : \A e :
           (n > HighWater /\ e = n - LowWater) \/ (~(n > HighWater) /\ e = 0)
           => e \in 0..n /\ n - e <= HighWater /\ (e > 0 => n - e = LowWater)
    BY <1>3
  <1> QED BY <1>1, <1>2, <1>4

\* As many rows are evicted as are too many.
LEMMA EvictCounts ==
  ASSUME TypeOK, NEW renumbered, NEW rows \in SUBSET Sent
  PROVE  /\ Evict(rows, renumbered) \in SUBSET rows
         /\ IsFiniteSet(rows \ Evict(rows, renumbered))
         /\ Cardinality(rows \ Evict(rows, renumbered)) \in Nat
         /\ Cardinality(rows \ Evict(rows, renumbered)) <= HighWater
  <1> DEFINE R == EvictionOrder(rows, renumbered)
             gone == Evict(rows, renumbered)
  <1>1. IsFiniteSet(rows)
    <2>1. IsFiniteSet(Sent)
      BY RowsTyped
    <2> QED BY <2>1, FS_Subset
  <1>2. Orders(R, rows)
    BY EvictionOrders
  <1>3. gone = {r \in rows : Cardinality(Before(rows, R, r)) < Excess(rows)}
    <2>1. \A r \in rows : Before(rows, R, r) =
             {q \in rows : EvictedBefore(q, r, Spare(rows, renumbered), renumbered)}
      BY DEF Before, EvictionOrder
    <2> QED BY <2>1 DEF Evict
  <1> HIDE DEF R
  <1>4. Excess(rows) \in 0..Cardinality(rows) /\ Cardinality(rows) - Excess(rows) <= HighWater
    BY <1>1, ExcessTyped
  <1>5. Cardinality(gone) = Excess(rows)
    BY <1>1, <1>2, <1>3, <1>4, FirstPlaces
  <1>6. gone \in SUBSET rows
    BY DEF Evict
  <1> HIDE DEF gone
  <1>7. rows \cap gone = gone
    BY <1>6
  <1>8. IsFiniteSet(rows \ gone) /\ Cardinality(rows \ gone) = Cardinality(rows) - Cardinality(rows \cap gone)
    BY <1>1, FS_Difference
  <1>9. Cardinality(rows \ gone) = Cardinality(rows) - Excess(rows)
    BY <1>5, <1>7, <1>8
  <1>10. Cardinality(rows \ gone) \in Nat
    BY <1>8, FS_CardinalityType
  <1>11. gone \in SUBSET rows /\ IsFiniteSet(rows \ gone) /\ Cardinality(rows \ gone) \in Nat
         /\ Cardinality(rows \ gone) <= HighWater
    BY <1>4, <1>6, <1>8, <1>9, <1>10
  <1> QED BY <1>11 DEF gone

LEMMA PutTyped ==
  ASSUME Typed, NEW page \in SUBSET Sent, NEW renumbered, renumbered \subseteq store \union page,
         Put(page, renumbered)
  PROVE  /\ store' \subseteq Sent /\ pulled' \subseteq store' /\ pulled' \subseteq renumbered
         /\ Cardinality(store') \in Nat /\ Cardinality(store') <= HighWater
         /\ evicted' \subseteq everStored' /\ everStored' = everStored \union page
         /\ everStored' \subseteq Sent /\ store' \subseteq everStored'
         /\ store' \union evicted' = store \union page \union evicted
         /\ manifest' \in [count : Nat, compacted : BOOLEAN] /\ manifest'.count = Cardinality(store')
         /\ evicted \subseteq evicted'
         /\ (manifest.compacted <=> evicted # {}) => (manifest'.compacted <=> evicted' # {})
  <1> DEFINE rows == store \union page
             gone == Evict(rows, renumbered)
  <1>1. TypeOK /\ store \subseteq everStored
    BY DEF Typed, Held
  <1>2. rows \in SUBSET Sent
    BY <1>1 DEF TypeOK
  <1>3. gone \in SUBSET rows /\ Cardinality(rows \ gone) \in Nat /\ Cardinality(rows \ gone) <= HighWater
    BY <1>1, <1>2, EvictCounts
  <1>4. /\ store' = rows \ gone /\ pulled' = renumbered \ gone /\ evicted' = evicted \union gone
        /\ everStored' = everStored \union page
        /\ manifest' = [count |-> Cardinality(rows \ gone), compacted |-> manifest.compacted \/ gone # {}]
    BY DEF Put, ManifestAfter
  <1>5. renumbered \subseteq rows /\ rows \subseteq Sent /\ store \subseteq rows /\ page \subseteq rows
        /\ rows \subseteq everStored \union page
    BY <1>1, <1>2
  <1>6. rows = store \union page
    OBVIOUS
  <1> HIDE DEF rows, gone
  <1>7. evicted \subseteq everStored /\ everStored \subseteq Sent
    BY <1>1 DEF TypeOK
  <1>8. /\ store' \subseteq Sent /\ pulled' \subseteq store' /\ pulled' \subseteq renumbered
        /\ evicted' \subseteq everStored' /\ everStored' \subseteq Sent /\ store' \subseteq everStored'
        /\ store' \union evicted' = store \union page \union evicted
        /\ evicted \subseteq evicted'
    BY <1>3, <1>4, <1>5, <1>6, <1>7
  <1>9. manifest' \in [count : Nat, compacted : BOOLEAN] /\ manifest'.count = Cardinality(store')
    BY <1>3, <1>4
  <1>10. (manifest.compacted <=> evicted # {}) => (manifest'.compacted <=> evicted' # {})
    <2>1. manifest'.compacted <=> manifest.compacted \/ gone # {}
      BY <1>4
    <2>2. evicted' # {} <=> evicted # {} \/ gone # {}
      BY <1>4
    <2> QED BY <2>1, <2>2
  <1>11. Cardinality(store') \in Nat /\ Cardinality(store') <= HighWater
    BY <1>3, <1>4
  <1> QED BY <1>4, <1>8, <1>9, <1>10, <1>11

-----------------------------------------------------------------------------
(* The types of the server's, the store's, the tabs' and the pulls' part.   *)

ServerType ==
    /\ messages \in Seq(MessageType) /\ Len(messages) <= MaxSeq
    /\ checkpoint \in Inbox \union {0}
    /\ acks \subseteq [tab : Tabs, seq : Inbox]

StoreType ==
    /\ store \subseteq Sent /\ pulled \subseteq store /\ Cardinality(store) <= HighWater
    /\ cursor \in Inbox \union {0} /\ groupCursor \in 0..Latest
    /\ manifest \in [count : Nat, compacted : BOOLEAN]
    /\ evicted \subseteq everStored /\ everStored \subseteq Sent /\ store \subseteq everStored
    /\ torn \in BOOLEAN /\ mixed \in BOOLEAN

TabType ==
    /\ pc \in [Tabs -> {"idle", "ack", "list", "commit"}]
    /\ at \in [Tabs -> Nat] /\ upto \in [Tabs -> Nat] /\ target \in [Tabs -> Nat]
    /\ more \in [Tabs -> BOOLEAN] /\ stale \in [Tabs -> BOOLEAN]
    /\ \A t \in Tabs : at[t] \in Inbox \union {0} /\ target[t] \in Inbox \union {0}
    /\ \A t \in Tabs : pc[t] = "commit" => upto[t] \in Inbox /\ Cardinality(Page(t)) \in 1..PageSize

PullType ==
    pull \in [Pulls -> [step : {"idle", "list", "commit"}, at : 0..Latest, upto : 0..Latest,
                        target : 0..Latest, stale : BOOLEAN]]

CountType == faults \in 0..MaxFaults /\ clears \in 0..MaxClears

LEMMA Parts == Typed <=> ServerType /\ StoreType /\ TabType /\ PullType /\ CountType
  <1>1. Typed => ServerType /\ PullType /\ CountType
    BY DEF Typed, TypeOK, ServerType, PullType, CountType, MessageType
  <1>2. Typed => StoreType
    BY DEF Typed, Held, TypeOK, StoreType
  <1>3. Typed => TabType
    BY DEF Typed, Held, TypeOK, TabType
  <1>4. ServerType /\ StoreType /\ TabType /\ PullType /\ CountType => TypeOK
    BY DEF TypeOK, ServerType, StoreType, TabType, PullType, CountType, MessageType
  <1>5. StoreType /\ TabType => Held
    BY DEF Held, StoreType, TabType
  <1> QED BY <1>1, <1>2, <1>3, <1>4, <1>5 DEF Typed

LEMMA PartsNext == ServerType' /\ StoreType' /\ TabType' /\ PullType' /\ CountType' => Typed'
  BY Parts, PTL

\* What is not touched while no message arrives keeps its type.
LEMMA Frame ==
  ASSUME Typed, UNCHANGED messages
  PROVE  /\ Sent' = Sent /\ Inbox' = Inbox /\ OfGroup' = OfGroup /\ Latest' = Latest
         /\ UNCHANGED <<checkpoint, acks>> => ServerType'
         /\ UNCHANGED storeVars => StoreType'
         /\ UNCHANGED tabVars => TabType'
         /\ UNCHANGED pull => PullType'
         /\ UNCHANGED <<faults, clears>> => CountType'
  <1>1. ServerType /\ StoreType /\ TabType /\ PullType /\ CountType
    BY Parts
  <1>2. Sent' = Sent /\ Inbox' = Inbox /\ OfGroup' = OfGroup /\ Latest' = Latest
    BY DEF Sent, Inbox, OfGroup, OfConv, Latest
  <1>3. UNCHANGED <<checkpoint, acks>> => ServerType'
    BY <1>1, <1>2 DEF ServerType
  <1>4. UNCHANGED storeVars => StoreType'
    BY <1>1, <1>2 DEF StoreType, storeVars
  <1>5. ASSUME UNCHANGED tabVars PROVE TabType'
    <2>1. \A t \in Tabs : Page(t)' = Page(t)
      BY <1>2, <1>5 DEF Page, tabVars
    <2> QED BY <1>1, <1>2, <1>5, <2>1 DEF TabType, tabVars
  <1>6. UNCHANGED pull => PullType'
    BY <1>1, <1>2 DEF PullType
  <1>7. UNCHANGED <<faults, clears>> => CountType'
    BY <1>1 DEF CountType
  <1> QED BY <1>2, <1>3, <1>4, <1>5, <1>6, <1>7

LEMMA ArriveTyped ==
  ASSUME Typed, NEW c \in Conversations, Arrive(c) PROVE Typed'
  <1> DEFINE n == Len(messages) + 1
  <1>1. /\ messages' \in Seq(MessageType) /\ Len(messages') <= MaxSeq
        /\ Sent' = Sent \union {n} /\ \A m \in Sent : m < n
        /\ Inbox \subseteq Inbox' /\ Inbox' \subseteq Inbox \union {n}
        /\ Latest <= Latest' /\ Latest' \in Nat
    BY Arrives DEF Typed
  <1>2. UNCHANGED <<checkpoint, acks, storeVars, tabVars, pull, faults, clears>>
    BY DEF Arrive
  <1>3. ServerType /\ StoreType /\ TabType /\ PullType /\ CountType
    BY Parts
  <1>4. Inbox \subseteq Sent /\ Latest \in Nat
    BY RowsTyped DEF Typed
  <1> HIDE DEF n
  <1>5. ServerType'
    BY <1>1, <1>2, <1>3 DEF ServerType
  <1>6. StoreType'
    <2>1. groupCursor \in 0..Latest'
      BY <1>1, <1>3, <1>4 DEF StoreType
    <2> QED BY <1>1, <1>2, <1>3, <2>1 DEF StoreType, storeVars
  <1>7. TabType'
    <2>1. ASSUME NEW t \in Tabs, pc[t] = "commit" PROVE Page(t)' = Page(t)
      <3>1. upto[t] \in Inbox /\ upto[t] < n /\ ~ (n <= upto[t])
        <4>1. upto[t] \in Inbox
          BY <1>3, <2>1 DEF TabType
        <4>2. upto[t] \in Sent /\ upto[t] < n
          BY <1>1, <1>4, <4>1
        <4>3. upto[t] \in Nat /\ n \in Nat
          BY RowsTyped, <4>2 DEF Typed, n
        <4> QED BY <4>1, <4>2, <4>3
      <3> QED BY <1>1, <1>2, <3>1 DEF Page, tabVars
    <2>2. \A t \in Tabs : pc[t] = "commit" => Page(t)' = Page(t)
      BY <2>1
    <2>3. UNCHANGED <<pc, at, upto, more, target, stale>>
      BY <1>2 DEF tabVars
    <2>4. \A t \in Tabs : at[t] \in Inbox' \union {0} /\ target[t] \in Inbox' \union {0}
      BY <1>1, <1>3 DEF TabType
    <2>5. \A t \in Tabs : pc[t] = "commit" => upto[t] \in Inbox' /\ Cardinality(Page(t)') \in 1..PageSize
      BY <1>1, <1>3, <2>2 DEF TabType
    <2> QED BY <1>3, <2>3, <2>4, <2>5 DEF TabType
  <1>8. PullType'
    <2>1. \A k \in 0..Latest : k \in 0..Latest'
      BY <1>1, <1>4
    <2>2. ASSUME NEW p \in Pulls
          PROVE  pull[p] \in [step : {"idle", "list", "commit"}, at : 0..Latest', upto : 0..Latest',
                              target : 0..Latest', stale : BOOLEAN]
      BY <1>3, <2>1 DEF PullType
    <2>3. pull = [p \in Pulls |-> pull[p]]
      BY <1>3 DEF PullType
    <2> QED BY <1>2, <2>2, <2>3 DEF PullType
  <1>9. CountType'
    BY <1>2, <1>3 DEF CountType
  <1> QED BY <1>5, <1>6, <1>7, <1>8, <1>9, PartsNext

\* The page that is listed ends with a row behind the tab's cursor; the last one
\* contains all of them.
LEMMA Listed ==
  ASSUME Typed, NEW t \in Tabs, After(t) # {}
  PROVE  /\ PageEnd(t) \in After(t)
         /\ Cardinality({q \in After(t) : q <= PageEnd(t)}) \in 1..PageSize
         /\ ~ HasMore(t) => \A q \in After(t) : q <= PageEnd(t)
  <1> DEFINE n == Cardinality(After(t))
             k == IF n > PageSize THEN PageSize ELSE n
  <1>1. IsFiniteSet(Inbox) /\ Inbox \subseteq Nat
    BY RowsTyped DEF Typed
  <1>2. After(t) \in SUBSET Inbox
    BY DEF After
  <1>3. IsFiniteSet(After(t)) /\ After(t) \in SUBSET Nat
    BY <1>1, <1>2, FS_Subset
  <1>4. n \in Nat /\ n # 0
    BY <1>3, FS_CardinalityType, FS_EmptySet
  <1>5. k \in 1..n /\ k \in 1..PageSize /\ (n <= PageSize => k = n)
    <2> HIDE DEF n
    <2>1. (n > PageSize /\ k = PageSize) \/ (~(n > PageSize) /\ k = n)
      OBVIOUS
    <2> HIDE DEF k
    <2> QED BY <1>4, <2>1
  <1>6. \E m \in After(t) : Cardinality({q \in After(t) : q <= m}) = k
    <2> HIDE DEF k
    <2> QED BY <1>3, <1>5, KthNumber
  <1>7. PageEnd(t) \in After(t) /\ Cardinality({q \in After(t) : q <= PageEnd(t)}) = k
    BY <1>6 DEF PageEnd
  <1>8. ASSUME ~ HasMore(t) PROVE \A q \in After(t) : q <= PageEnd(t)
    <2>1. n <= PageSize
      <3>1. ~ (n > PageSize)
        BY <1>8 DEF HasMore
      <3> HIDE DEF n
      <3> QED BY <3>1, <1>4
    <2>2. Cardinality({q \in After(t) : q <= PageEnd(t)}) = Cardinality(After(t))
      BY <1>5, <1>7, <2>1
    <2>3. {q \in After(t) : q <= PageEnd(t)} \in SUBSET After(t)
      OBVIOUS
    <2>4. {q \in After(t) : q <= PageEnd(t)} = After(t)
      BY <1>3, <2>2, <2>3, FS_Subset
    <2> QED BY <2>4
  <1> QED BY <1>5, <1>7, <1>8

LEMMA TabStep ==
  ASSUME Typed, UNCHANGED messages, NEW t \in Tabs,
         pc' \in [Tabs -> {"idle", "ack", "list", "commit"}],
         at' \in [Tabs -> Nat], upto' \in [Tabs -> Nat], target' \in [Tabs -> Nat],
         more' \in [Tabs -> BOOLEAN], stale' \in [Tabs -> BOOLEAN],
         \A u \in Tabs \ {t} : /\ pc'[u] = pc[u] /\ at'[u] = at[u]
                              /\ upto'[u] = upto[u] /\ target'[u] = target[u],
         at'[t] \in Inbox \union {0}, target'[t] \in Inbox \union {0},
         pc'[t] = "commit" =>
            /\ upto'[t] \in Inbox
            /\ Cardinality({m \in Inbox : at'[t] < m /\ m <= upto'[t]}) \in 1..PageSize
  PROVE  TabType'
  <1>1. Inbox' = Inbox
    BY Frame
  <1>2. TabType
    BY Parts
  <1>3. \A u \in Tabs \ {t} : Page(u)' = Page(u)
    BY <1>1 DEF Page
  <1>4. Page(t)' = {m \in Inbox : at'[t] < m /\ m <= upto'[t]}
    BY <1>1 DEF Page
  <1>5. \A u \in Tabs : at'[u] \in Inbox' \union {0} /\ target'[u] \in Inbox' \union {0}
    BY <1>1, <1>2 DEF TabType
  <1>6. \A u \in Tabs : pc'[u] = "commit" =>
           upto'[u] \in Inbox' /\ Cardinality(Page(u)') \in 1..PageSize
    BY <1>1, <1>2, <1>3, <1>4 DEF TabType
  <1> QED BY <1>5, <1>6 DEF TabType

LEMMA LeaveTyped ==
  ASSUME Typed, UNCHANGED messages, NEW t \in Tabs, Leave(t) PROVE TabType'
  <1>1. TabType
    BY Parts
  <1>2. /\ pc' \in [Tabs -> {"idle", "ack", "list", "commit"}]
        /\ at' \in [Tabs -> Nat] /\ upto' \in [Tabs -> Nat] /\ target' \in [Tabs -> Nat]
        /\ more' \in [Tabs -> BOOLEAN] /\ stale' \in [Tabs -> BOOLEAN]
    BY <1>1 DEF Leave, Goto, TabType
  <1>3. pc'[t] = "idle" /\ at'[t] = 0 /\ target'[t] = 0
    BY <1>1 DEF Leave, Goto, TabType
  <1>4. \A u \in Tabs \ {t} : /\ pc'[u] = pc[u] /\ at'[u] = at[u]
                             /\ upto'[u] = upto[u] /\ target'[u] = target[u]
    BY <1>1 DEF Leave, Goto, TabType
  <1> QED BY <1>2, <1>3, <1>4, TabStep

\* The rows of a pull's page.
PullPage(p) == {m \in OfGroup : MessageSeq(m) \in (pull[p].at + 1)..pull[p].upto}

LEMMA TypedStep == Typed /\ [Next]_vars => Typed'
  <1> SUFFICES ASSUME Typed, [Next]_vars PROVE Typed'
    OBVIOUS
  <1>0. ServerType /\ StoreType /\ TabType /\ PullType /\ CountType
    BY Parts
  <1>a. TypeOK /\ Inbox \subseteq Nat \ {0} /\ Inbox \subseteq Sent /\ Latest \in Nat
        /\ LastRow \in Inbox \union {0}
    BY RowsTyped DEF Typed
  <1>1. ASSUME NEW c \in Conversations, Arrive(c) PROVE Typed'
    BY <1>1, ArriveTyped
  <1>2. ASSUME NEW x \in acks, ServerAck(x) PROVE Typed'
    <2>1. UNCHANGED <<messages, storeVars, tabVars, pull, faults, clears>>
      BY <1>2 DEF ServerAck
    <2>2. Inbox' = Inbox /\ StoreType' /\ TabType' /\ PullType' /\ CountType'
      BY <2>1, Frame
    <2>3. acks' \subseteq acks /\ checkpoint' \in Inbox \union {0}
      BY <1>0, <1>2 DEF ServerAck, ServerType
    <2>4. ServerType'
      BY <1>0, <2>1, <2>2, <2>3 DEF ServerType
    <2> QED BY <2>2, <2>4, PartsNext
  <1>3. ASSUME NEW t \in Tabs, Start(t) PROVE Typed'
    <2>1. UNCHANGED <<messages, checkpoint, storeVars, upto, pull, faults, clears>>
      BY <1>3 DEF Start
    <2>2. Inbox' = Inbox /\ StoreType' /\ PullType' /\ CountType'
      BY <2>1, Frame
    <2>3. PICK step \in {"ack", "list"} : pc' = [pc EXCEPT ![t] = step]
      BY <1>3 DEF Start, Goto
    <2>4. /\ at' = [at EXCEPT ![t] = cursor] /\ more' = [more EXCEPT ![t] = TRUE]
          /\ target' = [target EXCEPT ![t] = LastRow] /\ stale' = [stale EXCEPT ![t] = FALSE]
      BY <1>3 DEF Start
    <2>5. cursor \in Inbox \union {0} /\ cursor \in Nat /\ LastRow \in Nat
      BY <1>0, <1>a DEF StoreType
    <2>6. /\ pc' \in [Tabs -> {"idle", "ack", "list", "commit"}]
          /\ at' \in [Tabs -> Nat] /\ upto' \in [Tabs -> Nat] /\ target' \in [Tabs -> Nat]
          /\ more' \in [Tabs -> BOOLEAN] /\ stale' \in [Tabs -> BOOLEAN]
      BY <1>0, <2>1, <2>3, <2>4, <2>5 DEF TabType
    <2>7. \A u \in Tabs \ {t} : /\ pc'[u] = pc[u] /\ at'[u] = at[u]
                               /\ upto'[u] = upto[u] /\ target'[u] = target[u]
      BY <1>0, <2>1, <2>3, <2>4 DEF TabType
    <2>8. pc'[t] # "commit" /\ at'[t] \in Inbox \union {0} /\ target'[t] \in Inbox \union {0}
      BY <1>0, <1>a, <2>3, <2>4, <2>5 DEF TabType
    <2>9. TabType'
      BY <2>1, <2>6, <2>7, <2>8, TabStep
    <2>10. acks' \subseteq [tab : Tabs, seq : Inbox]
      <3>1. acks' = acks \/ (cursor > 0 /\ acks' = acks \union {[tab |-> t, seq |-> cursor]})
        BY <1>3 DEF Start, Send
      <3>2. cursor > 0 => cursor \in Inbox
        BY <2>5
      <3> QED BY <1>0, <3>1, <3>2 DEF ServerType
    <2>11. ServerType'
      BY <1>0, <2>1, <2>2, <2>10 DEF ServerType
    <2> QED BY <2>2, <2>9, <2>11, PartsNext
  <1>4. ASSUME NEW t \in Tabs, Acked(t) PROVE Typed'
    <2>1. UNCHANGED <<serverVars, storeVars, pull, faults, clears>>
      BY <1>4 DEF Acked
    <2>2. UNCHANGED messages
      BY <2>1 DEF serverVars
    <2>3. ServerType' /\ StoreType' /\ PullType' /\ CountType'
      BY <2>1, <2>2, Frame DEF serverVars
    <2>4. CASE Goto(t, "list") /\ UNCHANGED <<at, upto, more, target, stale>>
      <3>1. pc' = [pc EXCEPT ![t] = "list"]
        BY <2>4 DEF Goto
      <3>2. /\ pc' \in [Tabs -> {"idle", "ack", "list", "commit"}]
            /\ at' \in [Tabs -> Nat] /\ upto' \in [Tabs -> Nat] /\ target' \in [Tabs -> Nat]
            /\ more' \in [Tabs -> BOOLEAN] /\ stale' \in [Tabs -> BOOLEAN]
        BY <1>0, <2>4, <3>1 DEF TabType
      <3>3. \A u \in Tabs \ {t} : /\ pc'[u] = pc[u] /\ at'[u] = at[u]
                                 /\ upto'[u] = upto[u] /\ target'[u] = target[u]
        BY <1>0, <2>4, <3>1 DEF TabType
      <3>4. pc'[t] # "commit" /\ at'[t] \in Inbox \union {0} /\ target'[t] \in Inbox \union {0}
        BY <1>0, <2>4, <3>1 DEF TabType
      <3>5. TabType'
        BY <2>2, <3>2, <3>3, <3>4, TabStep
      <3> QED BY <2>3, <3>5, PartsNext
    <2>5. CASE Leave(t)
      <3>1. TabType'
        BY <2>2, <2>5, LeaveTyped
      <3> QED BY <2>3, <3>1, PartsNext
    <2> QED BY <1>4, <2>4, <2>5 DEF Acked
  <1>5. ASSUME NEW t \in Tabs, List(t) PROVE Typed'
    <2>1. UNCHANGED <<serverVars, storeVars, pull, faults, clears>>
      BY <1>5 DEF List
    <2>2. UNCHANGED messages
      BY <2>1 DEF serverVars
    <2>3. ServerType' /\ StoreType' /\ PullType' /\ CountType'
      BY <2>1, <2>2, Frame DEF serverVars
    <2>4. CASE /\ After(t) # {} /\ more' = [more EXCEPT ![t] = HasMore(t)]
               /\ upto' = [upto EXCEPT ![t] = PageEnd(t)]
               /\ Goto(t, "commit") /\ UNCHANGED <<at, target, stale>>
      <3>1. pc' = [pc EXCEPT ![t] = "commit"]
        BY <2>4 DEF Goto
      <3>2. /\ PageEnd(t) \in After(t)
            /\ Cardinality({q \in After(t) : q <= PageEnd(t)}) \in 1..PageSize
        BY <2>4, Listed
      <3>3. PageEnd(t) \in Inbox /\ PageEnd(t) \in Nat
        BY <1>a, <3>2 DEF After
      <3>4. /\ pc' \in [Tabs -> {"idle", "ack", "list", "commit"}]
            /\ at' \in [Tabs -> Nat] /\ upto' \in [Tabs -> Nat] /\ target' \in [Tabs -> Nat]
        BY <1>0, <2>4, <3>1, <3>3 DEF TabType
      <3>5. more' \in [Tabs -> BOOLEAN] /\ stale' \in [Tabs -> BOOLEAN]
        <4>1. HasMore(t) \in BOOLEAN
          BY DEF HasMore
        <4>2. more' = [more EXCEPT ![t] = HasMore(t)] /\ stale' = stale
          BY <2>4
        <4> QED BY <1>0, <4>1, <4>2 DEF TabType
      <3>6. \A u \in Tabs \ {t} : /\ pc'[u] = pc[u] /\ at'[u] = at[u]
                                 /\ upto'[u] = upto[u] /\ target'[u] = target[u]
        BY <1>0, <2>4, <3>1 DEF TabType
      <3>7. upto'[t] = PageEnd(t) /\ at'[t] = at[t] /\ target'[t] = target[t]
        BY <1>0, <2>4 DEF TabType
      <3>8. {m \in Inbox : at'[t] < m /\ m <= upto'[t]} = {q \in After(t) : q <= PageEnd(t)}
        <4>1. at[t] \in Nat
          BY <1>0 DEF TabType
        <4> QED BY <1>a, <3>7, <4>1 DEF After
      <3>9. at'[t] \in Inbox \union {0} /\ target'[t] \in Inbox \union {0}
        BY <1>0, <3>7 DEF TabType
      <3>10. TabType'
        BY <2>2, <3>2, <3>3, <3>4, <3>5, <3>6, <3>7, <3>8, <3>9, TabStep
      <3> QED BY <2>3, <3>10, PartsNext
    <2>5. CASE Leave(t)
      <3>1. TabType'
        BY <2>2, <2>5, LeaveTyped
      <3> QED BY <2>3, <3>1, PartsNext
    <2> QED BY <1>5, <2>4, <2>5 DEF List
  <1>6. ASSUME NEW t \in Tabs, Commit(t) PROVE Typed'
    <2>1. UNCHANGED <<messages, checkpoint, groupCursor, more, target, stale, pull, faults, clears>>
      BY <1>6 DEF Commit
    <2>2. Inbox' = Inbox /\ Sent' = Sent /\ Latest' = Latest /\ PullType' /\ CountType'
      BY <2>1, Frame
    <2>3. /\ pc[t] = "commit" /\ Put(Page(t), pulled \ Page(t)) /\ cursor' = upto[t]
          /\ torn' = (torn \/ (stale[t] /\ at[t] > cursor))
          /\ mixed' = (mixed \/ \E m \in Page(t) \intersect OfGroup : MessageSeq(m) <= groupCursor)
          /\ at' = [at EXCEPT ![t] = upto[t]] /\ upto' = [upto EXCEPT ![t] = 0]
          /\ acks' = acks \union {[tab |-> t, seq |-> upto[t]]} /\ pc' = [pc EXCEPT ![t] = "ack"]
      BY <1>6 DEF Commit, Send, Goto
    <2>4. upto[t] \in Inbox /\ upto[t] \in Nat
      BY <1>0, <1>a, <2>3 DEF TabType
    <2>5. Page(t) \in SUBSET Sent /\ pulled \ Page(t) \subseteq store \union Page(t)
      BY <1>0, <1>a DEF Page, StoreType
    <2>6. /\ store' \subseteq Sent /\ pulled' \subseteq store' /\ Cardinality(store') <= HighWater
          /\ evicted' \subseteq everStored' /\ everStored' \subseteq Sent /\ store' \subseteq everStored'
          /\ manifest' \in [count : Nat, compacted : BOOLEAN]
      BY <2>3, <2>5, PutTyped
    <2>7. StoreType'
      <3>1. torn' \in BOOLEAN /\ mixed' \in BOOLEAN
        BY <2>3
      <3> QED BY <1>0, <2>1, <2>2, <2>3, <2>4, <2>6, <3>1 DEF StoreType
    <2>8. ServerType'
      BY <1>0, <2>1, <2>2, <2>3, <2>4 DEF ServerType
    <2>9. /\ pc' \in [Tabs -> {"idle", "ack", "list", "commit"}]
          /\ at' \in [Tabs -> Nat] /\ upto' \in [Tabs -> Nat] /\ target' \in [Tabs -> Nat]
          /\ more' \in [Tabs -> BOOLEAN] /\ stale' \in [Tabs -> BOOLEAN]
      BY <1>0, <2>1, <2>3, <2>4 DEF TabType
    <2>10. \A u \in Tabs \ {t} : /\ pc'[u] = pc[u] /\ at'[u] = at[u]
                                /\ upto'[u] = upto[u] /\ target'[u] = target[u]
      BY <1>0, <2>1, <2>3 DEF TabType
    <2>11. pc'[t] # "commit" /\ at'[t] \in Inbox \union {0} /\ target'[t] \in Inbox \union {0}
      BY <1>0, <2>1, <2>3, <2>4 DEF TabType
    <2>12. TabType'
      BY <2>1, <2>9, <2>10, <2>11, TabStep
    <2> QED BY <2>2, <2>7, <2>8, <2>12, PartsNext
  <1>7. ASSUME NEW t \in Tabs, CommitRefused(t) PROVE Typed'
    <2>1. UNCHANGED <<serverVars, storeVars, pull, faults, clears>> /\ Leave(t)
      BY <1>7 DEF CommitRefused
    <2>2. UNCHANGED messages
      BY <2>1 DEF serverVars
    <2>3. ServerType' /\ StoreType' /\ PullType' /\ CountType'
      BY <2>1, <2>2, Frame DEF serverVars
    <2>4. TabType'
      BY <2>1, <2>2, LeaveTyped
    <2> QED BY <2>3, <2>4, PartsNext
  <1>8. ASSUME NEW t \in Tabs, Interrupted(t) PROVE Typed'
    <2>1. UNCHANGED <<serverVars, storeVars, pull, clears>> /\ Leave(t)
      BY <1>8 DEF Interrupted
    <2>2. UNCHANGED messages
      BY <2>1 DEF serverVars
    <2>3. ServerType' /\ StoreType' /\ PullType'
      BY <2>1, <2>2, Frame DEF serverVars
    <2>4. TabType'
      BY <2>1, <2>2, LeaveTyped
    <2>5. CountType'
      BY <1>0, <1>8 DEF Interrupted, CountType
    <2> QED BY <2>3, <2>4, <2>5, PartsNext
  <1>9. ASSUME NEW t \in Tabs, Clear(t) PROVE Typed'
    <2>1. UNCHANGED <<serverVars, everStored, pc, at, upto, more, faults>>
      BY <1>9 DEF Clear
    <2>2. UNCHANGED messages
      BY <2>1 DEF serverVars
    <2>3. ServerType' /\ Inbox' = Inbox /\ Sent' = Sent /\ Latest' = Latest
      BY <2>1, <2>2, Frame DEF serverVars
    <2>4. /\ store' = {} /\ pulled' = {} /\ cursor' = 0 /\ groupCursor' = 0 /\ manifest' = Empty
          /\ evicted' = {} /\ torn' = FALSE /\ mixed' = FALSE
      BY <1>9 DEF Clear
    <2>5. StoreType'
      <3>1. Cardinality({}) = 0
        BY FS_EmptySet
      <3>2. manifest' \in [count : Nat, compacted : BOOLEAN]
        BY <2>4 DEF Empty
      <3>3. torn' \in BOOLEAN /\ mixed' \in BOOLEAN
        BY <2>4
      <3>4. groupCursor' \in 0..Latest' /\ Cardinality(store') <= HighWater
        BY <1>a, <2>3, <2>4, <3>1
      <3> QED BY <1>0, <2>1, <2>3, <2>4, <3>2, <3>3, <3>4 DEF StoreType
    <2>6. TabType'
      <3>1. stale' = [u \in Tabs |-> pc[u] # "idle"] /\ target' = [u \in Tabs |-> 0]
        BY <1>9 DEF Clear
      <3>2. stale' \in [Tabs -> BOOLEAN] /\ target' \in [Tabs -> Nat]
        BY <3>1
      <3>3. \A u \in Tabs : Page(u)' = Page(u)
        BY <2>1, <2>3 DEF Page
      <3>4. \A u \in Tabs : target'[u] \in Inbox' \union {0}
        BY <3>1
      <3> QED BY <1>0, <2>1, <2>3, <3>2, <3>3, <3>4 DEF TabType
    <2>7. PullType'
      <3>1. pull' = [p \in Pulls |-> [pull[p] EXCEPT !.stale = pull[p].step # "idle"]]
        BY <1>9 DEF Clear
      <3>2. \A p \in Pulls : pull'[p] \in [step : {"idle", "list", "commit"}, at : 0..Latest, upto : 0..Latest,
                                           target : 0..Latest, stale : BOOLEAN]
        BY <1>0, <3>1 DEF PullType
      <3> QED BY <2>3, <3>1, <3>2 DEF PullType
    <2>8. CountType'
      BY <1>0, <1>9 DEF Clear, CountType
    <2> QED BY <2>3, <2>5, <2>6, <2>7, <2>8, PartsNext
  <1>10. ASSUME NEW p \in Pulls, PullStart(p) \/ PullList(p) \/ PullEnds(p) PROVE Typed'
    <2>1. UNCHANGED <<serverVars, storeVars, tabVars, faults, clears>>
      BY <1>10 DEF PullStart, PullList, PullEnds
    <2>2. UNCHANGED messages
      BY <2>1 DEF serverVars
    <2>3. ServerType' /\ StoreType' /\ TabType' /\ CountType' /\ Latest' = Latest
      BY <2>1, <2>2, Frame DEF serverVars
    <2>4. PullType'
      <3>1. CASE PullStart(p)
        <4>1. pull' = [pull EXCEPT ![p] = [NoPull EXCEPT !.step = "list", !.at = groupCursor, !.target = Latest]]
          BY <3>1 DEF PullStart
        <4>2. groupCursor \in 0..Latest /\ Latest \in 0..Latest /\ 0 \in 0..Latest
          BY <1>0, <1>a DEF StoreType
        <4> QED BY <1>0, <2>3, <4>1, <4>2 DEF PullType, NoPull
      <3>2. CASE PullList(p)
        <4>1. PICK end \in 0..Latest : pull' = [pull EXCEPT ![p].step = "commit", ![p].upto = end]
          <5> DEFINE end == IF pull[p].at + PageSize < Latest THEN pull[p].at + PageSize ELSE Latest
          <5>1. pull' = [pull EXCEPT ![p].step = "commit", ![p].upto = end]
            BY <3>2 DEF PullList
          <5>2. pull[p].at \in Nat
            BY <1>0 DEF PullType
          <5>3. end \in 0..Latest
            BY <1>a, <5>2
          <5> QED BY <5>1, <5>3
        <4> DEFINE Shape == [step : {"idle", "list", "commit"}, at : 0..Latest, upto : 0..Latest,
                             target : 0..Latest, stale : BOOLEAN]
        <4>2. pull \in [Pulls -> Shape]
          BY <1>0 DEF PullType
        <4>3. [pull[p] EXCEPT !.step = "commit", !.upto = end] \in Shape
          BY <4>1, <4>2
        <4>4. pull' = [pull EXCEPT ![p] = [pull[p] EXCEPT !.step = "commit", !.upto = end]]
          BY <4>1, <4>2
        <4>5. pull' \in [Pulls -> Shape]
          BY <4>2, <4>3, <4>4
        <4> QED BY <2>3, <4>5 DEF PullType
      <3>3. CASE PullEnds(p)
        <4>1. 0 \in 0..Latest
          BY <1>a
        <4> QED BY <1>0, <2>3, <3>3, <4>1 DEF PullEnds, PullType, NoPull
      <3> QED BY <1>10, <3>1, <3>2, <3>3
    <2> QED BY <2>3, <2>4, PartsNext
  <1>11. ASSUME NEW p \in Pulls, PullCommit(p) PROVE Typed'
    <2>1. UNCHANGED <<serverVars, cursor, mixed, tabVars, faults, clears>>
      BY <1>11 DEF PullCommit
    <2>2. UNCHANGED messages
      BY <2>1 DEF serverVars
    <2>3. /\ ServerType' /\ TabType' /\ CountType'
          /\ Latest' = Latest /\ Inbox' = Inbox /\ Sent' = Sent
      BY <2>1, <2>2, Frame DEF serverVars
    <2>4. /\ Put(PullPage(p), pulled \union PullPage(p)) /\ groupCursor' = pull[p].upto
          /\ torn' = (torn \/ (pull[p].stale /\ pull[p].at > groupCursor))
      BY <1>11 DEF PullCommit, PullPage
    <2>5. pull[p].upto \in 0..Latest
      BY <1>0 DEF PullType
    <2>6. PullPage(p) \in SUBSET Sent /\ pulled \union PullPage(p) \subseteq store \union PullPage(p)
      BY <1>0 DEF PullPage, StoreType, OfGroup, OfConv
    <2>7. /\ store' \subseteq Sent /\ pulled' \subseteq store' /\ Cardinality(store') <= HighWater
          /\ evicted' \subseteq everStored' /\ everStored' \subseteq Sent /\ store' \subseteq everStored'
          /\ manifest' \in [count : Nat, compacted : BOOLEAN]
      BY <2>4, <2>6, PutTyped
    <2>8. torn' \in BOOLEAN /\ mixed' \in BOOLEAN
      BY <1>0, <2>1, <2>4 DEF StoreType
    <2>9. StoreType'
      BY <1>0, <2>1, <2>3, <2>4, <2>5, <2>7, <2>8 DEF StoreType
    <2>10. PullType'
      <3>1. pull' = [pull EXCEPT ![p] =
                       IF @.upto < @.target
                       THEN [pull[p] EXCEPT !.step = "list", !.at = pull[p].upto, !.upto = 0] ELSE NoPull]
        BY <1>11 DEF PullCommit
      <3>2. 0 \in 0..Latest
        BY <1>a
      <3>3. [pull[p] EXCEPT !.step = "list", !.at = pull[p].upto, !.upto = 0] \in
              [step : {"idle", "list", "commit"}, at : 0..Latest, upto : 0..Latest,
               target : 0..Latest, stale : BOOLEAN]
        BY <1>0, <3>2 DEF PullType
      <3>4. NoPull \in [step : {"idle", "list", "commit"}, at : 0..Latest, upto : 0..Latest,
                        target : 0..Latest, stale : BOOLEAN]
        BY <3>2 DEF NoPull
      <3>5. \E q \in [step : {"idle", "list", "commit"}, at : 0..Latest, upto : 0..Latest,
                      target : 0..Latest, stale : BOOLEAN] : pull' = [pull EXCEPT ![p] = q]
        BY <3>1, <3>3, <3>4
      <3> QED BY <1>0, <2>3, <3>5 DEF PullType
    <2> QED BY <2>3, <2>9, <2>10, PartsNext
  <1>12. CASE UNCHANGED vars
    <2>1. UNCHANGED <<messages, checkpoint, acks, storeVars, tabVars, pull, faults, clears>>
      BY <1>12 DEF vars, serverVars
    <2> QED BY <2>1, Frame, PartsNext
  <1> QED
    BY <1>1, <1>2, <1>3, <1>4, <1>5, <1>6, <1>7, <1>8, <1>9, <1>10, <1>11, <1>12 DEF Next

LEMMA TypedAlways == Spec => []Typed
  BY TypedInit, TypedStep, PTL DEF Spec

\* Every variable keeps its type; the rows of a page never exceed its size, and
\* whatever the order of the rows, an eviction brings the store under its high
\* water mark (evictIfNeeded).
THEOREM TypeCorrect == Spec => []TypeOK
  BY TypedAlways, PTL DEF Typed

-----------------------------------------------------------------------------
(* What changes the store: a page that is committed, and a sign-out.        *)

LEMMA StoreSteps ==
  [Next]_vars => \/ UNCHANGED storeVars
                 \/ \E t \in Tabs : Commit(t) \/ Clear(t)
                 \/ \E p \in Pulls : PullCommit(p)
  <1> SUFFICES ASSUME [Next]_vars
               PROVE  \/ UNCHANGED storeVars
                      \/ \E t \in Tabs : Commit(t) \/ Clear(t)
                      \/ \E p \in Pulls : PullCommit(p)
    OBVIOUS
  <1>1. ASSUME NEW c \in Conversations, Arrive(c) PROVE UNCHANGED storeVars
    BY <1>1 DEF Arrive
  <1>2. ASSUME NEW x \in acks, ServerAck(x) PROVE UNCHANGED storeVars
    BY <1>2 DEF ServerAck
  <1>3. ASSUME NEW t \in Tabs, Start(t) \/ Acked(t) \/ List(t) \/ CommitRefused(t) \/ Interrupted(t)
        PROVE  UNCHANGED storeVars
    BY <1>3 DEF Start, Acked, List, CommitRefused, Interrupted
  <1>4. ASSUME NEW p \in Pulls, PullStart(p) \/ PullList(p) \/ PullEnds(p) PROVE UNCHANGED storeVars
    BY <1>4 DEF PullStart, PullList, PullEnds
  <1>5. CASE UNCHANGED vars
    BY <1>5 DEF vars
  <1> QED BY <1>1, <1>2, <1>3, <1>4, <1>5 DEF Next

LEMMA CommitPuts ==
  ASSUME Typed, NEW t \in Tabs, Commit(t)
  PROVE  /\ Put(Page(t), pulled \ Page(t)) /\ Page(t) \in SUBSET Sent
         /\ pulled \ Page(t) \subseteq store \union Page(t)
         /\ pc[t] = "commit" /\ upto[t] \in Inbox /\ upto[t] \in Nat /\ cursor <= upto[t] /\ cursor' = upto[t]
         /\ at[t] \in Nat /\ cursor \in Nat /\ UNCHANGED <<messages, groupCursor>>
  <1>1. TabType /\ StoreType
    BY Parts
  <1>2. Inbox \subseteq Sent /\ Inbox \subseteq Nat
    BY RowsTyped DEF Typed
  <1>3. /\ pc[t] = "commit" /\ cursor <= upto[t] /\ Put(Page(t), pulled \ Page(t)) /\ cursor' = upto[t]
        /\ UNCHANGED <<messages, groupCursor>>
    BY DEF Commit
  <1>4. upto[t] \in Inbox /\ at[t] \in Nat
    BY <1>1, <1>3 DEF TabType
  <1>5. pulled \subseteq store /\ cursor \in Nat
    BY <1>1, <1>2 DEF StoreType
  <1>6. Page(t) \in SUBSET Sent
    BY <1>2 DEF Page
  <1> QED BY <1>2, <1>3, <1>4, <1>5, <1>6

LEMMA PullPuts ==
  ASSUME Typed, NEW p \in Pulls, PullCommit(p)
  PROVE  /\ Put(PullPage(p), pulled \union PullPage(p)) /\ PullPage(p) \in SUBSET Sent
         /\ pulled \union PullPage(p) \subseteq store \union PullPage(p)
         /\ pull[p].step = "commit" /\ pull[p].at \in Nat /\ pull[p].upto \in Nat
         /\ groupCursor \in Nat /\ groupCursor <= pull[p].upto /\ groupCursor' = pull[p].upto
         /\ UNCHANGED <<serverVars, cursor, mixed, tabVars>>
  <1>1. PullType /\ StoreType
    BY Parts
  <1>2. Latest \in Nat
    BY RowsTyped DEF Typed
  <1>3. /\ Put(PullPage(p), pulled \union PullPage(p)) /\ pull[p].step = "commit"
        /\ groupCursor <= pull[p].upto /\ groupCursor' = pull[p].upto
        /\ UNCHANGED <<serverVars, cursor, mixed, tabVars>>
    BY DEF PullCommit, PullPage
  <1>4. pull[p].at \in Nat /\ pull[p].upto \in Nat /\ groupCursor \in Nat
    BY <1>1, <1>2 DEF PullType, StoreType
  <1>5. PullPage(p) \in SUBSET Sent
    BY DEF PullPage, OfGroup, OfConv
  <1>6. pulled \subseteq store
    BY <1>1 DEF StoreType
  <1> QED BY <1>3, <1>4, <1>5, <1>6

-----------------------------------------------------------------------------
(* The manifest *)

LEMMA ManifestInit == Init => ManifestIsTrue
  BY FS_EmptySet DEF Init, ManifestIsTrue, Empty

LEMMA ManifestStep == Typed /\ ManifestIsTrue /\ [Next]_vars => ManifestIsTrue'
  <1> SUFFICES ASSUME Typed, ManifestIsTrue, [Next]_vars PROVE ManifestIsTrue'
    OBVIOUS
  <1>1. CASE UNCHANGED storeVars
    BY <1>1 DEF ManifestIsTrue, storeVars
  <1>2. ASSUME NEW t \in Tabs, Commit(t) PROVE ManifestIsTrue'
    BY <1>2, CommitPuts, PutTyped DEF ManifestIsTrue
  <1>3. ASSUME NEW t \in Tabs, Clear(t) PROVE ManifestIsTrue'
    BY <1>3, FS_EmptySet DEF Clear, ManifestIsTrue, Empty
  <1>4. ASSUME NEW p \in Pulls, PullCommit(p) PROVE ManifestIsTrue'
    BY <1>4, PullPuts, PutTyped DEF ManifestIsTrue
  <1> QED BY <1>1, <1>2, <1>3, <1>4, StoreSteps

\* The stored manifest counts the rows of the store, and says that some are
\* missing exactly when one was evicted since the last sign-out (evictIfNeeded).
THEOREM ManifestSays == Spec => []ManifestIsTrue
  BY TypedInit, TypedStep, ManifestInit, ManifestStep, PTL DEF Spec

-----------------------------------------------------------------------------
(* Cursors *)

\* No step takes the checkpoint or a stored cursor back, but a sign-out, which
\* takes the rows as well (AdvanceCheckpoint, commitPage, commitGroupPage).
THEOREM NeverBack == Spec => CursorsNeverBack
  <1>1. ASSUME Typed, [Next]_vars
        PROVE  /\ checkpoint' >= checkpoint
               /\ \/ cursor' >= cursor /\ groupCursor' >= groupCursor
                  \/ cursor' = 0 /\ groupCursor' = 0 /\ store' = {}
    <2>1. ServerType /\ StoreType /\ Inbox \subseteq Nat /\ Latest \in Nat
      BY <1>1, Parts, RowsTyped DEF Typed
    <2>2. checkpoint \in Nat /\ cursor \in Nat /\ groupCursor \in Nat
      BY <2>1 DEF ServerType, StoreType
    <2>3. checkpoint' >= checkpoint
      <3>1. ASSUME NEW x \in acks, ServerAck(x) PROVE checkpoint' >= checkpoint
        <4>1. x.seq \in Nat
          BY <2>1 DEF ServerType
        <4>2. checkpoint' = checkpoint \/ (checkpoint' = x.seq /\ x.seq > checkpoint)
          BY <3>1 DEF ServerAck
        <4> QED BY <2>2, <4>1, <4>2
      <3>2. UNCHANGED checkpoint \/ \E x \in acks : ServerAck(x)
        BY <1>1 DEF Next, vars, serverVars, Arrive, Start, Acked, List, Commit, CommitRefused,
                    Interrupted, Clear, PullStart, PullList, PullCommit, PullEnds
      <3> QED BY <2>2, <3>1, <3>2
    <2>4. \/ cursor' >= cursor /\ groupCursor' >= groupCursor
          \/ cursor' = 0 /\ groupCursor' = 0 /\ store' = {}
      <3>1. CASE UNCHANGED storeVars
        BY <2>2, <3>1 DEF storeVars
      <3>2. ASSUME NEW t \in Tabs, Commit(t) PROVE cursor' >= cursor /\ groupCursor' >= groupCursor
        <4>1. cursor <= upto[t] /\ upto[t] \in Nat /\ cursor' = upto[t] /\ groupCursor' = groupCursor
          BY <1>1, <3>2, CommitPuts
        <4> QED BY <2>2, <4>1
      <3>3. ASSUME NEW p \in Pulls, PullCommit(p) PROVE cursor' >= cursor /\ groupCursor' >= groupCursor
        <4>1. /\ groupCursor <= pull[p].upto /\ pull[p].upto \in Nat
              /\ groupCursor' = pull[p].upto /\ cursor' = cursor
          BY <1>1, <3>3, PullPuts
        <4> QED BY <2>2, <4>1
      <3>4. ASSUME NEW t \in Tabs, Clear(t) PROVE cursor' = 0 /\ groupCursor' = 0 /\ store' = {}
        BY <3>4 DEF Clear
      <3> QED BY <1>1, <3>1, <3>2, <3>3, <3>4, StoreSteps
    <2> QED BY <2>3, <2>4
  <1> QED BY <1>1, TypedAlways, PTL DEF Spec, CursorsNeverBack

-----------------------------------------------------------------------------
(* Durability.  Every number that may become the checkpoint stands for rows *)
(* that were committed: that of an acknowledgement on its way, that of the  *)
(* stored cursor, which is acknowledged again, and a tab's cursor, on top   *)
(* of which it commits.                                                     *)

Durable(k) == {m \in Inbox : m <= k} \subseteq everStored

Durably ==
    /\ Durable(checkpoint) /\ Durable(cursor)
    /\ \A x \in acks : Durable(x.seq)
    /\ \A t \in Tabs : Durable(at[t])

LEMMA DurablyInit == Init => Durably
  <1> SUFFICES ASSUME Init PROVE Durably
    OBVIOUS
  <1>1. DOMAIN messages = {}
    BY DEF Init
  <1>2. Inbox = {}
    BY <1>1 DEF Inbox, Sent
  <1> QED BY <1>2 DEF Init, Durably, Durable

\* What was durable stays so: what arrives is later.
LEMMA DurableStays ==
  ASSUME Typed, [Next]_vars
  PROVE  \A k \in Sent \union {0} :
            Durable(k) => {m \in Inbox' : m <= k} \subseteq everStored'
  <1>1. everStored \subseteq everStored'
    <2>1. CASE UNCHANGED storeVars
      BY <2>1 DEF storeVars
    <2>2. ASSUME NEW t \in Tabs, Commit(t) PROVE everStored \subseteq everStored'
      BY <2>2, CommitPuts, PutTyped
    <2>3. ASSUME NEW p \in Pulls, PullCommit(p) PROVE everStored \subseteq everStored'
      BY <2>3, PullPuts, PutTyped
    <2>4. ASSUME NEW t \in Tabs, Clear(t) PROVE everStored \subseteq everStored'
      BY <2>4 DEF Clear
    <2> QED BY <2>1, <2>2, <2>3, <2>4, StoreSteps
  <1>2. CASE UNCHANGED messages
    BY <1>1, <1>2, Frame DEF Durable
  <1>3. ASSUME NEW c \in Conversations, Arrive(c)
        PROVE  \A k \in Sent \union {0} : Durable(k) => {m \in Inbox' : m <= k} \subseteq everStored'
    <2> DEFINE n == Len(messages) + 1
    <2>1. /\ Inbox' \subseteq Inbox \union {n} /\ \A m \in Sent : m < n
          /\ Sent \subseteq Nat /\ n \in Nat /\ 0 < n
      BY <1>3, Arrives, RowsTyped DEF Typed
    <2> HIDE DEF n
    <2>2. \A k \in Sent \union {0} : ~ (n <= k)
      BY <2>1
    <2> QED BY <1>1, <2>1, <2>2 DEF Durable
  <1>4. UNCHANGED messages \/ \E c \in Conversations : Arrive(c)
    BY DEF Next, vars, serverVars, ServerAck, Start, Acked, List, Commit, CommitRefused,
           Interrupted, Clear, PullStart, PullList, PullCommit, PullEnds
  <1> QED BY <1>2, <1>3, <1>4

LEMMA DurablyStep == Typed /\ Durably /\ [Next]_vars => Durably'
  <1> SUFFICES ASSUME Typed, Durably, [Next]_vars PROVE Durably'
    OBVIOUS
  <1> DEFINE D(k) == {m \in Inbox' : m <= k} \subseteq everStored'
  <1>0. ServerType /\ StoreType /\ TabType /\ Inbox \subseteq Sent /\ Inbox \subseteq Nat \ {0}
    BY Parts, RowsTyped DEF Typed
  <1>1. D(checkpoint) /\ D(cursor) /\ D(0) /\ (\A x \in acks : D(x.seq)) /\ (\A t \in Tabs : D(at[t]))
    <2>1. \A k \in Sent \union {0} : Durable(k) => D(k)
      BY DurableStays
    <2>2. checkpoint \in Sent \union {0} /\ cursor \in Sent \union {0}
      BY <1>0 DEF ServerType, StoreType
    <2>3. \A x \in acks : x.seq \in Sent \union {0}
      BY <1>0 DEF ServerType
    <2>4. \A t \in Tabs : at[t] \in Sent \union {0}
      BY <1>0 DEF TabType
    <2>5. Durable(0)
      <3>1. \A m \in Inbox : ~ (m <= 0)
        BY <1>0
      <3> QED BY <3>1 DEF Durable
    <2> HIDE DEF D
    <2> QED BY <2>1, <2>2, <2>3, <2>4, <2>5 DEF Durably
  <1>2. ASSUME D(checkpoint'), D(cursor'), \A x \in acks' : D(x.seq), \A t \in Tabs : D(at'[t])
        PROVE  Durably'
    BY <1>2 DEF Durably, Durable
  <1>3. ASSUME NEW c \in Conversations, Arrive(c) PROVE Durably'
    <2>1. UNCHANGED <<checkpoint, cursor, acks, at>>
      BY <1>3 DEF Arrive, storeVars, tabVars
    <2> HIDE DEF D
    <2> QED BY <1>1, <1>2, <2>1
  <1>4. ASSUME NEW x \in acks, ServerAck(x) PROVE Durably'
    <2>1. UNCHANGED <<cursor, at>> /\ acks' \subseteq acks /\ (checkpoint' = checkpoint \/ checkpoint' = x.seq)
      BY <1>4 DEF ServerAck, storeVars, tabVars
    <2> HIDE DEF D
    <2> QED BY <1>1, <1>2, <2>1
  <1>5. ASSUME NEW t \in Tabs, Start(t) PROVE Durably'
    <2>1. /\ UNCHANGED <<checkpoint, cursor>> /\ at' = [at EXCEPT ![t] = cursor]
          /\ acks' \subseteq acks \union {[tab |-> t, seq |-> cursor]}
      BY <1>5 DEF Start, Send, storeVars
    <2>2. \A u \in Tabs : at'[u] = at[u] \/ at'[u] = cursor
      BY <1>0, <2>1 DEF TabType
    <2> HIDE DEF D
    <2>3. \A x \in acks' : D(x.seq)
      BY <1>1, <2>1
    <2> QED BY <1>1, <1>2, <2>1, <2>2, <2>3
  <1>6. ASSUME NEW t \in Tabs, Acked(t) \/ List(t) \/ CommitRefused(t) \/ Interrupted(t) PROVE Durably'
    <2>1. UNCHANGED <<checkpoint, cursor, acks>> /\ (at' = at \/ at' = [at EXCEPT ![t] = 0])
      BY <1>6 DEF Acked, List, CommitRefused, Interrupted, Leave, serverVars, storeVars
    <2>2. \A u \in Tabs : at'[u] = at[u] \/ at'[u] = 0
      BY <1>0, <2>1 DEF TabType
    <2> HIDE DEF D
    <2> QED BY <1>1, <1>2, <2>1, <2>2
  <1>7. ASSUME NEW t \in Tabs, Commit(t) PROVE Durably'
    <2>1. /\ UNCHANGED checkpoint /\ cursor' = upto[t] /\ at' = [at EXCEPT ![t] = upto[t]]
          /\ acks' = acks \union {[tab |-> t, seq |-> upto[t]]}
      BY <1>7 DEF Commit, Send
    <2>2. \A u \in Tabs : at'[u] = at[u] \/ at'[u] = upto[t]
      BY <1>0, <2>1 DEF TabType
    <2>3. everStored' = everStored \union Page(t) /\ upto[t] \in Nat /\ at[t] \in Nat /\ UNCHANGED messages
      BY <1>7, CommitPuts, PutTyped
    <2>4. Inbox' = Inbox
      BY <2>3, Frame
    <2>5. \A m \in Inbox : m <= upto[t] => m <= at[t] \/ m \in Page(t)
      <3>1. \A m \in Nat, l \in Nat : m <= l \/ l < m
        OBVIOUS
      <3> QED BY <1>0, <2>3, <3>1 DEF Page
    <2>6. D(upto[t])
      BY <2>3, <2>4, <2>5 DEF Durably, Durable
    <2> HIDE DEF D
    <2>7. \A x \in acks' : D(x.seq)
      BY <1>1, <2>1, <2>6
    <2> QED BY <1>1, <1>2, <2>1, <2>2, <2>6, <2>7
  <1>8. ASSUME NEW t \in Tabs, Clear(t) PROVE Durably'
    <2>1. UNCHANGED <<checkpoint, acks, at>> /\ cursor' = 0
      BY <1>8 DEF Clear, serverVars
    <2> HIDE DEF D
    <2> QED BY <1>1, <1>2, <2>1
  <1>9. ASSUME NEW p \in Pulls, PullStart(p) \/ PullList(p) \/ PullCommit(p) \/ PullEnds(p) PROVE Durably'
    <2>1. UNCHANGED <<checkpoint, cursor, acks, at>>
      BY <1>9 DEF PullStart, PullList, PullCommit, PullEnds, serverVars, storeVars, tabVars
    <2> HIDE DEF D
    <2> QED BY <1>1, <1>2, <2>1
  <1>10. CASE UNCHANGED vars
    <2>1. UNCHANGED <<checkpoint, cursor, acks, at>>
      BY <1>10 DEF vars, serverVars, storeVars, tabVars
    <2> HIDE DEF D
    <2> QED BY <1>1, <1>2, <2>1
  <1> QED BY <1>3, <1>4, <1>5, <1>6, <1>7, <1>8, <1>9, <1>10 DEF Next

\* The device's checkpoint on the server never covers a row that was not
\* committed in the browser, whichever of its tabs acknowledged it and however
\* late or often (recover, commitPage, AdvanceCheckpoint).
THEOREM Acknowledged == Spec => []AckedIsDurable
  <1>1. Durably => AckedIsDurable
    BY DEF Durably, Durable, AckedIsDurable
  <1> QED BY <1>1, TypedInit, TypedStep, DurablyInit, DurablyStep, PTL DEF Spec

-----------------------------------------------------------------------------
(* Gaps.  A page tears a gap only if it lies above the stored cursor, and a *)
(* run or a pull is never ahead of that cursor unless there was a sign-out  *)
(* since it began.                                                          *)

NotAhead ==
    /\ \A t \in Tabs : pc[t] # "idle" /\ ~ stale[t] => at[t] <= cursor
    /\ \A p \in Pulls : pull[p].step # "idle" /\ ~ pull[p].stale => pull[p].at <= groupCursor

LEMMA GapsInit == Init => NotAhead /\ GapsAreTorn
  <1> SUFFICES ASSUME Init PROVE NotAhead /\ GapsAreTorn
    OBVIOUS
  <1>1. DOMAIN messages = {}
    BY DEF Init
  <1>2. Inbox = {} /\ OfGroup = {}
    BY <1>1 DEF Inbox, OfGroup, OfConv, Sent
  <1>3. NotAhead
    BY DEF Init, NotAhead, NoPull
  <1> QED BY <1>2, <1>3 DEF GapsAreTorn, NoLocalGap

LEMMA NotAheadStep == Typed /\ NotAhead /\ [Next]_vars => NotAhead'
  <1> SUFFICES ASSUME Typed, NotAhead, [Next]_vars PROVE NotAhead'
    OBVIOUS
  <1>0. /\ StoreType /\ TabType /\ PullType /\ Latest \in Nat
        /\ cursor \in Nat /\ groupCursor \in Nat
    BY Parts, RowsTyped DEF Typed, StoreType
  <1>1. ASSUME UNCHANGED <<cursor, groupCursor, pull>>, NEW t \in Tabs,
               \A u \in Tabs \ {t} : pc'[u] = pc[u] /\ at'[u] = at[u] /\ stale'[u] = stale[u],
               pc'[t] # "idle" /\ ~ stale'[t] => at'[t] <= cursor
        PROVE  NotAhead'
    BY <1>1 DEF NotAhead
  <1>2. ASSUME UNCHANGED <<cursor, groupCursor, tabVars>>, NEW p \in Pulls,
               \A q \in Pulls \ {p} : pull'[q] = pull[q],
               pull'[p].step # "idle" /\ ~ pull'[p].stale => pull'[p].at <= groupCursor
        PROVE  NotAhead'
    BY <1>2 DEF NotAhead, tabVars
  <1>3. ASSUME NEW t \in Tabs, Leave(t), UNCHANGED <<storeVars, pull>> PROVE NotAhead'
    <2>1. /\ pc'[t] = "idle"
          /\ \A u \in Tabs \ {t} : pc'[u] = pc[u] /\ at'[u] = at[u] /\ stale'[u] = stale[u]
      BY <1>0, <1>3 DEF Leave, Goto, TabType
    <2>2. UNCHANGED <<cursor, groupCursor, pull>>
      BY <1>3 DEF storeVars
    <2> QED BY <1>1, <2>1, <2>2
  <1>4. ASSUME NEW t \in Tabs, Start(t) PROVE NotAhead'
    <2>1. UNCHANGED <<cursor, groupCursor, pull>>
      BY <1>4 DEF Start, storeVars
    <2>2. /\ at' = [at EXCEPT ![t] = cursor] /\ stale' = [stale EXCEPT ![t] = FALSE]
          /\ \E step \in {"ack", "list"} : pc' = [pc EXCEPT ![t] = step]
      BY <1>4 DEF Start, Goto
    <2>3. /\ at'[t] = cursor
          /\ \A u \in Tabs \ {t} : pc'[u] = pc[u] /\ at'[u] = at[u] /\ stale'[u] = stale[u]
      BY <1>0, <2>2 DEF TabType
    <2> QED BY <1>0, <1>1, <2>1, <2>3
  <1>5. ASSUME NEW t \in Tabs, Acked(t) \/ List(t) PROVE NotAhead'
    <2>1. UNCHANGED <<storeVars, pull>>
      BY <1>5 DEF Acked, List
    <2>2. CASE /\ \E step \in {"list", "commit"} : pc' = [pc EXCEPT ![t] = step]
               /\ UNCHANGED <<at, stale>> /\ pc[t] # "idle"
      <3>1. \A u \in Tabs \ {t} : pc'[u] = pc[u] /\ at'[u] = at[u] /\ stale'[u] = stale[u]
        BY <1>0, <2>2 DEF TabType
      <3>2. ~ stale'[t] => at'[t] <= cursor
        BY <2>2 DEF NotAhead
      <3>3. UNCHANGED <<cursor, groupCursor, pull>>
        BY <2>1 DEF storeVars
      <3> QED BY <1>1, <3>1, <3>2, <3>3
    <2>3. CASE Leave(t)
      BY <1>3, <2>1, <2>3
    <2> QED BY <1>5, <2>2, <2>3 DEF Acked, List, Goto
  <1>6. ASSUME NEW t \in Tabs, CommitRefused(t) \/ Interrupted(t) PROVE NotAhead'
    BY <1>3, <1>6 DEF CommitRefused, Interrupted
  <1>7. ASSUME NEW t \in Tabs, Commit(t) PROVE NotAhead'
    <2>1. /\ upto[t] \in Nat /\ cursor <= upto[t] /\ cursor' = upto[t] /\ UNCHANGED groupCursor
      BY <1>7, CommitPuts
    <2>2. UNCHANGED <<stale, pull>> /\ at' = [at EXCEPT ![t] = upto[t]] /\ pc' = [pc EXCEPT ![t] = "ack"]
      BY <1>7 DEF Commit, Goto
    <2>3. /\ at'[t] = upto[t]
          /\ \A u \in Tabs \ {t} : pc'[u] = pc[u] /\ at'[u] = at[u]
      BY <1>0, <2>2 DEF TabType
    <2>4. \A u \in Tabs : at[u] \in Nat
      BY <1>0 DEF TabType
    <2>5. \A u \in Tabs : pc'[u] # "idle" /\ ~ stale'[u] => at'[u] <= cursor'
      <3> SUFFICES ASSUME NEW u \in Tabs, pc'[u] # "idle", ~ stale'[u] PROVE at'[u] <= cursor'
        OBVIOUS
      <3>1. CASE u = t
        BY <2>1, <2>3, <3>1
      <3>2. CASE u # t
        <4>1. at[u] <= cursor /\ at'[u] = at[u]
          BY <2>2, <2>3, <3>2 DEF NotAhead
        <4> QED BY <1>0, <2>1, <2>4, <4>1
      <3> QED BY <3>1, <3>2
    <2> QED BY <2>1, <2>2, <2>5 DEF NotAhead
  <1>8. ASSUME NEW t \in Tabs, Clear(t) PROVE NotAhead'
    <2>1. /\ UNCHANGED pc /\ stale' = [u \in Tabs |-> pc[u] # "idle"]
          /\ pull' = [p \in Pulls |-> [pull[p] EXCEPT !.stale = pull[p].step # "idle"]]
      BY <1>8 DEF Clear
    <2>2. \A u \in Tabs : pc'[u] # "idle" => stale'[u]
      BY <2>1
    <2>3. \A p \in Pulls : pull'[p].step # "idle" => pull'[p].stale
      BY <1>0, <2>1 DEF PullType
    <2> QED BY <2>2, <2>3 DEF NotAhead
  <1>9. ASSUME NEW p \in Pulls, PullStart(p) PROVE NotAhead'
    <2>1. /\ UNCHANGED <<cursor, groupCursor, tabVars>>
          /\ pull' = [pull EXCEPT ![p] = [NoPull EXCEPT !.step = "list", !.at = groupCursor, !.target = Latest]]
      BY <1>9 DEF PullStart, storeVars
    <2>2. pull'[p].at = groupCursor /\ \A q \in Pulls \ {p} : pull'[q] = pull[q]
      BY <1>0, <2>1 DEF PullType, NoPull
    <2> QED BY <1>0, <1>2, <2>1, <2>2
  <1>10. ASSUME NEW p \in Pulls, PullList(p) PROVE NotAhead'
    <2>1. /\ UNCHANGED <<cursor, groupCursor, tabVars>> /\ pull[p].step = "list"
          /\ \E end : pull' = [pull EXCEPT ![p].step = "commit", ![p].upto = end]
      BY <1>10 DEF PullList, storeVars
    <2>2. /\ pull'[p].at = pull[p].at /\ pull'[p].stale = pull[p].stale
          /\ \A q \in Pulls \ {p} : pull'[q] = pull[q]
      BY <1>0, <2>1 DEF PullType
    <2>3. ~ pull'[p].stale => pull'[p].at <= groupCursor
      BY <2>1, <2>2 DEF NotAhead
    <2> QED BY <1>2, <2>1, <2>2, <2>3
  <1>11. ASSUME NEW p \in Pulls, PullEnds(p) PROVE NotAhead'
    <2>1. UNCHANGED <<cursor, groupCursor, tabVars>> /\ pull' = [pull EXCEPT ![p] = NoPull]
      BY <1>11 DEF PullEnds, storeVars
    <2>2. pull'[p].step = "idle" /\ \A q \in Pulls \ {p} : pull'[q] = pull[q]
      BY <1>0, <2>1 DEF PullType, NoPull
    <2> QED BY <1>2, <2>1, <2>2
  <1>12. ASSUME NEW p \in Pulls, PullCommit(p) PROVE NotAhead'
    <2>1. /\ pull[p].upto \in Nat /\ groupCursor <= pull[p].upto /\ groupCursor' = pull[p].upto
          /\ UNCHANGED <<cursor, tabVars>>
      BY <1>12, PullPuts
    <2>2. pull' = [pull EXCEPT ![p] =
                     IF @.upto < @.target
                     THEN [pull[p] EXCEPT !.step = "list", !.at = pull[p].upto, !.upto = 0] ELSE NoPull]
      BY <1>12 DEF PullCommit
    <2>3. \/ pull' = [pull EXCEPT ![p] = [pull[p] EXCEPT !.step = "list", !.at = pull[p].upto, !.upto = 0]]
          \/ pull' = [pull EXCEPT ![p] = NoPull]
      BY <2>2
    <2>4. /\ pull'[p].step = "idle" \/ pull'[p].at = pull[p].upto
          /\ \A q \in Pulls \ {p} : pull'[q] = pull[q]
      <3> DEFINE next == [pull[p] EXCEPT !.step = "list", !.at = pull[p].upto, !.upto = 0]
      <3>0. pull[p] \in [step : {"idle", "list", "commit"}, at : Nat, upto : Nat, target : Nat, stale : BOOLEAN]
        BY <1>0 DEF PullType
      <3>1. next.at = pull[p].upto /\ NoPull.step = "idle"
        BY <3>0 DEF NoPull
      <3>2. \A x : pull' = [pull EXCEPT ![p] = x] => pull'[p] = x /\ \A q \in Pulls \ {p} : pull'[q] = pull[q]
        BY <1>0 DEF PullType
      <3>3. pull' = [pull EXCEPT ![p] = next] \/ pull' = [pull EXCEPT ![p] = NoPull]
        BY <2>3
      <3> HIDE DEF next
      <3> QED BY <3>1, <3>2, <3>3
    <2>5. ASSUME NEW q \in Pulls, pull'[q].step # "idle", ~ pull'[q].stale PROVE pull'[q].at <= groupCursor'
      <3>1. CASE q = p
        BY <2>1, <2>4, <2>5, <3>1
      <3>2. CASE q # p
        <4>1. pull[q].at <= groupCursor /\ pull[q].at \in Nat /\ pull'[q] = pull[q]
          BY <1>0, <2>4, <2>5, <3>2 DEF NotAhead, PullType
        <4> QED BY <1>0, <2>1, <4>1
      <3> QED BY <3>1, <3>2
    <2> QED BY <2>1, <2>5 DEF NotAhead, tabVars
  <1>13. ASSUME UNCHANGED <<storeVars, tabVars, pull>> PROVE NotAhead'
    BY <1>13 DEF NotAhead, storeVars, tabVars
  <1>14. ASSUME NEW c \in Conversations, Arrive(c) PROVE NotAhead'
    BY <1>13, <1>14 DEF Arrive
  <1>15. ASSUME NEW x \in acks, ServerAck(x) PROVE NotAhead'
    BY <1>13, <1>15 DEF ServerAck
  <1>16. CASE UNCHANGED vars
    BY <1>13, <1>16 DEF vars
  <1> QED
    BY <1>4, <1>5, <1>6, <1>7, <1>8, <1>9, <1>10, <1>11, <1>12, <1>14, <1>15, <1>16 DEF Next

LEMMA GapsStep == Typed /\ NotAhead /\ GapsAreTorn /\ [Next]_vars => GapsAreTorn'
  <1> SUFFICES ASSUME Typed, NotAhead, GapsAreTorn, [Next]_vars, ~ torn' PROVE NoLocalGap'
    BY DEF GapsAreTorn
  <1>0. /\ StoreType /\ TabType /\ PullType /\ Inbox \subseteq Sent /\ Sent \subseteq Nat \ {0}
        /\ Latest \in Nat /\ cursor \in Nat /\ groupCursor \in Nat
        /\ \A m \in OfGroup : m \in Sent /\ MessageSeq(m) \in Nat \ {0}
    BY Parts, RowsTyped DEF Typed, StoreType, OfGroup, OfConv, MessageSeq, MessageType
  <1>1. ASSUME NEW c \in Conversations, Arrive(c) PROVE NoLocalGap'
    <2> DEFINE n == Len(messages) + 1
    <2>1. UNCHANGED <<cursor, groupCursor, store, evicted, torn>>
      BY <1>1 DEF Arrive, storeVars
    <2>2. NoLocalGap
      BY <2>1 DEF GapsAreTorn
    <2>3. /\ Inbox' \subseteq Inbox \union {n} /\ n \in Nat
          /\ \A m \in Sent : m < n /\ messages'[m] = messages[m]
          /\ OfGroup' = OfGroup \/ (OfGroup' = OfGroup \union {n} /\ messages'[n].seq = Latest + 1)
      BY <1>1, Arrives, RowsTyped DEF Typed, OfGroup, Latest
    <2>4. cursor < n /\ groupCursor < Latest + 1
      <3>1. cursor \in Sent \union {0} /\ groupCursor <= Latest
        BY <1>0 DEF StoreType
      <3>2. 0 < n
        BY RowsTyped DEF Typed
      <3> HIDE DEF n
      <3> QED BY <1>0, <2>3, <3>1, <3>2
    <2> HIDE DEF n
    <2>5. {m \in Inbox' : m <= cursor} \subseteq {m \in Inbox : m <= cursor}
      <3>1. ~ (n <= cursor)
        BY <1>0, <2>3, <2>4
      <3> QED BY <2>3, <3>1
    <2>6. {m \in OfGroup' : MessageSeq(m)' <= groupCursor} \subseteq {m \in OfGroup : MessageSeq(m) <= groupCursor}
      <3>1. \A m \in OfGroup : MessageSeq(m)' = MessageSeq(m)
        BY <1>0, <2>3 DEF MessageSeq
      <3>2. ~ (Latest + 1 <= groupCursor)
        BY <1>0, <2>4
      <3> QED BY <2>3, <3>1, <3>2 DEF MessageSeq
    <2> QED BY <2>1, <2>2, <2>5, <2>6 DEF NoLocalGap
  <1>2. ASSUME UNCHANGED <<messages, storeVars>> PROVE NoLocalGap'
    BY <1>2 DEF GapsAreTorn, NoLocalGap, storeVars, Inbox, OfGroup, OfConv, Sent, MessageSeq
  <1>3. ASSUME NEW t \in Tabs, Commit(t) PROVE NoLocalGap'
    <2>1. ~ torn /\ ~ (stale[t] /\ at[t] > cursor)
      BY <1>3 DEF Commit
    <2>2. /\ pc[t] = "commit" /\ cursor' = upto[t] /\ UNCHANGED <<messages, groupCursor>>
          /\ upto[t] \in Nat /\ at[t] \in Nat
      BY <1>3, CommitPuts
    <2>3. store' \union evicted' = store \union Page(t) \union evicted
      BY <1>3, CommitPuts, PutTyped
    <2>4. at[t] <= cursor
      <3>1. CASE stale[t]
        BY <1>0, <2>1, <2>2, <3>1
      <3>2. CASE ~ stale[t]
        BY <2>2, <3>2 DEF NotAhead
      <3> QED BY <3>1, <3>2
    <2>5. Inbox' = Inbox /\ OfGroup' = OfGroup /\ \A m : MessageSeq(m)' = MessageSeq(m)
      BY <2>2, Frame DEF MessageSeq
    <2>6. NoLocalGap
      BY <2>1 DEF GapsAreTorn
    <2>7. \A m \in Inbox : m <= upto[t] => m <= cursor \/ m \in Page(t)
      <3> SUFFICES ASSUME NEW m \in Inbox, m <= upto[t], ~ (m <= cursor) PROVE m \in Page(t)
        OBVIOUS
      <3>1. m \in Nat
        BY <1>0
      <3>2. at[t] < m
        BY <1>0, <2>2, <2>4, <3>1
      <3> QED BY <3>2 DEF Page
    <2> QED BY <2>2, <2>3, <2>5, <2>6, <2>7 DEF NoLocalGap
  <1>4. ASSUME NEW p \in Pulls, PullCommit(p) PROVE NoLocalGap'
    <2>1. ~ torn /\ ~ (pull[p].stale /\ pull[p].at > groupCursor)
      BY <1>4 DEF PullCommit
    <2>2. /\ pull[p].step = "commit" /\ groupCursor' = pull[p].upto /\ UNCHANGED <<serverVars, cursor>>
          /\ pull[p].upto \in Nat /\ pull[p].at \in Nat
      BY <1>4, PullPuts
    <2>3. store' \union evicted' = store \union PullPage(p) \union evicted
      BY <1>4, PullPuts, PutTyped
    <2>4. pull[p].at <= groupCursor
      <3>1. CASE pull[p].stale
        BY <1>0, <2>1, <2>2, <3>1
      <3>2. CASE ~ pull[p].stale
        BY <2>2, <3>2 DEF NotAhead
      <3> QED BY <3>1, <3>2
    <2>5. Inbox' = Inbox /\ OfGroup' = OfGroup /\ \A m : MessageSeq(m)' = MessageSeq(m)
      BY <2>2, Frame DEF MessageSeq, serverVars
    <2>6. NoLocalGap
      BY <2>1 DEF GapsAreTorn
    <2>7. \A m \in OfGroup : MessageSeq(m) <= pull[p].upto => MessageSeq(m) <= groupCursor \/ m \in PullPage(p)
      <3> SUFFICES ASSUME NEW m \in OfGroup, MessageSeq(m) <= pull[p].upto, ~ (MessageSeq(m) <= groupCursor)
                   PROVE  m \in PullPage(p)
        OBVIOUS
      <3>1. MessageSeq(m) \in Nat
        BY <1>0
      <3>2. MessageSeq(m) \in (pull[p].at + 1)..pull[p].upto
        BY <1>0, <2>2, <2>4, <3>1
      <3> QED BY <3>2 DEF PullPage
    <2> QED BY <2>2, <2>3, <2>5, <2>6, <2>7 DEF NoLocalGap
  <1>5. ASSUME NEW t \in Tabs, Clear(t) PROVE NoLocalGap'
    <2>1. UNCHANGED messages /\ cursor' = 0 /\ groupCursor' = 0
      BY <1>5 DEF Clear, serverVars
    <2>2. Inbox' = Inbox /\ OfGroup' = OfGroup /\ \A m : MessageSeq(m)' = MessageSeq(m)
      BY <2>1, Frame DEF MessageSeq
    <2>3. (\A m \in Inbox : ~ (m <= 0)) /\ (\A m \in OfGroup : ~ (MessageSeq(m) <= 0))
      BY <1>0
    <2> QED BY <2>1, <2>2, <2>3 DEF NoLocalGap
  <1>6. UNCHANGED messages \/ \E c \in Conversations : Arrive(c)
    BY DEF Next, vars, serverVars, ServerAck, Start, Acked, List, Commit, CommitRefused,
           Interrupted, Clear, PullStart, PullList, PullCommit, PullEnds
  <1> QED BY <1>1, <1>2, <1>3, <1>4, <1>5, <1>6, StoreSteps

LEMMA GapsAlways == Spec => [](Typed /\ NotAhead /\ GapsAreTorn)
  BY TypedInit, TypedStep, GapsInit, NotAheadStep, GapsStep, PTL DEF Spec

\* The rows up to the stored cursors are in the store or were evicted, unless a
\* page was asked for before a sign-out that did not wait for it and committed
\* afterwards above what it had cleared (commitPage, commitGroupPage, clearUser).
THEOREM OnlyTornGaps == Spec => []GapsAreTorn
  BY GapsAlways, PTL

-----------------------------------------------------------------------------
(* A page after which the server has no more rows reaches the row that was  *)
(* the last one when the run began.                                         *)

Reached ==
    \A t \in Tabs : ~ more[t] =>
        /\ pc[t] = "commit" => target[t] <= upto[t]
        /\ pc[t] = "ack" => target[t] <= at[t]

LEMMA ReachedStep == Typed /\ Reached /\ [Next]_vars => Reached'
  <1> SUFFICES ASSUME Typed, Reached, [Next]_vars PROVE Reached'
    OBVIOUS
  <1>0. /\ StoreType /\ TabType /\ Held /\ Inbox \subseteq Nat
        /\ \A t \in Tabs : at[t] \in Nat /\ upto[t] \in Nat /\ target[t] \in Inbox \union {0}
    BY Parts, RowsTyped DEF Typed, TypeOK, Held
  <1>1. ASSUME NEW t \in Tabs,
               \A u \in Tabs \ {t} : /\ pc'[u] = pc[u] /\ at'[u] = at[u] /\ upto'[u] = upto[u]
                                     /\ more'[u] = more[u] /\ target'[u] = target[u],
               ~ more'[t] => /\ pc'[t] = "commit" => target'[t] <= upto'[t]
                             /\ pc'[t] = "ack" => target'[t] <= at'[t]
        PROVE  Reached'
    BY <1>1 DEF Reached
  <1>2. ASSUME NEW t \in Tabs, Leave(t) PROVE Reached'
    <2>1. /\ pc'[t] = "idle"
          /\ \A u \in Tabs \ {t} : /\ pc'[u] = pc[u] /\ at'[u] = at[u] /\ upto'[u] = upto[u]
                                   /\ more'[u] = more[u] /\ target'[u] = target[u]
      BY <1>0, <1>2 DEF Leave, Goto, TabType
    <2> QED BY <1>1, <2>1
  <1>3. ASSUME NEW t \in Tabs, Start(t) PROVE Reached'
    <2>1. /\ at' = [at EXCEPT ![t] = cursor] /\ more' = [more EXCEPT ![t] = TRUE]
          /\ target' = [target EXCEPT ![t] = LastRow] /\ UNCHANGED upto
          /\ \E step : pc' = [pc EXCEPT ![t] = step]
      BY <1>3 DEF Start, Goto
    <2>2. /\ more'[t]
          /\ \A u \in Tabs \ {t} : /\ pc'[u] = pc[u] /\ at'[u] = at[u] /\ upto'[u] = upto[u]
                                   /\ more'[u] = more[u] /\ target'[u] = target[u]
      BY <1>0, <2>1 DEF TabType
    <2> QED BY <1>1, <2>2
  <1>4. ASSUME NEW t \in Tabs, Acked(t) PROVE Reached'
    <2>1. CASE Goto(t, "list") /\ UNCHANGED <<at, upto, more, target>>
      <3>1. pc'[t] = "list" /\ \A u \in Tabs \ {t} : pc'[u] = pc[u]
        BY <1>0, <2>1 DEF Goto, TabType
      <3> QED BY <1>1, <2>1, <3>1
    <2> QED BY <1>2, <1>4, <2>1 DEF Acked
  <1>5. ASSUME NEW t \in Tabs, List(t) PROVE Reached'
    <2>1. CASE After(t) # {}
      <3>1. /\ more' = [more EXCEPT ![t] = HasMore(t)] /\ upto' = [upto EXCEPT ![t] = PageEnd(t)]
            /\ pc' = [pc EXCEPT ![t] = "commit"] /\ UNCHANGED <<at, target>>
        BY <1>5, <2>1 DEF List, Goto, Leave
      <3>2. /\ more'[t] = HasMore(t) /\ upto'[t] = PageEnd(t) /\ pc'[t] = "commit"
            /\ \A u \in Tabs \ {t} : pc'[u] = pc[u] /\ upto'[u] = upto[u] /\ more'[u] = more[u]
        BY <1>0, <3>1 DEF TabType
      <3>3. PageEnd(t) \in After(t) /\ (~ HasMore(t) => \A m \in After(t) : m <= PageEnd(t))
        BY <2>1, Listed DEF Typed
      <3>4. ~ HasMore(t) => target[t] <= PageEnd(t)
        <4> SUFFICES ASSUME ~ HasMore(t) PROVE target[t] <= PageEnd(t)
          OBVIOUS
        <4>1. PageEnd(t) \in Nat /\ at[t] < PageEnd(t)
          BY <1>0, <3>3 DEF After
        <4>2. CASE target[t] \in After(t)
          BY <3>3, <4>2
        <4>3. CASE target[t] \notin After(t)
          <5>1. target[t] = 0 \/ ~ (target[t] > at[t])
            BY <1>0, <4>3 DEF After
          <5>2. target[t] \in Nat /\ at[t] \in Nat
            BY <1>0 DEF Held
          <5> QED BY <4>1, <5>1, <5>2
        <4> QED BY <4>2, <4>3
      <3> QED BY <1>1, <3>1, <3>2, <3>4
    <2>2. CASE After(t) = {}
      BY <1>2, <1>5, <2>2 DEF List
    <2> QED BY <2>1, <2>2
  <1>6. ASSUME NEW t \in Tabs, CommitRefused(t) \/ Interrupted(t) PROVE Reached'
    BY <1>2, <1>6 DEF CommitRefused, Interrupted
  <1>7. ASSUME NEW t \in Tabs, Commit(t) PROVE Reached'
    <2>1. /\ pc[t] = "commit" /\ at' = [at EXCEPT ![t] = upto[t]] /\ upto' = [upto EXCEPT ![t] = 0]
          /\ pc' = [pc EXCEPT ![t] = "ack"] /\ UNCHANGED <<more, target>>
      BY <1>7 DEF Commit, Goto
    <2>2. /\ at'[t] = upto[t] /\ pc'[t] = "ack"
          /\ \A u \in Tabs \ {t} : pc'[u] = pc[u] /\ at'[u] = at[u] /\ upto'[u] = upto[u]
      BY <1>0, <2>1 DEF TabType, Held
    <2>3. ~ more[t] => target[t] <= upto[t]
      BY <2>1 DEF Reached
    <2> QED BY <1>1, <2>1, <2>2, <2>3
  <1>8. ASSUME NEW t \in Tabs, Clear(t) PROVE Reached'
    <2>1. UNCHANGED <<pc, at, upto, more>> /\ \A u \in Tabs : target'[u] = 0
      BY <1>8 DEF Clear
    <2> QED BY <1>0, <2>1 DEF Reached
  <1>9. ASSUME UNCHANGED tabVars PROVE Reached'
    BY <1>9 DEF Reached, tabVars
  <1>10. UNCHANGED tabVars \/ \E t \in Tabs : \/ Start(t) \/ Acked(t) \/ List(t) \/ Commit(t)
                                            \/ CommitRefused(t) \/ Interrupted(t) \/ Clear(t)
    BY DEF Next, vars, Arrive, ServerAck, PullStart, PullList, PullCommit, PullEnds
  <1> QED BY <1>2, <1>3, <1>4, <1>5, <1>6, <1>7, <1>8, <1>9, <1>10

\* A recovery that returns without an error has brought every row that the inbox
\* held when it began, although other tabs commit to the same store (recover:
\* has_more, the cursor it continues from, and the page that is refused).
THEOREM Complete == Spec => FinishedRunIsComplete
  <1> DEFINE Done == \A t \in Tabs :
                /\ pc[t] \in {"ack", "list"} /\ pc'[t] = "idle" /\ faults' = faults
                /\ ~stale[t] /\ ~torn
                => {m \in Inbox : m <= target[t]} \subseteq store \union evicted
  <1>1. Typed /\ NotAhead /\ GapsAreTorn /\ Reached /\ [Next]_vars => [Done]_vars
    <2> SUFFICES ASSUME Typed, NotAhead, GapsAreTorn, Reached, [Next]_vars,
                        NEW t \in Tabs, pc[t] \in {"ack", "list"}, pc'[t] = "idle", faults' = faults,
                        ~ stale[t], ~ torn, NEW m \in Inbox, m <= target[t]
                 PROVE  m \in store \union evicted
      BY DEF GapsAreTorn
    <2>0. /\ TabType /\ CountType /\ at[t] \in Nat /\ cursor \in Nat /\ m \in Nat /\ target[t] \in Nat
      <3>1. TabType /\ CountType /\ StoreType /\ Inbox \subseteq Nat /\ Held
        BY Parts, RowsTyped DEF Typed
      <3>2. at[t] \in Nat /\ target[t] \in Nat
        BY <3>1 DEF Held
      <3>3. cursor \in Nat
        BY <3>1 DEF StoreType
      <3> QED BY <3>1, <3>2, <3>3
    <2>1. at[t] <= cursor /\ (m <= cursor => m \in store \union evicted)
      BY DEF NotAhead, GapsAreTorn, NoLocalGap
    <2>2. pc' # pc
      BY <2>0 DEF TabType
    <2>3. \A u \in Tabs : \A step : pc' = [pc EXCEPT ![u] = step] => u = t /\ step = "idle"
      <3> SUFFICES ASSUME NEW u \in Tabs, NEW step, pc' = [pc EXCEPT ![u] = step] PROVE u = t /\ step = "idle"
        OBVIOUS
      <3> QED BY <2>0 DEF TabType
    <2>4. ~ Start(t) /\ ~ Commit(t)
      BY DEF Start, Commit
    <2>5. \A u \in Tabs : ~ Interrupted(u)
      BY <2>0 DEF Interrupted, CountType
    <2>6. \A u \in Tabs : Start(u) \/ Acked(u) \/ List(u) \/ Commit(u) \/ CommitRefused(u) => u = t
      BY <2>3 DEF Start, Acked, List, Commit, CommitRefused, Goto, Leave
    <2>7. Acked(t) \/ List(t)
      <3>1. \E u \in Tabs : Start(u) \/ Acked(u) \/ List(u) \/ Commit(u) \/ CommitRefused(u)
        BY <2>2, <2>5 DEF Next, vars, tabVars, Arrive, ServerAck, Clear, PullStart, PullList, PullCommit, PullEnds
      <3> QED BY <2>4, <2>6, <3>1 DEF CommitRefused
    <2>8. CASE Acked(t)
      <3>1. ~ more[t] /\ pc[t] = "ack"
        BY <2>3, <2>8 DEF Acked, Goto
      <3>2. target[t] <= at[t]
        BY <3>1 DEF Reached
      <3> QED BY <2>0, <2>1, <3>2
    <2>9. CASE List(t)
      <3>1. After(t) = {}
        BY <2>3, <2>9 DEF List, Goto
      <3>2. ~ (m > at[t])
        BY <3>1 DEF After
      <3> QED BY <2>0, <2>1, <3>2
    <2> QED BY <2>7, <2>8, <2>9
  <1>2. Init => Reached
    BY DEF Init, Reached
  <1>3. (Spec => [][Done]_vars) => (Spec => FinishedRunIsComplete)
    BY DEF FinishedRunIsComplete
  <1> HIDE DEF Done
  <1> QED BY <1>1, <1>2, <1>3, TypedInit, TypedStep, GapsInit, NotAheadStep, GapsStep, ReachedStep, PTL DEF Spec
-----------------------------------------------------------------------------
(* What an eviction spares.  Of every conversation it wants to spare as     *)
(* many rows as MinPerConversation says; where these fit under the low      *)
(* water mark they are spared.                                              *)

Convs(S) == {messages[m].conv : m \in S}

LEMMA ConvsFinite ==
  ASSUME NEW S, IsFiniteSet(S)
  PROVE  IsFiniteSet(Convs(S))
  <1> DEFINE conv == [m \in S |-> messages[m].conv]
  <1>1. conv \in Surjection(S, Convs(S))
    BY DEF Surjection, Convs
  <1> QED BY <1>1, FS_Surjection

\* The rows of r's conversation that are kept longer than r.
Later(r, rows, renumbered) ==
    {q \in rows : messages[q].conv = messages[r].conv /\ Precedes(r, q, renumbered)}

LEMMA LaterRanks ==
  ASSUME TypeOK, NEW renumbered, NEW rows \in SUBSET Sent, NEW r \in rows, NEW s \in rows,
         messages[r].conv = messages[s].conv,
         Cardinality(Later(r, rows, renumbered)) = Cardinality(Later(s, rows, renumbered))
  PROVE  r = s
  <1> DEFINE S == {q \in rows : messages[q].conv = messages[r].conv}
             R == {p \in S \X S : Precedes(p[2], p[1], renumbered)}
  <1>1. IsFiniteSet(S)
    <2>1. IsFiniteSet(Sent) /\ S \in SUBSET Sent
      BY RowsTyped
    <2> HIDE DEF S
    <2> QED BY <2>1, FS_Subset
  <1>2. \A x, y \in S : <<x, y>> \in R <=> Precedes(y, x, renumbered)
    OBVIOUS
  <1>3. /\ \A x \in S : ~ Precedes(x, x, renumbered)
        /\ \A x, y \in S : x = y \/ Precedes(x, y, renumbered) \/ Precedes(y, x, renumbered)
        /\ \A x, y, z \in S :
               Precedes(x, y, renumbered) /\ Precedes(y, z, renumbered) => Precedes(x, z, renumbered)
    BY PrecedesOrders
  <1>4. \A x \in S : Later(x, rows, renumbered) = {q \in S : <<q, x>> \in R}
    BY DEF Later
  <1>5. r \in S /\ s \in S
    OBVIOUS
  <1> HIDE DEF S, R
  <1>6. Orders(R, S)
    BY <1>2, <1>3 DEF Orders
  <1>7. \A x \in S : Later(x, rows, renumbered) = Before(S, R, x)
    BY <1>4 DEF Before
  <1>8. \A x, y \in S : Cardinality(Before(S, R, x)) = Cardinality(Before(S, R, y)) => x = y
    BY <1>1, <1>6, Ranks
  <1> QED BY <1>5, <1>7, <1>8

\* No more rows are spared than MinPerConversation for every conversation.
LEMMA SparedFew ==
  ASSUME TypeOK, NEW renumbered, NEW rows \in SUBSET Sent, MinPerConversation > 0,
         NEW convs, IsFiniteSet(convs), \A r \in rows : messages[r].conv \in convs
  PROVE  /\ IsFiniteSet(rows \ Spare(rows, renumbered))
         /\ Cardinality(rows \ Spare(rows, renumbered)) <= Cardinality(convs) * MinPerConversation
  <1> DEFINE kept == rows \ Spare(rows, renumbered)
             places == 0..(MinPerConversation - 1)
             place == [r \in kept |-> <<messages[r].conv, Cardinality(Later(r, rows, renumbered))>>]
  <1>1. IsFiniteSet(Sent) /\ IsFiniteSet(rows)
    <2>1. IsFiniteSet(Sent)
      BY RowsTyped
    <2> QED BY <2>1, FS_Subset
  <1>2. MinPerConversation \in Nat
    OBVIOUS
  <1>3. ASSUME NEW r \in kept PROVE Cardinality(Later(r, rows, renumbered)) \in places
    <2>1. Later(r, rows, renumbered) \in SUBSET rows
      BY DEF Later
    <2>2. Cardinality(Later(r, rows, renumbered)) \in Nat
      BY <1>1, <2>1, FS_Subset, FS_CardinalityType
    <2>3. ~ (Cardinality(Later(r, rows, renumbered)) >= MinPerConversation)
      BY DEF Spare, Later
    <2> QED BY <1>2, <2>2, <2>3
  <1>4. \A r, s \in kept : place[r] = place[s] => r = s
    <2> SUFFICES ASSUME NEW r \in kept, NEW s \in kept, place[r] = place[s] PROVE r = s
      OBVIOUS
    <2>1. /\ messages[r].conv = messages[s].conv
          /\ Cardinality(Later(r, rows, renumbered)) = Cardinality(Later(s, rows, renumbered))
      OBVIOUS
    <2>2. r \in rows /\ s \in rows
      OBVIOUS
    <2> QED BY <2>1, <2>2, LaterRanks
  <1>5. place \in [kept -> convs \X places]
    BY <1>3
  <1>6. place \in Injection(kept, convs \X places)
    <2> HIDE DEF place, kept, places
    <2> QED BY <1>4, <1>5 DEF Injection, IsInjective
  <1>7. IsFiniteSet(places) /\ Cardinality(places) = MinPerConversation
    <2>1. IsFiniteSet(places) /\ Cardinality(places) =
             IF 0 > MinPerConversation - 1 THEN 0 ELSE (MinPerConversation - 1) - 0 + 1
      BY <1>2, FS_Interval
    <2>2. ~ (0 > MinPerConversation - 1)
      BY <1>2
    <2>3. Cardinality(places) = (MinPerConversation - 1) - 0 + 1
      BY <2>1, <2>2
    <2>4. (MinPerConversation - 1) - 0 + 1 = MinPerConversation
      BY <1>2
    <2> QED BY <2>1, <2>3, <2>4
  <1>8. IsFiniteSet(convs \X places) /\ Cardinality(convs \X places) = Cardinality(convs) * MinPerConversation
    BY <1>7, FS_Product
  <1> HIDE DEF kept, places, place
  <1>9. IsFiniteSet(kept) /\ Cardinality(kept) <= Cardinality(convs \X places)
    BY <1>6, <1>8, FS_Injection
  <1> QED BY <1>8, <1>9 DEF kept

\* Where the spared rows fit, a row that nothing of its conversation is kept
\* longer than stays.
LEMMA NewestStays ==
  ASSUME TypeOK, NEW renumbered, NEW rows \in SUBSET Sent, MinPerConversation > 0,
         NEW convs, IsFiniteSet(convs), \A r \in rows : messages[r].conv \in convs,
         Cardinality(convs) * MinPerConversation <= LowWater,
         NEW s \in rows, Later(s, rows, renumbered) = {}
  PROVE  s \notin Evict(rows, renumbered)
  <1> DEFINE spare == Spare(rows, renumbered)
             before == {q \in rows : EvictedBefore(q, s, spare, renumbered)}
  <1>1. IsFiniteSet(rows)
    <2>1. IsFiniteSet(Sent)
      BY RowsTyped
    <2> QED BY <2>1, FS_Subset
  <1>2. spare \in SUBSET rows
    BY DEF Spare
  <1>3. s \notin spare
    <2>1. Cardinality(Later(s, rows, renumbered)) = 0
      BY FS_EmptySet
    <2>2. ~ (0 >= MinPerConversation)
      OBVIOUS
    <2> QED BY <2>1, <2>2 DEF Spare, Later
  <1>4. spare \in SUBSET before
    BY <1>2, <1>3 DEF EvictedBefore
  <1>5. before \in SUBSET rows
    OBVIOUS
  <1>6. IsFiniteSet(rows \ spare) /\ Cardinality(rows \ spare) <= Cardinality(convs) * MinPerConversation
    BY SparedFew
  <1>7. Cardinality(convs) \in Nat /\ Cardinality(rows \ spare) \in Nat /\ Cardinality(spare) \in Nat
        /\ Cardinality(before) \in Nat /\ Cardinality(rows) \in Nat
    BY <1>1, <1>2, <1>5, <1>6, FS_Subset, FS_CardinalityType
  <1>8. Cardinality(spare) <= Cardinality(before)
    BY <1>1, <1>4, <1>5, FS_Subset
  <1>9. Cardinality(rows \ spare) = Cardinality(rows) - Cardinality(spare)
    <2>1. Cardinality(rows \ spare) = Cardinality(rows) - Cardinality(rows \cap spare)
      BY <1>1, FS_Difference
    <2>2. rows \cap spare = spare
      BY <1>2
    <2> QED BY <2>1, <2>2
  <1>10. s \in Evict(rows, renumbered) => Cardinality(before) < Excess(rows)
    BY DEF Evict
  <1>11. /\ Excess(rows) \in 0..Cardinality(rows)
         /\ Excess(rows) > 0 => Cardinality(rows) - Excess(rows) = LowWater
    BY <1>1, ExcessTyped
  <1>12. MinPerConversation \in Nat /\ LowWater \in Nat
    OBVIOUS
  <1> HIDE DEF spare, before
  <1>13. Cardinality(rows \ spare) <= LowWater
    <2>1. \A a \in Nat, b \in Nat, k \in Nat, l \in Nat : a <= k * b /\ k * b <= l => a <= l
      OBVIOUS
    <2> QED BY <1>6, <1>7, <1>12, <2>1
  <1>14. \A r \in Nat, k \in Nat, p \in Nat, b \in Nat, e \in Nat :
            k = r - p /\ k <= LowWater /\ p <= b /\ (e > 0 => r - e = LowWater) => ~ (b < e)
    BY <1>12
  <1> QED BY <1>7, <1>8, <1>9, <1>10, <1>11, <1>13, <1>14

-----------------------------------------------------------------------------
(* What is in the store.  Message_seqs grow with the messages of a          *)
(* conversation; a row of the group that a pull wrote lies at or below the  *)
(* group cursor and, while the two orders are not mixed, one that the inbox *)
(* brought lies above it: so both orders agree within a conversation.       *)

Seen == {m \in Inbox : m <= cursor} \union {m \in OfGroup : MessageSeq(m) <= groupCursor}

Numbered ==
    /\ \A m \in Sent : messages[m].seq <= m /\ messages[m].seq <= Cardinality(OfConv(messages[m].conv))
    /\ \A m, n \in Sent : messages[m].conv = messages[n].conv /\ m < n => messages[m].seq < messages[n].seq

Apart ==
    /\ store \subseteq Seen
    /\ \A m \in pulled : m \in OfGroup /\ MessageSeq(m) <= groupCursor
    /\ ~ torn /\ ~ mixed => \A m \in store \ pulled : m \in OfGroup => groupCursor < MessageSeq(m)

LEMMA NumberedStep == Typed /\ Numbered /\ [Next]_vars => Numbered'
  <1> SUFFICES ASSUME Typed, Numbered, [Next]_vars PROVE Numbered'
    OBVIOUS
  <1>1. CASE UNCHANGED messages
    <2>1. Sent' = Sent /\ \A d : OfConv(d)' = OfConv(d)
      BY <1>1 DEF Sent, OfConv
    <2> QED BY <1>1, <2>1 DEF Numbered
  <1>2. ASSUME NEW c \in Conversations, Arrive(c) PROVE Numbered'
    <2> DEFINE n == Len(messages) + 1
               count(d) == Cardinality(OfConv(d))
    <2>1. /\ Len(messages) \in Nat /\ Sent = 1..Len(messages) /\ Sent \subseteq Nat
          /\ \A d : IsFiniteSet(OfConv(d)) /\ count(d) \in Nat /\ count(d) <= Len(messages)
          /\ \A m \in Sent : messages[m].seq \in Nat
      BY RowsTyped DEF Typed, MessageType
    <2>2. /\ Sent' = Sent \union {n} /\ \A m \in Sent : m < n /\ messages'[m] = messages[m]
          /\ messages'[n].conv = c /\ messages'[n].seq = count(c) + 1
          /\ OfConv(c)' = OfConv(c) \union {n} /\ \A d : d # c => OfConv(d)' = OfConv(d)
      BY <1>2, Arrives DEF Typed
    <2>3. n \notin OfConv(c)
      BY <2>1 DEF OfConv
    <2>4. Cardinality(OfConv(c))' = count(c) + 1
      <3>1. Cardinality(OfConv(c) \union {n}) =
               IF n \in OfConv(c) THEN Cardinality(OfConv(c)) ELSE Cardinality(OfConv(c)) + 1
        BY <2>1, FS_AddElement
      <3> QED BY <2>2, <2>3, <3>1
    <2>5. \A d : d # c => Cardinality(OfConv(d))' = count(d)
      BY <2>2
    <2>6. /\ \A m \in Sent : messages[m].seq <= m /\ messages[m].seq <= count(messages[m].conv)
          /\ \A m, k \in Sent : messages[m].conv = messages[k].conv /\ m < k => messages[m].seq < messages[k].seq
      BY DEF Numbered
    <2>7. n \in Nat /\ count(c) + 1 <= n
      BY <2>1
    <2> HIDE DEF n, count
    <2>8. ASSUME NEW m \in Sent'
          PROVE  messages'[m].seq <= m /\ messages'[m].seq <= Cardinality(OfConv(messages[m].conv))'
      <3>1. CASE m = n
        <4>1. messages'[m].seq = count(c) + 1 /\ Cardinality(OfConv(messages[m].conv))' = count(c) + 1
          BY <2>2, <2>4, <3>1
        <4> QED BY <2>1, <2>7, <3>1, <4>1
      <3>2. CASE m \in Sent
        <4>1. /\ messages'[m] = messages[m] /\ messages[m].seq <= m
              /\ messages[m].seq <= count(messages[m].conv)
          BY <2>2, <2>6, <3>2
        <4>2. \/ Cardinality(OfConv(messages[m].conv))' = count(messages[m].conv)
              \/ Cardinality(OfConv(messages[m].conv))' = count(messages[m].conv) + 1
          <5>1. CASE messages[m].conv = c
            BY <2>4, <4>1, <5>1
          <5>2. CASE messages[m].conv # c
            BY <2>5, <4>1, <5>2
          <5> QED BY <5>1, <5>2
        <4>3. count(messages[m].conv) \in Nat /\ messages[m].seq \in Nat
          BY <2>1, <3>2
        <4> QED BY <4>1, <4>2, <4>3
      <3> QED BY <2>2, <3>1, <3>2
    <2>9. ASSUME NEW m \in Sent', NEW k \in Sent', messages'[m].conv = messages'[k].conv, m < k
          PROVE  messages'[m].seq < messages'[k].seq
      <3>1. m \in Sent
        <4>1. ~ (n < n) /\ \A x \in Sent : ~ (n < x)
          <5>1. \A x \in Sent : x < n /\ x \in Nat
            BY <2>1, <2>2
          <5> QED BY <2>7, <5>1
        <4> QED BY <2>2, <2>9, <4>1
      <3>2. CASE k \in Sent
        BY <2>2, <2>6, <2>9, <3>1, <3>2
      <3>3. CASE k = n
        <4>1. messages[m].conv = c /\ messages'[k].seq = count(c) + 1 /\ messages'[m].seq = messages[m].seq
          BY <2>2, <2>9, <3>1, <3>3
        <4>2. messages[m].seq <= count(c) /\ messages[m].seq \in Nat /\ count(c) \in Nat
          BY <2>1, <2>6, <3>1, <4>1
        <4> QED BY <4>1, <4>2
      <3> QED BY <2>2, <3>2, <3>3
    <2> QED BY <2>8, <2>9 DEF Numbered
  <1>3. UNCHANGED messages \/ \E c \in Conversations : Arrive(c)
    BY DEF Next, vars, serverVars, ServerAck, Start, Acked, List, Commit, CommitRefused,
           Interrupted, Clear, PullStart, PullList, PullCommit, PullEnds
  <1> QED BY <1>1, <1>2, <1>3

\* A message that arrives is behind the stored cursors.
LEMMA SeenArrive ==
  ASSUME Typed, NEW c \in Conversations, Arrive(c)
  PROVE  Seen' = Seen
  <1> DEFINE n == Len(messages) + 1
  <1>0. /\ StoreType /\ Inbox \subseteq Sent /\ Sent \subseteq Nat \ {0} /\ OfGroup \subseteq Sent
        /\ Latest \in Nat /\ cursor \in Nat /\ groupCursor \in Nat /\ groupCursor <= Latest
        /\ cursor \in Sent \union {0}
    BY Parts, RowsTyped DEF Typed, StoreType, OfGroup
  <1>1. /\ Inbox \subseteq Inbox' /\ Inbox' \subseteq Inbox \union {n} /\ n \in Nat \ {0}
        /\ \A m \in Sent : m < n /\ messages'[m] = messages[m]
        /\ \/ OfGroup' = OfGroup
           \/ OfGroup' = OfGroup \union {n} /\ messages'[n].seq = Latest + 1
    BY Arrives, RowsTyped DEF Typed, OfGroup, Latest
  <1>2. UNCHANGED <<cursor, groupCursor>>
    BY DEF Arrive, storeVars
  <1> HIDE DEF n
  <1>3. ~ (n <= cursor) /\ ~ (Latest + 1 <= groupCursor)
    BY <1>0, <1>1
  <1>4. \A m \in OfGroup : MessageSeq(m)' = MessageSeq(m)
    BY <1>0, <1>1 DEF MessageSeq
  <1>5. {m \in Inbox' : m <= cursor} = {m \in Inbox : m <= cursor}
    BY <1>1, <1>3
  <1>6. {m \in OfGroup' : MessageSeq(m)' <= groupCursor} = {m \in OfGroup : MessageSeq(m) <= groupCursor}
    BY <1>1, <1>3, <1>4 DEF MessageSeq
  <1> QED BY <1>2, <1>5, <1>6 DEF Seen

\* A page extends what the cursors stand for by its rows; by no others, unless it
\* tears a gap.
LEMMA SeenCommit ==
  ASSUME Typed, NotAhead, NEW t \in Tabs, Commit(t)
  PROVE  /\ Seen \union Page(t) \subseteq Seen'
         /\ ~ torn' => Seen' = Seen \union Page(t)
  <1>1. /\ upto[t] \in Nat /\ cursor \in Nat /\ at[t] \in Nat /\ cursor <= upto[t] /\ cursor' = upto[t]
        /\ UNCHANGED <<messages, groupCursor>> /\ pc[t] = "commit"
    BY CommitPuts
  <1>2. Inbox \subseteq Nat /\ TabType
    BY Parts, RowsTyped DEF Typed
  <1>3. Inbox' = Inbox /\ OfGroup' = OfGroup /\ \A m : MessageSeq(m)' = MessageSeq(m)
    BY <1>1, Frame DEF MessageSeq
  <1>4. Seen' = {m \in Inbox : m <= upto[t]} \union {m \in OfGroup : MessageSeq(m) <= groupCursor}
    BY <1>1, <1>3 DEF Seen
  <1>5. \A m \in Inbox : (m <= cursor => m <= upto[t]) /\ (m \in Page(t) <=> at[t] < m /\ m <= upto[t])
    <2>1. \A m \in Inbox : m \in Page(t) <=> at[t] < m /\ m <= upto[t]
      BY DEF Page
    <2>2. \A m \in Nat : m <= cursor => m <= upto[t]
      BY <1>1
    <2> QED BY <1>2, <2>1, <2>2
  <1>6. Seen \union Page(t) \subseteq Seen'
    BY <1>4, <1>5 DEF Seen, Page
  <1>7. ASSUME ~ torn' PROVE at[t] <= cursor
    <2>1. ~ (stale[t] /\ at[t] > cursor)
      BY <1>7 DEF Commit
    <2>2. CASE stale[t]
      BY <1>1, <2>1, <2>2
    <2>3. CASE ~ stale[t]
      BY <1>1, <2>3 DEF NotAhead
    <2> QED BY <2>2, <2>3
  <1>8. ASSUME ~ torn' PROVE Seen' \subseteq Seen \union Page(t)
    <2>1. \A m \in Nat : m <= cursor \/ at[t] < m
      BY <1>1, <1>7, <1>8
    <2>2. \A m \in Inbox : m <= upto[t] => m <= cursor \/ m \in Page(t)
      BY <1>2, <1>5, <2>1
    <2> QED BY <1>4, <2>2 DEF Seen
  <1> QED BY <1>6, <1>8

LEMMA SeenPull ==
  ASSUME Typed, NotAhead, NEW p \in Pulls, PullCommit(p)
  PROVE  /\ Seen \union PullPage(p) \subseteq Seen'
         /\ ~ torn' => Seen' = Seen \union PullPage(p)
         /\ ~ torn' => pull[p].at <= groupCursor
         /\ UNCHANGED messages
         /\ \A m \in OfGroup : /\ MessageSeq(m) \in Nat
                               /\ m \in PullPage(p) <=> pull[p].at < MessageSeq(m) /\ MessageSeq(m) <= pull[p].upto
  <1>1. /\ pull[p].upto \in Nat /\ pull[p].at \in Nat /\ groupCursor \in Nat
        /\ groupCursor <= pull[p].upto /\ groupCursor' = pull[p].upto
        /\ UNCHANGED <<messages, cursor>> /\ pull[p].step = "commit"
    BY PullPuts DEF serverVars
  <1>2. \A m \in OfGroup : MessageSeq(m) \in Nat
    BY RowsTyped DEF Typed, OfGroup, OfConv, MessageSeq, MessageType
  <1>3. Inbox' = Inbox /\ OfGroup' = OfGroup /\ \A m : MessageSeq(m)' = MessageSeq(m)
    BY <1>1, Frame DEF MessageSeq
  <1>4. Seen' = {m \in Inbox : m <= cursor} \union {m \in OfGroup : MessageSeq(m) <= pull[p].upto}
    BY <1>1, <1>3 DEF Seen
  <1>5. \A m \in OfGroup : m \in PullPage(p) <=> pull[p].at < MessageSeq(m) /\ MessageSeq(m) <= pull[p].upto
    BY <1>1, <1>2 DEF PullPage
  <1>9. \A m \in OfGroup : MessageSeq(m) <= groupCursor => MessageSeq(m) <= pull[p].upto
    BY <1>1, <1>2
  <1>6. Seen \union PullPage(p) \subseteq Seen'
    BY <1>4, <1>5, <1>9 DEF Seen, PullPage
  <1>7. ASSUME ~ torn' PROVE pull[p].at <= groupCursor
    <2>1. ~ (pull[p].stale /\ pull[p].at > groupCursor)
      BY <1>7 DEF PullCommit
    <2>2. CASE pull[p].stale
      BY <1>1, <2>1, <2>2
    <2>3. CASE ~ pull[p].stale
      BY <1>1, <2>3 DEF NotAhead
    <2> QED BY <2>2, <2>3
  <1>8. ASSUME ~ torn' PROVE Seen' \subseteq Seen \union PullPage(p)
    <2>1. pull[p].at <= groupCursor
      BY <1>7, <1>8
    <2>2. \A m \in OfGroup : MessageSeq(m) <= pull[p].upto => MessageSeq(m) <= groupCursor \/ m \in PullPage(p)
      BY <1>1, <1>2, <1>5, <2>1
    <2> QED BY <1>4, <2>2 DEF Seen
  <1> QED BY <1>1, <1>2, <1>5, <1>6, <1>7, <1>8

\* The rows of a page, and how they are ordered when it is put.
Fits(page, renumbered, k) ==
    /\ \A m \in renumbered : m \in OfGroup /\ MessageSeq(m) <= k
    /\ \A m \in (store \union page) \ renumbered : m \in OfGroup => k < MessageSeq(m)

LEMMA CommitFits ==
  ASSUME Typed, Apart, NEW t \in Tabs, Commit(t)
  PROVE  /\ \A m \in pulled \ Page(t) : m \in OfGroup /\ MessageSeq(m) <= groupCursor
         /\ ~ torn' /\ ~ mixed' => ~ torn /\ ~ mixed /\ Fits(Page(t), pulled \ Page(t), groupCursor)
  <1>1. \A m \in pulled \ Page(t) : m \in OfGroup /\ MessageSeq(m) <= groupCursor
    BY DEF Apart
  <1>2. ASSUME ~ torn', ~ mixed'
        PROVE  ~ torn /\ ~ mixed /\ Fits(Page(t), pulled \ Page(t), groupCursor)
    <2>1. ~ torn /\ ~ mixed /\ \A m \in Page(t) \intersect OfGroup : ~ (MessageSeq(m) <= groupCursor)
      BY <1>2 DEF Commit
    <2>2. groupCursor \in Nat /\ \A m \in OfGroup : MessageSeq(m) \in Nat
      BY CommitPuts, Parts, RowsTyped DEF Typed, StoreType, OfGroup, OfConv, MessageSeq, MessageType
    <2>3. \A m \in Page(t) : m \in OfGroup => groupCursor < MessageSeq(m)
      BY <2>1, <2>2
    <2>4. \A m \in store \ pulled : m \in OfGroup => groupCursor < MessageSeq(m)
      BY <2>1 DEF Apart
    <2> QED BY <1>1, <2>1, <2>3, <2>4 DEF Fits
  <1> QED BY <1>1, <1>2

LEMMA PullFits ==
  ASSUME Typed, NotAhead, Apart, NEW p \in Pulls, PullCommit(p)
  PROVE  /\ \A m \in pulled \union PullPage(p) : m \in OfGroup /\ MessageSeq(m) <= groupCursor'
         /\ ~ torn' /\ ~ mixed' =>
               ~ torn /\ ~ mixed /\ Fits(PullPage(p), pulled \union PullPage(p), groupCursor')
  <1>1. /\ pull[p].upto \in Nat /\ pull[p].at \in Nat /\ groupCursor \in Nat
        /\ groupCursor <= pull[p].upto /\ groupCursor' = pull[p].upto /\ UNCHANGED mixed
    BY PullPuts
  <1>2. /\ ~ torn' => pull[p].at <= groupCursor
        /\ \A m \in OfGroup : /\ MessageSeq(m) \in Nat
                              /\ m \in PullPage(p) <=> pull[p].at < MessageSeq(m) /\ MessageSeq(m) <= pull[p].upto
    BY SeenPull
  <1>3. PullPage(p) \subseteq OfGroup
    BY DEF PullPage
  <1>4. \A m \in pulled \union PullPage(p) : m \in OfGroup /\ MessageSeq(m) <= groupCursor'
    <2>1. \A m \in pulled : m \in OfGroup /\ MessageSeq(m) <= groupCursor
      BY DEF Apart
    <2>2. \A k \in Nat : k <= groupCursor => k <= groupCursor'
      BY <1>1
    <2> SUFFICES ASSUME NEW m \in pulled \union PullPage(p)
                 PROVE  m \in OfGroup /\ MessageSeq(m) <= groupCursor'
      OBVIOUS
    <2>3. CASE m \in pulled
      <3>1. m \in OfGroup /\ MessageSeq(m) <= groupCursor
        BY <2>1, <2>3
      <3>2. MessageSeq(m) \in Nat
        BY <1>2, <3>1
      <3> QED BY <2>2, <3>1, <3>2
    <2>4. CASE m \in PullPage(p)
      <3>1. m \in OfGroup
        BY <1>3, <2>4
      <3>2. MessageSeq(m) <= pull[p].upto
        BY <1>2, <2>4, <3>1
      <3> QED BY <1>1, <3>1, <3>2
    <2> QED BY <2>3, <2>4
  <1>5. ASSUME ~ torn', ~ mixed'
        PROVE  ~ torn /\ ~ mixed /\ Fits(PullPage(p), pulled \union PullPage(p), groupCursor')
    <2>1. ~ torn /\ ~ mixed
      <3>1. torn' = (torn \/ (pull[p].stale /\ pull[p].at > groupCursor))
        BY DEF PullCommit
      <3> QED BY <1>1, <1>5, <3>1
    <2>2. \A m \in store \ pulled : m \in OfGroup => groupCursor < MessageSeq(m)
      BY <2>1 DEF Apart
    <2>3. \A m \in (store \union PullPage(p)) \ (pulled \union PullPage(p)) :
             m \in OfGroup => groupCursor' < MessageSeq(m)
      <3>1. \A k \in Nat : groupCursor < k => pull[p].at < k
        BY <1>1, <1>2, <1>5
      <3>2. \A k \in Nat : ~ (k <= groupCursor') => groupCursor' < k
        BY <1>1
      <3> SUFFICES ASSUME NEW m \in (store \union PullPage(p)) \ (pulled \union PullPage(p)), m \in OfGroup
                   PROVE  groupCursor' < MessageSeq(m)
        OBVIOUS
      <3>3. groupCursor < MessageSeq(m) /\ MessageSeq(m) \in Nat /\ m \notin PullPage(p)
        BY <1>2, <2>2
      <3>4. ~ (MessageSeq(m) <= pull[p].upto)
        BY <1>2, <3>1, <3>3
      <3> QED BY <1>1, <3>2, <3>3, <3>4
    <2> QED BY <1>4, <2>1, <2>3 DEF Fits
  <1> QED BY <1>4, <1>5

LEMMA ApartStep == Typed /\ NotAhead /\ Apart /\ [Next]_vars => Apart'
  <1> SUFFICES ASSUME Typed, NotAhead, Apart, [Next]_vars PROVE Apart'
    OBVIOUS
  <1>1. ASSUME UNCHANGED storeVars, Seen' = Seen,
               \A m \in OfGroup : m \in OfGroup' /\ MessageSeq(m)' = MessageSeq(m),
               \A m \in store : m \in OfGroup' => m \in OfGroup
        PROVE  Apart'
    BY <1>1 DEF Apart, storeVars
  <1>2. ASSUME NEW c \in Conversations, Arrive(c) PROVE Apart'
    <2>1. UNCHANGED storeVars
      BY <1>2 DEF Arrive
    <2>2. Seen' = Seen
      BY <1>2, SeenArrive
    <2>3. /\ \A m \in Sent : messages'[m] = messages[m]
          /\ Sent' = Sent \union {Len(messages) + 1} /\ OfGroup \subseteq Sent
      BY <1>2, Arrives, RowsTyped DEF Typed, OfGroup
    <2>4. store \subseteq Sent
      BY Parts DEF StoreType
    <2>5. \A m \in Sent : (m \in OfGroup' <=> m \in OfGroup) /\ MessageSeq(m)' = MessageSeq(m)
      BY <2>3 DEF OfGroup, OfConv, MessageSeq
    <2> QED BY <1>1, <2>1, <2>2, <2>3, <2>4, <2>5
  <1>3. ASSUME UNCHANGED <<messages, storeVars>> PROVE Apart'
    BY <1>1, <1>3 DEF Seen, storeVars, Inbox, OfGroup, OfConv, Sent, MessageSeq
  <1>4. ASSUME NEW t \in Tabs, Commit(t) PROVE Apart'
    <2>1. /\ Put(Page(t), pulled \ Page(t)) /\ Page(t) \in SUBSET Sent
          /\ pulled \ Page(t) \subseteq store \union Page(t)
          /\ UNCHANGED <<messages, groupCursor>>
      BY <1>4, CommitPuts
    <2>2. /\ pulled' = (pulled \ Page(t)) \ Evict(store \union Page(t), pulled \ Page(t))
          /\ store' = (store \union Page(t)) \ Evict(store \union Page(t), pulled \ Page(t))
      BY <2>1 DEF Put
    <2>3. OfGroup' = OfGroup /\ \A m : MessageSeq(m)' = MessageSeq(m)
      BY <2>1, Frame DEF MessageSeq
    <2>4. store' \subseteq Seen'
      BY <1>4, <2>2, SeenCommit DEF Apart
    <2>5. \A m \in pulled' : m \in OfGroup' /\ MessageSeq(m)' <= groupCursor'
      BY <1>4, <2>1, <2>2, <2>3, CommitFits
    <2>6. ASSUME ~ torn', ~ mixed', NEW m \in store' \ pulled', m \in OfGroup'
          PROVE  groupCursor' < MessageSeq(m)'
      <3>1. Fits(Page(t), pulled \ Page(t), groupCursor)
        BY <1>4, <2>6, CommitFits
      <3>2. m \in (store \union Page(t)) \ (pulled \ Page(t))
        BY <2>2
      <3> QED BY <2>1, <2>3, <2>6, <3>1, <3>2 DEF Fits
    <2> QED BY <2>4, <2>5, <2>6 DEF Apart
  <1>5. ASSUME NEW p \in Pulls, PullCommit(p) PROVE Apart'
    <2>1. /\ Put(PullPage(p), pulled \union PullPage(p)) /\ PullPage(p) \in SUBSET Sent
          /\ UNCHANGED messages
      BY <1>5, PullPuts DEF serverVars
    <2>2. /\ pulled' = (pulled \union PullPage(p)) \ Evict(store \union PullPage(p), pulled \union PullPage(p))
          /\ store' = (store \union PullPage(p)) \ Evict(store \union PullPage(p), pulled \union PullPage(p))
      BY <2>1 DEF Put
    <2>3. OfGroup' = OfGroup /\ \A m : MessageSeq(m)' = MessageSeq(m)
      BY <2>1, Frame DEF MessageSeq
    <2>4. store' \subseteq Seen'
      BY <1>5, <2>2, SeenPull DEF Apart
    <2>5. \A m \in pulled' : m \in OfGroup' /\ MessageSeq(m)' <= groupCursor'
      BY <1>5, <2>2, <2>3, PullFits
    <2>6. ASSUME ~ torn', ~ mixed', NEW m \in store' \ pulled', m \in OfGroup'
          PROVE  groupCursor' < MessageSeq(m)'
      <3>1. Fits(PullPage(p), pulled \union PullPage(p), groupCursor')
        BY <1>5, <2>6, PullFits
      <3>2. m \in (store \union PullPage(p)) \ (pulled \union PullPage(p))
        BY <2>2
      <3> QED BY <2>3, <2>6, <3>1, <3>2 DEF Fits
    <2> QED BY <2>4, <2>5, <2>6 DEF Apart
  <1>6. ASSUME NEW t \in Tabs, Clear(t) PROVE Apart'
    BY <1>6 DEF Clear, Apart
  <1>7. UNCHANGED messages \/ \E c \in Conversations : Arrive(c)
    BY DEF Next, vars, serverVars, ServerAck, Start, Acked, List, Commit, CommitRefused,
           Interrupted, Clear, PullStart, PullList, PullCommit, PullEnds
  <1> QED BY <1>2, <1>3, <1>4, <1>5, <1>6, <1>7, StoreSteps

\* Within a conversation the order of eviction is the order of the messages.
LEMMA SameOrder ==
  ASSUME TypeOK, Numbered, NEW page \in SUBSET Sent, NEW renumbered, NEW k \in Nat, Fits(page, renumbered, k),
         NEW q \in store \union page, NEW r \in store \union page,
         messages[q].conv = messages[r].conv, q < r
  PROVE  Precedes(q, r, renumbered)
  <1>1. /\ q \in Sent /\ r \in Sent /\ Sent \subseteq Nat
        /\ MessageSeq(q) \in Nat /\ MessageSeq(r) \in Nat /\ Ahead \in Nat
    <2>1. store \subseteq Sent /\ MaxSeq \in Nat
      BY DEF TypeOK
    <2>2. q \in Sent /\ r \in Sent
      BY <2>1
    <2>3. messages[q] \in MessageType /\ messages[r] \in MessageType
      BY <2>2, RowsTyped
    <2>4. Sent \subseteq Nat
      BY RowsTyped
    <2>5. MessageSeq(q) \in Nat /\ MessageSeq(r) \in Nat
      BY <2>1, <2>3 DEF MessageSeq, MessageType
    <2>6. Ahead \in Nat
      OBVIOUS
    <2> QED BY <2>2, <2>4, <2>5, <2>6
  <1>2. MessageSeq(q) < MessageSeq(r) /\ MessageSeq(q) <= q
    BY <1>1 DEF Numbered, MessageSeq
  <1>3. CASE q \in renumbered /\ r \in renumbered
    BY <1>2, <1>3 DEF Precedes
  <1>4. CASE q \in renumbered /\ r \notin renumbered
    BY <1>1, <1>2, <1>4 DEF Precedes
  <1>5. CASE q \notin renumbered /\ r \in renumbered
    <2>1. r \in OfGroup /\ MessageSeq(r) <= k
      BY <1>5 DEF Fits
    <2>2. q \in OfGroup
      BY <1>1, <2>1 DEF OfGroup, OfConv
    <2>3. k < MessageSeq(q)
      BY <1>5, <2>2 DEF Fits
    <2> QED BY <1>1, <1>2, <2>1, <2>3
  <1>6. CASE q \notin renumbered /\ r \notin renumbered
    BY <1>1, <1>6 DEF Precedes
  <1> QED BY <1>3, <1>4, <1>5, <1>6

\* The newest row of every conversation that the cursors stand for is stored.
Newest(seen, rows) ==
    \A c \in Convs(seen) : \E s \in rows :
        messages[s].conv = c /\ \A m \in seen : m > s => messages[m].conv # c

Fitting(seen) == MinPerConversation > 0 /\ Cardinality(Convs(seen)) * MinPerConversation <= LowWater

LEMMA PutKeeps ==
  ASSUME Typed, Numbered, Apart, NEW page \in SUBSET Sent, NEW renumbered, NEW k \in Nat,
         Fits(page, renumbered, k), Put(page, renumbered),
         Fitting(Seen \union page), Newest(Seen, store)
  PROVE  Newest(Seen \union page, store')
  <1> DEFINE seen == Seen \union page
             rows == store \union page
  <1>1. /\ TypeOK /\ store \subseteq Sent /\ store \subseteq Seen /\ IsFiniteSet(Sent) /\ Sent \subseteq Nat
    BY RowsTyped DEF Typed, TypeOK, Apart
  <1>2. Seen \in SUBSET Sent
    BY RowsTyped DEF Typed, Seen, OfGroup
  <1>3. seen \in SUBSET Sent /\ rows \in SUBSET Sent /\ rows \subseteq seen /\ page \subseteq rows
    BY <1>1, <1>2
  <1>4. IsFiniteSet(Convs(seen)) /\ \A r \in rows : messages[r].conv \in Convs(seen)
    <2>1. IsFiniteSet(seen)
      BY <1>1, <1>3, FS_Subset
    <2>2. IsFiniteSet(Convs(seen))
      BY <2>1, ConvsFinite
    <2>3. \A r \in seen : messages[r].conv \in Convs(seen)
      BY DEF Convs
    <2> QED BY <1>3, <2>2, <2>3
  <1>5. store' = rows \ Evict(rows, renumbered)
    BY DEF Put
  <1> SUFFICES ASSUME NEW c \in Convs(seen)
               PROVE  \E s \in store' : messages[s].conv = c /\ \A m \in seen : m > s => messages[m].conv # c
    BY DEF Newest
  <1> DEFINE own == {r \in rows : messages[r].conv = c}
  <1>6. \A m \in seen : messages[m].conv = c => \E r \in own : m <= r
    <2> SUFFICES ASSUME NEW m \in seen, messages[m].conv = c PROVE \E r \in own : m <= r
      OBVIOUS
    <2>1. m \in Nat
      BY <1>1, <1>3
    <2>2. CASE m \in page
      <3>1. m \in own /\ m <= m
        BY <2>1, <2>2
      <3> QED BY <3>1
    <2>3. CASE m \in Seen
      <3>1. c \in Convs(Seen)
        BY <2>3 DEF Convs
      <3>2. PICK s \in store : messages[s].conv = c /\ \A x \in Seen : x > s => messages[x].conv # c
        BY <3>1 DEF Newest
      <3>3. ~ (m > s)
        BY <2>3, <3>2
      <3>4. s \in own /\ s \in Nat
        BY <1>1, <3>2
      <3>5. m <= s
        BY <2>1, <3>3, <3>4
      <3> QED BY <3>4, <3>5
    <2> QED BY <2>2, <2>3
  <1>7. own \in SUBSET Nat /\ IsFiniteSet(own) /\ own # {}
    <2>1. own \in SUBSET Sent
      BY <1>3
    <2>2. \E m \in seen : messages[m].conv = c
      BY DEF Convs
    <2> HIDE DEF own, seen
    <2> QED BY <1>1, <1>6, <2>1, <2>2, FS_Subset
  <1>8. Max(own) \in own /\ \A r \in own : r <= Max(own)
    <2> HIDE DEF own
    <2> QED BY <1>7, MaxNumber
  <1>9. PICK s \in own : \A r \in own : r <= s
    BY <1>8
  <1>10. Later(s, rows, renumbered) = {}
    <2> SUFFICES ASSUME NEW q \in rows, messages[q].conv = messages[s].conv, Precedes(s, q, renumbered)
                 PROVE  FALSE
      BY DEF Later
    <2>1. q \in own /\ s \in rows /\ s \in Sent /\ q \in Sent
      BY <1>3
    <2>2. q <= s /\ q \in Nat /\ s \in Nat
      BY <1>7, <1>9, <2>1
    <2>3. q # s
      BY <1>1, <2>1, PrecedesOrders
    <2>4. q < s
      BY <2>2, <2>3
    <2>5. Precedes(q, s, renumbered)
      BY <1>1, <2>1, <2>4, SameOrder
    <2> QED BY <1>1, <2>1, <2>5, PrecedesOrders
  <1>11. s \notin Evict(rows, renumbered)
    <2>1. MinPerConversation > 0 /\ Cardinality(Convs(seen)) * MinPerConversation <= LowWater
      BY DEF Fitting
    <2>2. s \in rows
      OBVIOUS
    <2> HIDE DEF rows, seen, own
    <2> QED BY <1>1, <1>3, <1>4, <1>10, <2>1, <2>2, NewestStays
  <1>12. s \in store' /\ messages[s].conv = c
    BY <1>5, <1>11
  <1>13. \A m \in seen : m > s => messages[m].conv # c
    <2> SUFFICES ASSUME NEW m \in seen, m > s, messages[m].conv = c PROVE FALSE
      OBVIOUS
    <2>1. PICK r \in own : m <= r
      BY <1>6
    <2>2. r <= s /\ r \in Nat /\ s \in Nat /\ m \in Nat
      BY <1>1, <1>3, <1>7, <1>9, <2>1
    <2> HIDE DEF own, seen
    <2> QED BY <2>1, <2>2
  <1> QED BY <1>12, <1>13

LEMMA FewerFit ==
  ASSUME NEW S, NEW T, S \subseteq T, IsFiniteSet(T), Fitting(T)
  PROVE  Fitting(S)
  <1>1. Convs(S) \in SUBSET Convs(T)
    BY DEF Convs
  <1>2. IsFiniteSet(Convs(T))
    BY ConvsFinite
  <1>3. /\ Cardinality(Convs(S)) <= Cardinality(Convs(T))
        /\ Cardinality(Convs(S)) \in Nat /\ Cardinality(Convs(T)) \in Nat
    BY <1>1, <1>2, FS_Subset, FS_CardinalityType
  <1>4. \A a \in Nat, b \in Nat, k \in Nat, l \in Nat : a <= b /\ b * k <= l => a * k <= l
    <2> SUFFICES ASSUME NEW a \in Nat, NEW b \in Nat, NEW k \in Nat, NEW l \in Nat, a <= b, b * k <= l
                 PROVE  a * k <= l
      OBVIOUS
    <2>1. (b - a) \in Nat /\ b = a + (b - a)
      OBVIOUS
    <2>2. \A d \in Nat : (a + d) * k = a * k + d * k /\ d * k >= 0 /\ d * k \in Nat
      OBVIOUS
    <2>3. b * k = a * k + (b - a) * k
      BY <2>1, <2>2
    <2>4. (b - a) * k \in Nat /\ a * k \in Nat /\ b * k \in Nat
      BY <2>1, <2>2
    <2>5. \A x, y, z \in Nat : z = x + y /\ z <= l => x <= l
      OBVIOUS
    <2> QED BY <2>3, <2>4, <2>5
  <1>5. MinPerConversation \in Nat /\ LowWater \in Nat
    OBVIOUS
  <1> QED BY <1>3, <1>4, <1>5 DEF Fitting

LEMMA KeptMeans ==
  NewestKept <=> (Fitting(Seen) /\ ~ torn /\ ~ mixed => Newest(Seen, store))
  BY DEF NewestKept, Fitting, Newest, Convs, Seen

LEMMA KeptStep ==
  Typed /\ NotAhead /\ Numbered /\ Apart /\ NewestKept /\ [Next]_vars => NewestKept'
  <1> SUFFICES ASSUME Typed, NotAhead, Numbered, Apart, NewestKept, [Next]_vars PROVE NewestKept'
    OBVIOUS
  <1>0. /\ store \subseteq Sent /\ IsFiniteSet(Sent) /\ Seen \subseteq Sent
        /\ groupCursor \in Nat
    BY Parts, RowsTyped DEF Typed, StoreType, Seen, OfGroup
  <1>1. ASSUME UNCHANGED storeVars, Seen' = Seen, \A m \in Seen \union store : messages'[m] = messages[m]
        PROVE  NewestKept'
    <2>1. Convs(Seen)' = Convs(Seen)
      BY <1>1 DEF Convs
    <2>2. Fitting(Seen)' <=> Fitting(Seen)
      BY <2>1 DEF Fitting
    <2>3. Newest(Seen, store) => Newest(Seen, store)'
      BY <1>1, <2>1 DEF Newest, storeVars
    <2>4. UNCHANGED <<torn, mixed>>
      BY <1>1 DEF storeVars
    <2>5. (Fitting(Seen) /\ ~ torn /\ ~ mixed => Newest(Seen, store))'
      BY <2>2, <2>3, <2>4, KeptMeans
    <2> QED BY <2>5, KeptMeans, PTL
  <1>2. ASSUME NEW c \in Conversations, Arrive(c) PROVE NewestKept'
    <2>1. UNCHANGED storeVars
      BY <1>2 DEF Arrive
    <2>2. Seen' = Seen /\ \A m \in Sent : messages'[m] = messages[m]
      BY <1>2, SeenArrive, Arrives DEF Typed
    <2> QED BY <1>0, <1>1, <2>1, <2>2
  <1>3. ASSUME UNCHANGED <<messages, storeVars>> PROVE NewestKept'
    BY <1>1, <1>3 DEF Seen, storeVars, Inbox, OfGroup, OfConv, Sent, MessageSeq
  <1>4. ASSUME UNCHANGED messages, ~ torn', ~ mixed', ~ torn, ~ mixed,
               NEW page \in SUBSET Sent, NEW renumbered, NEW k \in Nat,
               Fits(page, renumbered, k), Put(page, renumbered),
               Seen' = Seen \union page, Fitting(Seen')
        PROVE  Newest(Seen', store')
    <2>1. Seen \subseteq Seen' /\ IsFiniteSet(Seen')
      <3>1. Seen' \in SUBSET Sent
        BY <1>0, <1>4
      <3> QED BY <1>0, <1>4, <3>1, FS_Subset
    <2>2. Fitting(Seen)
      BY <1>4, <2>1, FewerFit
    <2>3. Newest(Seen, store)
      BY <1>4, <2>2, KeptMeans
    <2>4. Fitting(Seen \union page)
      BY <1>4
    <2>5. Newest(Seen \union page, store')
      BY <1>4, <2>3, <2>4, PutKeeps
    <2> QED BY <1>4, <2>5
  <1>5. ASSUME UNCHANGED messages, ~ torn' /\ ~ mixed' /\ Fitting(Seen') => Newest(Seen', store')
        PROVE  NewestKept'
    <2>1. /\ Fitting(Seen)' <=> Fitting(Seen')
          /\ Newest(Seen, store)' <=> Newest(Seen', store')
      BY <1>5 DEF Fitting, Newest, Convs
    <2>2. (Fitting(Seen) /\ ~ torn /\ ~ mixed => Newest(Seen, store))'
      BY <1>5, <2>1
    <2> QED BY <2>2, KeptMeans, PTL
  <1>6. ASSUME NEW t \in Tabs, Commit(t) PROVE NewestKept'
    <2>1. Put(Page(t), pulled \ Page(t)) /\ Page(t) \in SUBSET Sent /\ UNCHANGED messages
      BY <1>6, CommitPuts
    <2>2. ASSUME ~ torn', ~ mixed', Fitting(Seen') PROVE Newest(Seen', store')
      <3>1. ~ torn /\ ~ mixed /\ Fits(Page(t), pulled \ Page(t), groupCursor)
        BY <1>6, <2>2, CommitFits
      <3>2. Seen' = Seen \union Page(t)
        BY <1>6, <2>2, SeenCommit
      <3> QED BY <1>0, <1>4, <2>1, <2>2, <3>1, <3>2
    <2> QED BY <1>5, <2>1, <2>2
  <1>7. ASSUME NEW p \in Pulls, PullCommit(p) PROVE NewestKept'
    <2>1. /\ Put(PullPage(p), pulled \union PullPage(p)) /\ PullPage(p) \in SUBSET Sent
          /\ UNCHANGED messages /\ groupCursor' \in Nat
      BY <1>7, PullPuts DEF serverVars
    <2>2. ASSUME ~ torn', ~ mixed', Fitting(Seen') PROVE Newest(Seen', store')
      <3>1. ~ torn /\ ~ mixed /\ Fits(PullPage(p), pulled \union PullPage(p), groupCursor')
        BY <1>7, <2>2, PullFits
      <3>2. Seen' = Seen \union PullPage(p)
        BY <1>7, <2>2, SeenPull
      <3> QED BY <1>4, <2>1, <2>2, <3>1, <3>2
    <2> QED BY <1>5, <2>1, <2>2
  <1>8. ASSUME NEW t \in Tabs, Clear(t) PROVE NewestKept'
    <2>1. UNCHANGED messages /\ cursor' = 0 /\ groupCursor' = 0
      BY <1>8 DEF Clear, serverVars
    <2>2. Inbox' = Inbox /\ OfGroup' = OfGroup /\ \A m : MessageSeq(m)' = MessageSeq(m)
      BY <2>1, Frame DEF MessageSeq
    <2>3. \A m \in Inbox : ~ (m <= 0)
      BY RowsTyped DEF Typed
    <2>4. \A m \in OfGroup : ~ (MessageSeq(m) <= 0)
      BY RowsTyped DEF Typed, OfGroup, OfConv, MessageSeq, MessageType
    <2>5. Seen' = {}
      BY <2>1, <2>2, <2>3, <2>4 DEF Seen
    <2>6. Newest(Seen', store')
      BY <2>5 DEF Newest, Convs
    <2> QED BY <1>5, <2>1, <2>6
  <1>9. UNCHANGED messages \/ \E c \in Conversations : Arrive(c)
    BY DEF Next, vars, serverVars, ServerAck, Start, Acked, List, Commit, CommitRefused,
           Interrupted, Clear, PullStart, PullList, PullCommit, PullEnds
  <1> QED BY <1>2, <1>3, <1>6, <1>7, <1>8, <1>9, StoreSteps

LEMMA KeptInit == Init => Numbered /\ Apart /\ NewestKept
  <1> SUFFICES ASSUME Init PROVE Numbered /\ Apart /\ NewestKept
    OBVIOUS
  <1>1. DOMAIN messages = {}
    BY DEF Init
  <1>2. Sent = {} /\ Inbox = {} /\ OfGroup = {}
    BY <1>1 DEF Inbox, OfGroup, OfConv, Sent
  <1>3. Seen = {} /\ store = {} /\ pulled = {}
    BY <1>2 DEF Seen, Init
  <1>4. Newest(Seen, store)
    BY <1>3 DEF Newest, Convs
  <1> QED BY <1>2, <1>3, <1>4, KeptMeans DEF Numbered, Apart

\* Of every conversation that the cursors stand for the newest message is in the
\* store, whatever was evicted, as long as an eviction leaves room for the rows
\* that it spares first and the inbox brought no message of the group again that
\* a pull had brought (evictIfNeeded, commitPage, commitGroupPage).
THEOREM NewestStored == Spec => []NewestKept
  BY TypedInit, TypedStep, GapsInit, NotAheadStep, NumberedStep, ApartStep, KeptInit, KeptStep, PTL DEF Spec
=============================================================================
