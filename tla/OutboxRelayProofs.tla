------------------------- MODULE OutboxRelayProofs -------------------------
(***************************************************************************)
(* Proofs about OutboxRelay for any rows, relays, batch size and number of *)
(* faults: its type invariant, that a published row was written, that the  *)
(* copies of an event are paid for, and that published is final unless a   *)
(* claim was taken over.                                                   *)
(***************************************************************************)
EXTENDS OutboxRelay, FiniteSetTheorems, TLAPS

USE OutboxAssumption DEF OutboxAssumption

-----------------------------------------------------------------------------
(* Type correctness *)

LEMMA TypeInit == Init => TypeOK
  BY DEF Init, TypeOK

LEMMA TypeStep == TypeOK /\ [Next]_vars => TypeOK'
  <1> SUFFICES ASSUME TypeOK, [Next]_vars PROVE TypeOK'
    OBVIOUS
  <1> USE DEF TypeOK, rowVars, relayVars, countVars
  <1>1. ASSUME NEW e \in Events, Enqueue(e) PROVE TypeOK'
    BY <1>1 DEF Enqueue
  <1>2. ASSUME NEW e \in Events, LeaseRunsOut(e) PROVE TypeOK'
    BY <1>2 DEF LeaseRunsOut
  <1>3. ASSUME NEW e \in Events, LeaseOverrun(e) PROVE TypeOK'
    BY <1>3 DEF LeaseOverrun, Fault
  <1>4. ASSUME NEW e \in Events, RetryDelayEnds(e) PROVE TypeOK'
    BY <1>4 DEF RetryDelayEnds
  <1>5. ASSUME NEW r \in Relays, ClaimPendingBatch(r) PROVE TypeOK'
    <2>1. PICK batch \in SUBSET Events :
            /\ todo' = [todo EXCEPT ![r] = batch]
            /\ status' = [e \in Events |-> IF e \in batch THEN "processing" ELSE status[e]]
            /\ stale' = [e \in Events |-> stale[e] /\ e \notin batch]
            /\ reclaims' = [e \in Events |-> IF e \in batch /\ stale[e]
                                             THEN reclaims[e] + 1 ELSE reclaims[e]]
      BY <1>5 DEF ClaimPendingBatch
    <2>2. UNCHANGED <<waiting, outcome, written, ambiguous, faults>>
      BY <1>5 DEF ClaimPendingBatch
    <2>3. stale' \in [Events -> BOOLEAN] /\ \A e \in Events : stale'[e] => status'[e] = "processing"
      BY <2>1
    <2>4. reclaims' \in [Events -> Nat] /\ todo' \in [Relays -> SUBSET Events]
      BY <2>1
    <2> QED BY <2>1, <2>2, <2>3, <2>4
  <1>6. ASSUME NEW r \in Relays, DecodeFails(r) PROVE TypeOK'
    BY <1>6 DEF DecodeFails, MarkRetry, Drop
  <1>7. ASSUME NEW r \in Relays, PublishSucceeds(r) PROVE TypeOK'
    BY <1>7 DEF PublishSucceeds
  <1>8. ASSUME NEW r \in Relays, PublishFails(r) PROVE TypeOK'
    BY <1>8 DEF PublishFails, Fault
  <1>9. ASSUME NEW r \in Relays, Record(r) PROVE TypeOK'
    <2>1. PICK e \in Events :
            /\ IF outcome[r] = "ok" THEN MarkPublished(e) ELSE MarkRetry(e)
            /\ Drop(r, e)
      BY <1>9 DEF Record
    <2>2. UNCHANGED <<countVars, faults>>
      BY <1>9 DEF Record
    <2>3. MarkPublished(e) \/ MarkRetry(e)
      BY <2>1
    <2>4. /\ status' \in [Events -> {"absent", "pending", "processing", "published"}]
          /\ waiting' \in [Events -> BOOLEAN]
          /\ stale' \in [Events -> BOOLEAN]
          /\ \A f \in Events : stale'[f] => status'[f] = "processing"
      <3>1. /\ status \in [Events -> {"absent", "pending", "processing", "published"}]
            /\ waiting \in [Events -> BOOLEAN] /\ stale \in [Events -> BOOLEAN]
            /\ \A f \in Events : stale[f] => status[f] = "processing"
        OBVIOUS
      <3>2. CASE MarkPublished(e)
        <4>1. status' \in [Events -> {"absent", "pending", "processing", "published"}]
          BY <3>1, <3>2 DEF MarkPublished
        <4>2. waiting' \in [Events -> BOOLEAN] /\ stale' \in [Events -> BOOLEAN]
          BY <3>1, <3>2 DEF MarkPublished
        <4>3. \A f \in Events : stale'[f] => status'[f] = "processing"
          BY <3>1, <3>2 DEF MarkPublished
        <4> QED BY <4>1, <4>2, <4>3
      <3>3. CASE MarkRetry(e)
        <4>1. status' \in [Events -> {"absent", "pending", "processing", "published"}]
          BY <3>1, <3>3 DEF MarkRetry
        <4>2. waiting' \in [Events -> BOOLEAN] /\ stale' \in [Events -> BOOLEAN]
          BY <3>1, <3>3 DEF MarkRetry
        <4>3. \A f \in Events : stale'[f] => status'[f] = "processing"
          BY <3>1, <3>3 DEF MarkRetry
        <4> QED BY <4>1, <4>2, <4>3
      <3> QED BY <2>3, <3>2, <3>3
    <2>5. /\ todo' \in [Relays -> SUBSET Events]
          /\ outcome' \in [Relays -> {"none", "ok", "error"}]
      BY <2>1 DEF Drop
    <2> QED BY <2>2, <2>4, <2>5
  <1>10. ASSUME NEW r \in Relays, RecordFails(r) PROVE TypeOK'
    BY <1>10 DEF RecordFails, Fault, Drop
  <1>11. ASSUME NEW r \in Relays, Crash(r) PROVE TypeOK'
    BY <1>11 DEF Crash, Fault
  <1>12. CASE UNCHANGED vars
    BY <1>12 DEF vars
  <1> QED
    BY <1>1, <1>2, <1>3, <1>4, <1>5, <1>6, <1>7, <1>8, <1>9, <1>10, <1>11, <1>12 DEF Next, Flush

\* Rows, claims and counters always have their types, whatever crashes, fails
\* or is overrun.
THEOREM TypeCorrect == Spec => []TypeOK
  BY TypeInit, TypeStep, PTL DEF Spec

-----------------------------------------------------------------------------
(* Copies and verdicts.                                                    *)
(*                                                                         *)
(* DuplicatesArePaidFor is not inductive: it does not say who may still    *)
(* write an event.  A claim entitles a relay to one write, and a row that  *)
(* can be claimed for the first time, or again after its verdict, is as    *)
(* good as a claim.  With both counted the sum grows only when a lapsed    *)
(* lease or a lost acknowledgement pays for it.                            *)

Done(r, e) == AtHead(r, e) /\ outcome[r] = "ok"

Entitled(e) == {r \in Relays : e \in todo[r] /\ ~Done(r, e)}

Open(e) == IF status[e] \in {"absent", "pending"} THEN 1 ELSE 0

Budget(e) ==
    /\ IsFiniteSet(Entitled(e))
    /\ written[e] + Cardinality(Entitled(e)) + Open(e) <= 1 + reclaims[e] + ambiguous[e]

\* What is recorded, or about to be recorded, as published was acknowledged,
\* and a relay has a verdict only on the event at the head of its batch.
Verdicts ==
    /\ \A e \in Events : ambiguous[e] <= written[e]
    /\ \A e \in Events : status[e] = "published" => ambiguous[e] < written[e]
    /\ \A r \in Relays, e \in Events : Done(r, e) => ambiguous[e] < written[e]
    /\ \A r \in Relays : todo[r] = {} => outcome[r] = "none"
    /\ \A r \in Relays, e \in Poison : AtHead(r, e) => outcome[r] = "none"

RelayInv == Verdicts /\ \A e \in Events : Budget(e)

LEMMA Fewer ==
  ASSUME NEW S, IsFiniteSet(S), NEW T, T \subseteq S
  PROVE  /\ IsFiniteSet(T) /\ Cardinality(T) \in Nat /\ Cardinality(S) \in Nat
         /\ Cardinality(T) <= Cardinality(S)
  BY FS_Subset, FS_CardinalityType

LEMMA FewerByOne ==
  ASSUME NEW S, IsFiniteSet(S), NEW T, NEW x \in S, T \subseteq S \ {x}
  PROVE  /\ IsFiniteSet(T) /\ Cardinality(T) \in Nat /\ Cardinality(S) \in Nat
         /\ Cardinality(T) + 1 <= Cardinality(S)
  <1>1. IsFiniteSet(S \ {x}) /\ Cardinality(S \ {x}) = Cardinality(S) - 1
    BY FS_RemoveElement
  <1>2. IsFiniteSet(T) /\ Cardinality(T) <= Cardinality(S \ {x})
    BY <1>1, FS_Subset
  <1> QED BY <1>1, <1>2, FS_CardinalityType

LEMMA OneMore ==
  ASSUME NEW S, IsFiniteSet(S), NEW T, NEW x, T \subseteq S \union {x}
  PROVE  /\ IsFiniteSet(T) /\ Cardinality(T) \in Nat /\ Cardinality(S) \in Nat
         /\ Cardinality(T) <= Cardinality(S) + 1
  <1>0. Cardinality(S) \in Nat
    BY FS_CardinalityType
  <1>1. /\ IsFiniteSet(S \union {x})
        /\ Cardinality(S \union {x}) <= Cardinality(S) + 1
    <2>1. /\ IsFiniteSet(S \union {x})
          /\ \/ Cardinality(S \union {x}) = Cardinality(S)
             \/ Cardinality(S \union {x}) = Cardinality(S) + 1
      BY FS_AddElement
    <2> QED BY <1>0, <2>1
  <1>2. IsFiniteSet(T) /\ Cardinality(T) <= Cardinality(S \union {x})
    BY <1>1, FS_Subset
  <1> QED BY <1>1, <1>2, FS_CardinalityType

LEMMA OneHead ==
  ASSUME NEW r \in Relays, NEW e \in Events, NEW f \in Events, AtHead(r, e), AtHead(r, f)
  PROVE  e = f
  <1>1. e \in Nat /\ f \in Nat /\ e <= f /\ f <= e
    BY DEF AtHead
  <1> QED BY <1>1

\* Dropping the head gives a relay no new entitlement, and takes one away if
\* its event was not acknowledged.
LEMMA DropEntitles ==
  ASSUME TypeOK, NEW r \in Relays, NEW e \in Events, AtHead(r, e), Drop(r, e)
  PROVE  /\ \A f \in Events : Entitled(f)' \subseteq Entitled(f)
         /\ outcome[r] # "ok" => r \in Entitled(e) /\ Entitled(e)' \subseteq Entitled(e) \ {r}
         /\ todo'[r] = todo[r] \ {e} /\ outcome'[r] = "none"
         /\ \A q \in Relays \ {r} : todo'[q] = todo[q] /\ outcome'[q] = outcome[q]
  <1>1. /\ todo'[r] = todo[r] \ {e} /\ outcome'[r] = "none"
        /\ \A q \in Relays \ {r} : todo'[q] = todo[q] /\ outcome'[q] = outcome[q]
    BY DEF Drop, TypeOK
  <1>2. ASSUME NEW f \in Events, NEW q \in Entitled(f)' PROVE q \in Entitled(f)
    <2>1. CASE q = r
      <3>1. f \in todo[r] /\ f # e
        BY <1>1, <2>1, <1>2 DEF Entitled
      <3> QED BY <2>1, <3>1, OneHead DEF Entitled, Done
    <2>2. CASE q # r
      BY <1>1, <2>2, <1>2 DEF Entitled, Done, AtHead
    <2> QED BY <2>1, <2>2
  <1>3. outcome[r] # "ok" => r \in Entitled(e)
    BY DEF Entitled, Done, AtHead
  <1>4. r \notin Entitled(e)'
    BY <1>1 DEF Entitled
  <1> QED BY <1>1, <1>2, <1>3, <1>4

-----------------------------------------------------------------------------
(* The step of every action *)

LEMMA RowStep ==
  ASSUME TypeOK, RelayInv, UNCHANGED <<relayVars, countVars>>,
         \A e \in Events : \/ status'[e] = status[e]
                           \/ status[e] = "absent" /\ status'[e] = "pending"
  PROVE  RelayInv'
  <1>1. ASSUME NEW e \in Events PROVE Budget(e)'
    BY DEF RelayInv, Budget, Entitled, Done, AtHead, Open, relayVars, countVars
  <1>2. Verdicts'
    BY DEF RelayInv, Verdicts, Done, AtHead, relayVars, countVars
  <1> QED BY <1>1, <1>2 DEF RelayInv

LEMMA ClaimStep ==
  ASSUME TypeOK, RelayInv, NEW r \in Relays, ClaimPendingBatch(r)
  PROVE  RelayInv'
  <1>1. PICK batch \in SUBSET Events :
          /\ \A e \in batch : Claimable(e)
          /\ todo' = [todo EXCEPT ![r] = batch]
          /\ status' = [e \in Events |-> IF e \in batch THEN "processing" ELSE status[e]]
          /\ reclaims' = [e \in Events |-> IF e \in batch /\ stale[e]
                                           THEN reclaims[e] + 1 ELSE reclaims[e]]
    BY DEF ClaimPendingBatch
  <1>2. /\ UNCHANGED <<outcome, written, ambiguous>> /\ todo[r] = {} /\ outcome[r] = "none"
        /\ \A q \in Relays \ {r} : todo'[q] = todo[q]
        /\ todo'[r] = batch
    BY <1>1 DEF ClaimPendingBatch, RelayInv, Verdicts, TypeOK
  <1>3. ASSUME NEW e \in Events PROVE Budget(e)'
    <2>1. CASE e \notin batch
      <3>1. Entitled(e)' = Entitled(e)
        BY <1>2, <2>1 DEF Entitled, Done, AtHead
      <3> QED BY <1>1, <1>2, <2>1, <3>1 DEF RelayInv, Budget, Open
    <2>2. CASE e \in batch
      <3>1. Entitled(e)' \subseteq Entitled(e) \union {r}
        BY <1>2 DEF Entitled, Done, AtHead
      <3>2. /\ IsFiniteSet(Entitled(e)')
            /\ Cardinality(Entitled(e)') \in Nat /\ Cardinality(Entitled(e)) \in Nat
            /\ Cardinality(Entitled(e)') <= Cardinality(Entitled(e)) + 1
        BY <3>1, OneMore DEF RelayInv, Budget
      <3>3. status'[e] = "processing" /\ Open(e)' = 0
        BY <1>1, <2>2 DEF Open
      <3>4. \/ Open(e) = 1 /\ reclaims'[e] = reclaims[e]
            \/ Open(e) = 0 /\ reclaims'[e] = reclaims[e] + 1
        BY <1>1, <2>2 DEF Claimable, Open, TypeOK
      <3>5. written[e] + Cardinality(Entitled(e)) + Open(e) <= 1 + reclaims[e] + ambiguous[e]
        BY DEF RelayInv, Budget
      <3>6. written[e] \in Nat /\ reclaims[e] \in Nat /\ ambiguous[e] \in Nat
        BY DEF TypeOK
      <3>7. written'[e] + Cardinality(Entitled(e)') + Open(e)' <= 1 + reclaims'[e] + ambiguous'[e]
        BY <1>2, <3>2, <3>3, <3>4, <3>5, <3>6
      <3> QED BY <3>2, <3>7 DEF Budget
    <2> QED BY <2>1, <2>2
  <1>4. Verdicts'
    BY <1>1, <1>2 DEF RelayInv, Verdicts, Done, AtHead
  <1> QED BY <1>3, <1>4 DEF RelayInv

\* Publishing turns the entitlement into a copy, or into an error that leaves it.
LEMMA PublishStep ==
  ASSUME TypeOK, RelayInv, NEW r \in Relays, PublishSucceeds(r)
  PROVE  RelayInv'
  <1>1. PICK e \in Events \ Poison :
          /\ AtHead(r, e) /\ outcome[r] = "none"
          /\ written' = [written EXCEPT ![e] = @ + 1]
          /\ outcome' = [outcome EXCEPT ![r] = "ok"]
    BY DEF PublishSucceeds
  <1>2. UNCHANGED <<status, todo, reclaims, ambiguous>>
    BY DEF PublishSucceeds, rowVars
  <1>3. /\ outcome'[r] = "ok" /\ \A q \in Relays \ {r} : outcome'[q] = outcome[q]
        /\ written'[e] = written[e] + 1 /\ \A f \in Events \ {e} : written'[f] = written[f]
    BY <1>1 DEF TypeOK
  <1>4. \A f \in Events :
          written[f] \in Nat /\ reclaims[f] \in Nat /\ ambiguous[f] \in Nat
    BY DEF TypeOK
  <1>5. r \in Entitled(e) /\ Entitled(e)' \subseteq Entitled(e) \ {r}
    BY <1>1, <1>2, <1>3 DEF Entitled, Done, AtHead
  <1>6. \A f \in Events \ {e} : Entitled(f)' = Entitled(f)
    BY <1>1, <1>2, <1>3, OneHead DEF Entitled, Done, AtHead
  <1>7. ASSUME NEW f \in Events PROVE Budget(f)'
    <2>1. CASE f = e
      <3>1. /\ IsFiniteSet(Entitled(e)')
            /\ Cardinality(Entitled(e)') \in Nat /\ Cardinality(Entitled(e)) \in Nat
            /\ Cardinality(Entitled(e)') + 1 <= Cardinality(Entitled(e))
        BY <1>5, FewerByOne DEF RelayInv, Budget
      <3>2. written[e] + Cardinality(Entitled(e)) + Open(e) <= 1 + reclaims[e] + ambiguous[e]
        BY DEF RelayInv, Budget
      <3>3. Open(e)' = Open(e) /\ Open(e) \in Nat
        BY <1>2 DEF Open
      <3> QED BY <1>2, <1>3, <1>4, <2>1, <3>1, <3>2, <3>3 DEF Budget
    <2>2. CASE f # e
      BY <1>2, <1>3, <1>6, <2>2 DEF RelayInv, Budget, Open
    <2> QED BY <2>1, <2>2
  <1>8. \A f \in Events : status'[f] = status[f] /\ ambiguous'[f] = ambiguous[f]
                          /\ written[f] \in Nat /\ written'[f] \in {written[f], written[f] + 1}
    BY <1>2, <1>3, <1>4
  <1>9. ASSUME NEW q \in Relays, NEW f \in Events, Done(q, f)'
        PROVE  ambiguous'[f] < written'[f]
    <2>1. AtHead(q, f)
      BY <1>2, <1>9 DEF Done, AtHead
    <2>2. CASE q = r
      <3>1. f = e
        BY <1>1, <2>1, <2>2, OneHead
      <3> QED BY <1>2, <1>3, <1>4, <3>1 DEF RelayInv, Verdicts
    <2>3. CASE q # r
      BY <1>2, <1>3, <1>4, <1>9, <2>1, <2>3 DEF RelayInv, Verdicts, Done
    <2> QED BY <2>2, <2>3
  <1>10. \A q \in Relays : todo'[q] = {} => outcome'[q] = "none"
    BY <1>1, <1>2, <1>3 DEF RelayInv, Verdicts, AtHead
  <1>11. ASSUME NEW q \in Relays, NEW f \in Poison, AtHead(q, f)' PROVE outcome'[q] = "none"
    <2>1. AtHead(q, f) /\ f # e
      BY <1>2, <1>11 DEF AtHead
    <2>2. q # r
      BY <1>1, <2>1, OneHead
    <2> QED BY <1>3, <2>1, <2>2 DEF RelayInv, Verdicts
  <1>12. Verdicts'
    BY <1>4, <1>8, <1>9, <1>10, <1>11 DEF RelayInv, Verdicts, TypeOK
  <1> QED BY <1>7, <1>12 DEF RelayInv

LEMMA PublishErrorStep ==
  ASSUME TypeOK, RelayInv, NEW r \in Relays, PublishFails(r)
  PROVE  RelayInv'
  <1>1. PICK e \in Events \ Poison :
          /\ AtHead(r, e) /\ outcome[r] = "none"
          /\ outcome' = [outcome EXCEPT ![r] = "error"]
          /\ \/ UNCHANGED <<written, ambiguous>>
             \/ /\ written' = [written EXCEPT ![e] = @ + 1]
                /\ ambiguous' = [ambiguous EXCEPT ![e] = @ + 1]
    BY DEF PublishFails
  <1>2. UNCHANGED <<status, todo, reclaims>>
    BY DEF PublishFails, rowVars
  <1>3. outcome'[r] = "error" /\ \A q \in Relays \ {r} : outcome'[q] = outcome[q]
    BY <1>1 DEF TypeOK
  <1>4. \A f \in Events : /\ written[f] \in Nat /\ ambiguous[f] \in Nat /\ reclaims[f] \in Nat
                          /\ \/ written'[f] = written[f] /\ ambiguous'[f] = ambiguous[f]
                             \/ /\ written'[f] = written[f] + 1
                                /\ ambiguous'[f] = ambiguous[f] + 1
    BY <1>1 DEF TypeOK
  <1>5. \A q \in Relays, f \in Events :
          AtHead(q, f)' = AtHead(q, f) /\ (Done(q, f)' => Done(q, f))
    BY <1>2, <1>3 DEF Done, AtHead
  <1>6. ASSUME NEW f \in Events PROVE Budget(f)'
    <2>1. Entitled(f)' = Entitled(f)
      BY <1>1, <1>2, <1>3 DEF Entitled, Done, AtHead
    <2>2. Cardinality(Entitled(f)) \in Nat /\ Open(f) \in Nat /\ Open(f)' = Open(f)
      BY <1>2, FS_CardinalityType DEF RelayInv, Budget, Open
    <2> QED BY <1>2, <1>4, <2>1, <2>2 DEF RelayInv, Budget
  <1>7. \A q \in Relays : todo'[q] = {} => outcome'[q] = "none"
    BY <1>1, <1>2, <1>3 DEF RelayInv, Verdicts, AtHead
  <1>8. ASSUME NEW q \in Relays, NEW f \in Poison, AtHead(q, f)' PROVE outcome'[q] = "none"
    <2>1. q # r
      BY <1>1, <1>5, <1>8, OneHead
    <2> QED BY <1>3, <1>5, <1>8, <2>1 DEF RelayInv, Verdicts
  <1>9. Verdicts'
    BY <1>2, <1>4, <1>5, <1>7, <1>8 DEF RelayInv, Verdicts
  <1> QED BY <1>6, <1>9 DEF RelayInv

\* A relay that is done with an event, whatever it has made of the row.
LEMMA DropStep ==
  ASSUME TypeOK, RelayInv, NEW r \in Relays, NEW e \in Events, AtHead(r, e), Drop(r, e),
         UNCHANGED countVars,
         \A f \in Events \ {e} : status'[f] = status[f],
         \/ status'[e] = status[e]
         \/ status'[e] = "published" /\ outcome[r] = "ok"
         \/ status'[e] = "pending" /\ outcome[r] # "ok"
  PROVE  RelayInv'
  <1>1. /\ todo'[r] = todo[r] \ {e} /\ outcome'[r] = "none"
        /\ \A q \in Relays \ {r} : todo'[q] = todo[q] /\ outcome'[q] = outcome[q]
    BY DropEntitles
  <1>2. UNCHANGED <<written, reclaims, ambiguous>>
    BY DEF countVars
  <1>3. ASSUME NEW f \in Events PROVE Budget(f)'
    <2>1. /\ IsFiniteSet(Entitled(f)')
          /\ Cardinality(Entitled(f)') \in Nat /\ Cardinality(Entitled(f)) \in Nat
          /\ Cardinality(Entitled(f)') <= Cardinality(Entitled(f))
      <3>1. Entitled(f)' \subseteq Entitled(f) /\ IsFiniteSet(Entitled(f))
        BY DropEntitles DEF RelayInv, Budget
      <3> QED BY <3>1, Fewer
    <2>2. written[f] \in Nat /\ reclaims[f] \in Nat /\ ambiguous[f] \in Nat
      BY DEF TypeOK
    <2>3. written[f] + Cardinality(Entitled(f)) + Open(f) <= 1 + reclaims[f] + ambiguous[f]
      BY DEF RelayInv, Budget
    <2>4. Open(f) \in {0, 1} /\ Open(f)' \in {0, 1}
      BY DEF Open
    <2>5. CASE Open(f)' <= Open(f)
      BY <1>2, <2>1, <2>2, <2>3, <2>4, <2>5 DEF Budget
    <2>6. CASE ~ (Open(f)' <= Open(f))
      <3>1. f = e /\ outcome[r] # "ok"
        BY <2>6 DEF Open
      <3>2. /\ Entitled(e)' \subseteq Entitled(e) \ {r} /\ r \in Entitled(e)
            /\ IsFiniteSet(Entitled(e))
        BY <3>1, DropEntitles DEF RelayInv, Budget
      <3>3. Cardinality(Entitled(e)') + 1 <= Cardinality(Entitled(e))
        BY <3>2, FewerByOne
      <3> QED BY <1>2, <2>1, <2>2, <2>3, <2>4, <3>1, <3>3 DEF Budget
    <2> QED BY <2>5, <2>6
  <1>4. ASSUME NEW q \in Relays, NEW f \in Events, Done(q, f)' PROVE Done(q, f)
    BY <1>1, <1>4 DEF Done, AtHead
  <1>5. \A f \in Events : status'[f] = "published" => ambiguous[f] < written[f]
    BY DEF RelayInv, Verdicts, Done
  <1>6. \A q \in Relays : todo'[q] = {} => outcome'[q] = "none"
    BY <1>1 DEF RelayInv, Verdicts
  <1>7. \A q \in Relays, f \in Poison : AtHead(q, f)' => outcome'[q] = "none"
    BY <1>1 DEF RelayInv, Verdicts, AtHead
  <1>8. Verdicts'
    BY <1>2, <1>4, <1>5, <1>6, <1>7 DEF RelayInv, Verdicts
  <1> QED BY <1>3, <1>8 DEF RelayInv

LEMMA CrashStep ==
  ASSUME TypeOK, RelayInv, NEW r \in Relays, Crash(r)
  PROVE  RelayInv'
  <1>1. /\ todo'[r] = {} /\ outcome'[r] = "none"
        /\ \A q \in Relays \ {r} : todo'[q] = todo[q] /\ outcome'[q] = outcome[q]
        /\ UNCHANGED <<status, written, reclaims, ambiguous>>
    BY DEF Crash, TypeOK, rowVars, countVars
  <1>2. ASSUME NEW f \in Events PROVE Budget(f)'
    <2>1. Entitled(f)' \subseteq Entitled(f) /\ IsFiniteSet(Entitled(f))
      BY <1>1 DEF Entitled, Done, AtHead, RelayInv, Budget
    <2>2. /\ IsFiniteSet(Entitled(f)')
          /\ Cardinality(Entitled(f)') \in Nat /\ Cardinality(Entitled(f)) \in Nat
          /\ Cardinality(Entitled(f)') <= Cardinality(Entitled(f))
      BY <2>1, Fewer
    <2>3. /\ written[f] \in Nat /\ reclaims[f] \in Nat /\ ambiguous[f] \in Nat
          /\ Open(f) \in Nat /\ Open(f)' = Open(f)
      BY <1>1 DEF TypeOK, Open
    <2> QED BY <1>1, <2>2, <2>3 DEF RelayInv, Budget
  <1>3. Verdicts'
    BY <1>1 DEF RelayInv, Verdicts, Done, AtHead
  <1> QED BY <1>2, <1>3 DEF RelayInv

LEMMA RelayInit == Init => RelayInv
  <1> SUFFICES ASSUME Init PROVE RelayInv
    OBVIOUS
  <1>1. ASSUME NEW e \in Events PROVE Budget(e)
    <2>1. Entitled(e) = {}
      BY DEF Init, Entitled
    <2> QED BY <2>1, FS_EmptySet DEF Init, Budget, Open
  <1> QED BY <1>1 DEF Init, RelayInv, Verdicts, Done, AtHead

LEMMA RelayStep == TypeOK /\ RelayInv /\ [Next]_vars => RelayInv'
  <1> SUFFICES ASSUME TypeOK, RelayInv, [Next]_vars PROVE RelayInv'
    OBVIOUS
  <1>1. ASSUME NEW e \in Events,
               Enqueue(e) \/ LeaseRunsOut(e) \/ LeaseOverrun(e) \/ RetryDelayEnds(e)
        PROVE  RelayInv'
    <2>1. UNCHANGED <<relayVars, countVars>>
      BY <1>1 DEF Enqueue, LeaseRunsOut, LeaseOverrun, RetryDelayEnds
    <2>2. \A f \in Events : \/ status'[f] = status[f]
                            \/ status[f] = "absent" /\ status'[f] = "pending"
      BY <1>1 DEF Enqueue, LeaseRunsOut, LeaseOverrun, RetryDelayEnds, TypeOK
    <2> QED BY <2>1, <2>2, RowStep
  <1>2. ASSUME NEW r \in Relays, DecodeFails(r) PROVE RelayInv'
    <2>1. PICK e \in Poison : AtHead(r, e) /\ MarkRetry(e) /\ Drop(r, e)
      BY <1>2 DEF DecodeFails
    <2>2. UNCHANGED countVars /\ outcome[r] = "none"
      BY <1>2, <2>1 DEF DecodeFails, RelayInv, Verdicts
    <2>3. status'[e] = "pending" /\ \A f \in Events \ {e} : status'[f] = status[f]
      BY <2>1 DEF MarkRetry, TypeOK
    <2> QED BY <2>1, <2>2, <2>3, DropStep
  <1>3. ASSUME NEW r \in Relays, Record(r) PROVE RelayInv'
    <2>1. PICK e \in Events :
            /\ AtHead(r, e) /\ Drop(r, e)
            /\ IF outcome[r] = "ok" THEN MarkPublished(e) ELSE MarkRetry(e)
      BY <1>3 DEF Record
    <2>2. UNCHANGED countVars
      BY <1>3 DEF Record
    <2>3. /\ \A f \in Events \ {e} : status'[f] = status[f]
          /\ \/ status'[e] = "published" /\ outcome[r] = "ok"
             \/ status'[e] = "pending" /\ outcome[r] # "ok"
      BY <2>1 DEF MarkPublished, MarkRetry, TypeOK
    <2> QED BY <2>1, <2>2, <2>3, DropStep
  <1>4. ASSUME NEW r \in Relays, RecordFails(r) PROVE RelayInv'
    <2>1. PICK e \in Events : AtHead(r, e) /\ Drop(r, e)
      BY <1>4 DEF RecordFails
    <2>2. UNCHANGED <<countVars, status>>
      BY <1>4 DEF RecordFails, rowVars
    <2> QED BY <2>1, <2>2, DropStep
  <1>5. CASE UNCHANGED vars
    BY <1>5, RowStep DEF vars, rowVars
  <1> QED
    BY <1>1, <1>2, <1>3, <1>4, <1>5, ClaimStep, PublishStep, PublishErrorStep, CrashStep
       DEF Next, Flush

LEMMA RelayAlways == Spec => [](TypeOK /\ RelayInv)
  BY TypeInit, TypeStep, RelayInit, RelayStep, PTL DEF Spec

\* A row is recorded as published only if its event is in the Kafka log,
\* whatever crashes, overrun leases and late verdicts came before (flushBatch).
THEOREM PublishedWritten == Spec => []PublishedWasWritten
  <1>1. TypeOK /\ RelayInv => PublishedWasWritten
    BY DEF TypeOK, RelayInv, Verdicts, PublishedWasWritten
  <1> QED BY <1>1, RelayAlways, PTL

\* Claims, retries and unfenced verdicts add no copies of an event: each beyond
\* the first is paid for by a lapsed lease or a lost acknowledgement
\* (ClaimPendingBatch, SelectClaimableOutboxEvents).
THEOREM CopiesPaidFor == Spec => []DuplicatesArePaidFor
  <1>1. TypeOK /\ RelayInv => DuplicatesArePaidFor
    <2> SUFFICES ASSUME TypeOK, RelayInv, NEW e \in Events
                 PROVE  written[e] <= 1 + reclaims[e] + ambiguous[e]
      BY DEF DuplicatesArePaidFor
    <2>1. Cardinality(Entitled(e)) \in Nat /\ Open(e) \in Nat
      BY FS_CardinalityType DEF RelayInv, Budget, Open
    <2> QED BY <2>1 DEF TypeOK, RelayInv, Budget
  <1> QED BY <1>1, RelayAlways, PTL

\* A published row goes back to pending only if its claim was taken over
\* (MarkOutboxRetry, which updates by id).
THEOREM PublishedIsFinal == Spec => PublishedIsFinalUnlessReclaimed
  <1>1. ASSUME TypeOK, RelayInv, NEW r \in Relays, NEW e \in Events,
               AtHead(r, e), outcome[r] # "ok", status[e] = "published"
        PROVE  reclaims[e] > 0
    <2>1. r \in Entitled(e)
      BY <1>1 DEF Entitled, Done, AtHead
    <2>2. IsFiniteSet(Entitled(e))
      BY <1>1 DEF RelayInv, Budget
    <2>3. Cardinality(Entitled(e)) \in Nat /\ Cardinality(Entitled(e)) # 0
      BY <2>1, <2>2, FS_CardinalityType, FS_EmptySet
    <2>4. ambiguous[e] < written[e] /\ Open(e) = 0
      BY <1>1 DEF RelayInv, Verdicts, Open
    <2>5. written[e] + Cardinality(Entitled(e)) + Open(e) <= 1 + reclaims[e] + ambiguous[e]
      BY <1>1 DEF RelayInv, Budget
    <2>6. written[e] \in Nat /\ reclaims[e] \in Nat /\ ambiguous[e] \in Nat
      BY <1>1 DEF TypeOK
    <2> QED BY <2>3, <2>4, <2>5, <2>6
  <1>2. TypeOK /\ RelayInv /\ [Next]_vars =>
          [\A e \in Events : status[e] = "published" /\ status'[e] # "published"
                                => reclaims[e] > 0]_vars
    <2> SUFFICES ASSUME TypeOK, RelayInv, Next, NEW e \in Events,
                        status[e] = "published", status'[e] # "published"
                 PROVE  reclaims[e] > 0
      OBVIOUS
    <2>1. CASE \E f \in Events :
                  Enqueue(f) \/ LeaseRunsOut(f) \/ LeaseOverrun(f) \/ RetryDelayEnds(f)
      BY <2>1 DEF Enqueue, LeaseRunsOut, LeaseOverrun, RetryDelayEnds, TypeOK
    <2>2. ASSUME NEW r \in Relays, ClaimPendingBatch(r) PROVE FALSE
      BY <2>2 DEF ClaimPendingBatch, Claimable
    <2>3. ASSUME NEW r \in Relays, PublishSucceeds(r) \/ PublishFails(r) \/ RecordFails(r) \/ Crash(r)
          PROVE FALSE
      BY <2>3 DEF PublishSucceeds, PublishFails, RecordFails, Crash, rowVars
    <2>4. ASSUME NEW r \in Relays, DecodeFails(r) PROVE reclaims[e] > 0
      <3>1. AtHead(r, e) /\ e \in Poison
        BY <2>4 DEF DecodeFails, MarkRetry, TypeOK
      <3> QED BY <1>1, <3>1 DEF RelayInv, Verdicts
    <2>5. ASSUME NEW r \in Relays, Record(r) PROVE reclaims[e] > 0
      <3>1. AtHead(r, e) /\ outcome[r] # "ok"
        BY <2>5 DEF Record, MarkRetry, MarkPublished, TypeOK
      <3> QED BY <1>1, <3>1
    <2> QED BY <2>1, <2>2, <2>3, <2>4, <2>5 DEF Next, Flush
  <1> QED BY <1>2, RelayAlways, PTL DEF Spec, PublishedIsFinalUnlessReclaimed
=============================================================================
