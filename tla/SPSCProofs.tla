------------------------------ MODULE SPSCProofs ------------------------------
(***************************************************************************)
(* The ring of SPSCQueue, for every capacity and whatever old values the   *)
(* threads' loads give: it has its type, the threads never touch the same  *)
(* slot, pop's assertion holds, and it is a queue.                         *)
(***************************************************************************)
EXTENDS SPSCQueue, SequenceTheorems, TLAPS

-------------------------------------------------------------------------------
(* The way around the ring. *)

LEMMA StepsInRing ==
  ASSUME NEW i \in Indices, NEW j \in Indices
  PROVE  Steps(i, j) \in Indices /\ After(i) \in Indices
BY QueueAssumption DEF Steps, After, Indices

LEMMA StepsNatural ==
  ASSUME NEW i \in Indices, NEW j \in Indices
  PROVE  Steps(i, j) \in Nat /\ Steps(i, j) <= Capacity
BY StepsInRing, QueueAssumption DEF Indices

LEMMA NoSteps ==
  ASSUME NEW i \in Indices, NEW j \in Indices
  PROVE  Steps(i, j) = 0 <=> i = j
BY QueueAssumption DEF Steps, Indices

LEMMA StepOn ==
  ASSUME NEW i \in Indices, NEW j \in Indices, After(j) # i
  PROVE  Steps(i, After(j)) = Steps(i, j) + 1
BY QueueAssumption DEF Steps, After, Indices

LEMMA StepOff ==
  ASSUME NEW i \in Indices, NEW j \in Indices, i # j
  PROVE  Steps(After(i), j) = Steps(i, j) - 1
BY QueueAssumption DEF Steps, After, Indices

LEMMA StepOne ==
  ASSUME NEW i \in Indices
  PROVE  Steps(i, After(i)) = 1 /\ After(i) # i
BY QueueAssumption DEF Steps, After, Indices

LEMMA StepsAdd ==
  ASSUME NEW i \in Indices, NEW j \in Indices, NEW k \in Indices,
         Steps(i, j) + Steps(j, k) <= Capacity
  PROVE  Steps(i, k) = Steps(i, j) + Steps(j, k)
BY QueueAssumption DEF Steps, Indices

LEMMA StepsSplit ==
  ASSUME NEW i \in Indices, NEW j \in Indices, NEW k \in Indices,
         Steps(i, j) <= Steps(i, k)
  PROVE  Steps(i, j) + Steps(j, k) = Steps(i, k)
BY QueueAssumption DEF Steps, Indices

LEMMA StepsRound ==
  ASSUME NEW i \in Indices, NEW j \in Indices, i # j
  PROVE  Steps(i, j) + Steps(j, i) = Capacity + 1
BY QueueAssumption DEF Steps, Indices

-------------------------------------------------------------------------------
(* The four indices lie around the ring in the order in which they follow  *)
(* each other, and all of it is never full.                                *)
Around ==
  Steps(readIdxCache, readIdx) + Steps(readIdx, writeIdxCache)
    + Steps(writeIdxCache, writeIdx) <= Capacity

(* The slots that hold an object. *)
Live(i) ==
  \/ /\ Steps(readIdx, i) < Steps(readIdx, writeIdx)
     /\ ~(consumer = "destroyed" /\ i = readIdx)
  \/ producer = "filled" /\ i = writeIdx

QueueInv ==
  /\ TypeOK
  /\ Around
  /\ consumer # "idle" => readIdx # writeIdxCache
  /\ producer = "filled" => After(writeIdx) # readIdxCache /\ slots[writeIdx] = item
  /\ \A i \in Indices : slots[i] \in Items <=> Live(i)

LEMMA QueueInit == Init => QueueInv
<1> SUFFICES ASSUME Init PROVE QueueInv
  OBVIOUS
<1>1. 0 \in Indices /\ Steps(0, 0) = 0
  BY QueueAssumption DEF Indices, Steps
<1>2. TypeOK
  BY <1>1 DEF Init, TypeOK
<1>3. Around
  BY <1>1, QueueAssumption DEF Init, Around
<1>4. ASSUME NEW i \in Indices PROVE ~(slots[i] \in Items) /\ ~Live(i)
  BY <1>1, <1>4, StepsInRing, QueueAssumption DEF Init, Live, Indices
<1> QED BY <1>2, <1>3, <1>4 DEF Init, QueueInv

(* How far apart the indices are. *)
LEMMA Distances ==
  ASSUME QueueInv
  PROVE  /\ Steps(readIdx, writeIdx)
              = Steps(readIdx, writeIdxCache) + Steps(writeIdxCache, writeIdx)
         /\ Steps(readIdxCache, writeIdx)
              = Steps(readIdxCache, readIdx) + Steps(readIdx, writeIdx)
         /\ consumer # "idle" => Steps(readIdx, writeIdx) > 0
         /\ After(writeIdx) # readIdxCache =>
              /\ Steps(readIdxCache, writeIdx) < Capacity
              /\ After(writeIdx) # readIdx
<1>1. /\ readIdx \in Indices /\ writeIdx \in Indices
      /\ readIdxCache \in Indices /\ writeIdxCache \in Indices
  BY DEF QueueInv, TypeOK
<1>2. /\ Steps(readIdxCache, readIdx) \in Nat
      /\ Steps(readIdx, writeIdxCache) \in Nat
      /\ Steps(writeIdxCache, writeIdx) \in Nat
  BY <1>1, StepsNatural
<1>3. Steps(readIdx, writeIdx)
        = Steps(readIdx, writeIdxCache) + Steps(writeIdxCache, writeIdx)
  BY <1>1, <1>2, StepsAdd, QueueAssumption DEF QueueInv, Around
<1>4. Steps(readIdxCache, writeIdx)
        = Steps(readIdxCache, readIdx) + Steps(readIdx, writeIdx)
  BY <1>1, <1>2, <1>3, StepsAdd, QueueAssumption DEF QueueInv, Around
<1>5. consumer # "idle" => Steps(readIdx, writeIdx) > 0
  BY <1>1, <1>2, <1>3, NoSteps, QueueAssumption DEF QueueInv
<1>6. ASSUME After(writeIdx) # readIdxCache
      PROVE  /\ Steps(readIdxCache, writeIdx) < Capacity
             /\ After(writeIdx) # readIdx
  <2>1. Steps(readIdxCache, After(writeIdx)) = Steps(readIdxCache, writeIdx) + 1
    BY <1>1, <1>6, StepOn
  <2>2. Steps(readIdxCache, After(writeIdx)) \in 0..Capacity
    BY <1>1, StepsInRing DEF Indices
  <2>3. Steps(readIdxCache, writeIdx) \in Nat
    BY <1>1, StepsInRing DEF Indices
  <2>4. Steps(readIdxCache, readIdx) <= Steps(readIdxCache, writeIdx)
    BY <1>1, <1>2, <1>4, StepsInRing, QueueAssumption DEF Indices
  <2> QED BY <1>2, <2>1, <2>2, <2>3, <2>4, QueueAssumption
<1> QED BY <1>3, <1>4, <1>5, <1>6

-------------------------------------------------------------------------------
(* Each step keeps the invariant. *)

(* A load moves a cache on towards the index. *)
LEMMA Loaded ==
  ASSUME NEW seen \in Indices, NEW index \in Indices, NEW i \in Loads(seen, index)
  PROVE  i \in Indices /\ Steps(seen, i) + Steps(i, index) = Steps(seen, index)
BY StepsSplit DEF Loads

LEMMA QueueStep == QueueInv /\ [Next]_vars => QueueInv'
<1> SUFFICES ASSUME QueueInv, [Next]_vars PROVE QueueInv'
  OBVIOUS
<1>0. /\ TypeOK /\ Around
      /\ readIdx \in Indices /\ writeIdx \in Indices
      /\ readIdxCache \in Indices /\ writeIdxCache \in Indices
  BY DEF QueueInv, TypeOK
<1>a. /\ Steps(readIdxCache, readIdx) \in Nat
      /\ Steps(readIdx, writeIdxCache) \in Nat
      /\ Steps(writeIdxCache, writeIdx) \in Nat
      /\ Steps(readIdx, writeIdx) \in Nat
      /\ Capacity \in Nat
  BY <1>0, StepsNatural, QueueAssumption
<1>1. ASSUME NEW i \in Items, EmplaceBegin(i) PROVE QueueInv'
  BY <1>1, <1>0 DEF QueueInv, EmplaceBegin, consumerVars, TypeOK, Around, Live
<1>2. CASE EmplaceWait
  <2>1. /\ readIdxCache' \in Indices
        /\ Steps(readIdxCache', readIdx) <= Steps(readIdxCache, readIdx)
        /\ Steps(readIdxCache', readIdx) \in Nat
    <3>1. /\ readIdxCache' \in Indices
          /\ Steps(readIdxCache, readIdxCache') + Steps(readIdxCache', readIdx)
                = Steps(readIdxCache, readIdx)
      BY <1>0, <1>2, Loaded DEF EmplaceWait
    <3>2. Steps(readIdxCache, readIdxCache') \in Nat /\ Steps(readIdxCache', readIdx) \in Nat
      BY <1>0, <3>1, StepsNatural
    <3> QED BY <1>a, <3>1, <3>2
  <2>2. Around'
    BY <1>0, <1>a, <1>2, <2>1 DEF EmplaceWait, consumerVars, Around
  <2>3. TypeOK'
    BY <1>0, <1>2, <2>1 DEF EmplaceWait, consumerVars, TypeOK
  <2>4. \A i \in Indices : slots'[i] \in Items <=> Live(i)'
    BY <1>2 DEF QueueInv, EmplaceWait, consumerVars, Live
  <2> QED BY <1>2, <2>2, <2>3, <2>4 DEF QueueInv, EmplaceWait, consumerVars
<1>3. CASE EmplaceFill
  <2>1. TypeOK'
    BY <1>0, <1>3 DEF EmplaceFill, consumerVars, TypeOK
  <2>2. Around'
    BY <1>0, <1>3 DEF EmplaceFill, consumerVars, Around
  <2>3. slots'[writeIdx] = item /\ item \in Items
    BY <1>0, <1>3 DEF EmplaceFill, TypeOK
  <2>4. ASSUME NEW i \in Indices PROVE slots'[i] \in Items <=> Live(i)'
    BY <1>0, <1>3, <2>3, <2>4 DEF QueueInv, EmplaceFill, consumerVars, TypeOK, Live
  <2> QED BY <1>3, <2>1, <2>2, <2>3, <2>4 DEF QueueInv, EmplaceFill, consumerVars
<1>4. CASE EmplaceCommit
  <2>1. /\ After(writeIdx) \in Indices /\ After(writeIdx) # readIdxCache
        /\ After(writeIdx) # readIdx /\ Steps(readIdxCache, writeIdx) < Capacity
    BY <1>0, <1>4, StepsInRing, Distances DEF EmplaceCommit, QueueInv
  <2>2. TypeOK'
    BY <1>0, <1>4, <2>1 DEF EmplaceCommit, consumerVars, TypeOK
  <2>3. After(writeIdx) # writeIdxCache
    <3>1. Steps(writeIdxCache, writeIdx) < Capacity
      BY <1>a, <2>1, Distances
    <3>2. Steps(writeIdx, After(writeIdx)) = 1 /\ After(writeIdx) # writeIdx
      BY <1>0, StepOne
    <3>3. SUFFICES ASSUME After(writeIdx) = writeIdxCache PROVE FALSE
      OBVIOUS
    <3>4. Steps(writeIdxCache, writeIdx) + Steps(writeIdx, writeIdxCache) = Capacity + 1
      BY <1>0, <3>2, <3>3, StepsRound
    <3> QED BY <1>a, <3>1, <3>2, <3>3, <3>4
  <2>4. Steps(writeIdxCache, After(writeIdx)) = Steps(writeIdxCache, writeIdx) + 1
    BY <1>0, <2>3, StepOn
  <2>5. Around'
    <3>1. Steps(readIdxCache, readIdx) + Steps(readIdx, writeIdxCache)
            + Steps(writeIdxCache, writeIdx) < Capacity
      BY <1>a, <2>1, Distances
    <3> QED BY <1>0, <1>a, <1>4, <2>4, <3>1 DEF EmplaceCommit, consumerVars, Around
  <2>6. Steps(readIdx, After(writeIdx)) = Steps(readIdx, writeIdx) + 1
    BY <1>0, <2>1, StepOn
  <2>7. ASSUME NEW i \in Indices PROVE slots'[i] \in Items <=> Live(i)'
    <3>1. Steps(readIdx, i) \in Nat
      BY <1>0, StepsNatural
    <3>2. Steps(readIdx, i) = Steps(readIdx, writeIdx) <=> i = writeIdx
      BY <1>0, QueueAssumption DEF Steps, Indices
    <3>3. consumer = "destroyed" => readIdx # writeIdx
      BY <1>0, <1>a, Distances, NoSteps
    <3> QED BY <1>0, <1>a, <1>4, <2>6, <3>1, <3>2, <3>3
            DEF QueueInv, EmplaceCommit, consumerVars, Live
  <2> QED BY <1>4, <2>2, <2>5, <2>7 DEF QueueInv, EmplaceCommit, consumerVars
<1>5. CASE Front
  <2>1. /\ writeIdxCache' \in Indices
        /\ Steps(readIdx, writeIdxCache') + Steps(writeIdxCache', writeIdx)
              = Steps(readIdx, writeIdx)
    <3>1. CASE readIdx = writeIdxCache
      BY <1>0, <1>5, <3>1, Loaded DEF Front
    <3>2. CASE readIdx # writeIdxCache
      BY <1>0, <1>5, <3>2, Distances DEF Front
    <3> QED BY <3>1, <3>2
  <2>2. Around'
    <3>1. Steps(readIdx, writeIdxCache') \in Nat /\ Steps(writeIdxCache', writeIdx) \in Nat
      BY <1>0, <2>1, StepsNatural
    <3> QED BY <1>0, <1>a, <1>5, <2>1, <3>1, Distances DEF Front, producerVars, Around
  <2>3. TypeOK'
    BY <1>0, <1>5, <2>1 DEF Front, producerVars, TypeOK
  <2>4. \A i \in Indices : slots'[i] \in Items <=> Live(i)'
    BY <1>5 DEF QueueInv, Front, producerVars, Live
  <2> QED BY <1>5, <2>2, <2>3, <2>4 DEF QueueInv, Front, producerVars
<1>6. CASE PopDestroy
  <2>1. readIdx # writeIdx
    BY <1>0, <1>a, <1>6, Distances, NoSteps DEF PopDestroy
  <2>2. TypeOK'
    BY <1>0, <1>6 DEF PopDestroy, producerVars, TypeOK
  <2>3. Around'
    BY <1>0, <1>6 DEF PopDestroy, producerVars, Around
  <2>4. ASSUME NEW i \in Indices PROVE slots'[i] \in Items <=> Live(i)'
    BY <1>0, <1>6, <2>1, QueueAssumption
       DEF QueueInv, PopDestroy, producerVars, TypeOK, Live
  <2>5. producer = "filled" => slots'[writeIdx] = item
    BY <1>0, <1>6, <2>1 DEF QueueInv, PopDestroy, TypeOK
  <2> QED BY <1>6, <2>2, <2>3, <2>4, <2>5 DEF QueueInv, PopDestroy, producerVars
<1>7. CASE PopCommit
  <2>1. readIdx # writeIdx /\ readIdx # writeIdxCache /\ After(readIdx) \in Indices
    BY <1>0, <1>a, <1>7, Distances, NoSteps, StepsInRing DEF PopCommit, QueueInv
  <2>2. TypeOK'
    BY <1>0, <1>7, <2>1 DEF PopCommit, producerVars, TypeOK
  <2>3. /\ Steps(After(readIdx), writeIdxCache) = Steps(readIdx, writeIdxCache) - 1
        /\ Steps(After(readIdx), writeIdx) = Steps(readIdx, writeIdx) - 1
    BY <1>0, <2>1, StepOff
  <2>4. Steps(readIdxCache, After(readIdx)) = Steps(readIdxCache, readIdx) + 1
    <3>1. SUFFICES ASSUME After(readIdx) = readIdxCache PROVE FALSE
      BY <1>0, StepOn
    <3>2. Steps(readIdx, After(readIdx)) = 1 /\ After(readIdx) # readIdx
      BY <1>0, StepOne
    <3>3. Steps(readIdxCache, readIdx) + Steps(readIdx, readIdxCache) = Capacity + 1
      BY <1>0, <3>1, <3>2, StepsRound
    <3>4. Steps(readIdx, writeIdxCache) > 0
      BY <1>0, <1>a, <2>1, NoSteps
    <3> QED BY <1>0, <1>a, <3>1, <3>2, <3>3, <3>4 DEF Around
  <2>5. Around'
    BY <1>0, <1>a, <1>7, <2>3, <2>4 DEF PopCommit, producerVars, Around
  <2>6. ASSUME NEW i \in Indices PROVE slots'[i] \in Items <=> Live(i)'
    <3>1. CASE i = readIdx
      <4>1. Steps(After(readIdx), readIdx) = Capacity
        <5>1. Steps(readIdx, After(readIdx)) = 1 /\ After(readIdx) # readIdx
          BY <1>0, StepOne
        <5>2. Steps(readIdx, After(readIdx)) + Steps(After(readIdx), readIdx) = Capacity + 1
          BY <1>0, <2>1, <5>1, StepsRound
        <5> QED BY <1>0, <2>1, <5>1, <5>2, StepsNatural, QueueAssumption
      <4>2. Steps(readIdx, writeIdx) <= Capacity
        BY <1>0, StepsNatural
      <4> QED BY <1>0, <1>a, <1>7, <2>1, <2>3, <3>1, <4>1, <4>2
              DEF QueueInv, PopCommit, producerVars, Live
    <3>2. CASE i # readIdx
      <4>1. Steps(After(readIdx), i) = Steps(readIdx, i) - 1 /\ Steps(readIdx, i) \in Nat
        BY <1>0, <3>2, StepOff, StepsNatural
      <4> QED BY <1>0, <1>a, <1>7, <2>1, <2>3, <3>2, <4>1
              DEF QueueInv, PopCommit, producerVars, Live
    <3> QED BY <3>1, <3>2
  <2> QED BY <1>7, <2>2, <2>5, <2>6 DEF QueueInv, PopCommit, producerVars
<1>8. CASE UNCHANGED vars
  BY <1>0, <1>8 DEF QueueInv, vars, producerVars, consumerVars, TypeOK, Around, Live
<1> QED BY <1>1, <1>2, <1>3, <1>4, <1>5, <1>6, <1>7, <1>8 DEF Next

-------------------------------------------------------------------------------
(* What the ring promises. *)

LEMMA QueueAlways == Spec => []QueueInv
<1> QED BY QueueInit, QueueStep, PTL DEF Spec

(* The queue's state has its type for every capacity. *)
THEOREM QueueTypeCorrect == Spec => []TypeOK
<1>1. QueueInv => TypeOK
  BY DEF QueueInv
<1> QED BY <1>1, QueueAlways, PTL

(* The threads never touch the same slot, whatever old values their loads  *)
(* give.                                                                   *)
THEOREM SlotsAlwaysApart == Spec => []SlotsApart
<1>1. QueueInv => SlotsApart
  <2> SUFFICES ASSUME QueueInv PROVE SlotsApart
    OBVIOUS
  <2>0. /\ readIdx \in Indices /\ writeIdx \in Indices
        /\ Steps(readIdx, writeIdx) \in Nat
        /\ slots \in [Indices -> Items \union {Raw}]
    BY StepsNatural DEF QueueInv, TypeOK
  <2>1. consumer # "idle" => readIdx # writeIdx
    BY <2>0, Distances, NoSteps
  <2>2. ASSUME producer = "waiting", After(writeIdx) # readIdxCache
        PROVE  slots[writeIdx] = Raw
    <3>1. ~Live(writeIdx)
      BY <2>0, <2>2 DEF Live
    <3> QED BY <2>0, <3>1 DEF QueueInv
  <2>3. ASSUME consumer = "front" PROVE slots[readIdx] # Raw
    <3>1. Live(readIdx)
      <4>1. Steps(readIdx, readIdx) = 0 /\ Steps(readIdx, writeIdx) # 0
        BY <2>0, <2>1, <2>3, NoSteps
      <4> QED BY <2>0, <2>3, <4>1 DEF Live
    <3> QED BY <2>0, <3>1, QueueAssumption DEF QueueInv
  <2> QED BY <2>1, <2>2, <2>3 DEF SlotsApart
<1> QED BY <1>1, QueueAlways, PTL

(* The assertion in pop never fails, for every capacity. *)
THEOREM PopNeverAsserts == Spec => []PopAssertion
<1>1. QueueInv => PopAssertion
  <2> SUFFICES ASSUME QueueInv, consumer = "front", readIdx \in Loads(writeIdxCache, writeIdx)
               PROVE  FALSE
    BY DEF PopAssertion
  <2>0. readIdx \in Indices /\ writeIdx \in Indices /\ writeIdxCache \in Indices
    BY DEF QueueInv, TypeOK
  <2>1. readIdx # writeIdxCache
    BY DEF QueueInv
  <2>2. Steps(writeIdxCache, readIdx) <= Steps(writeIdxCache, writeIdx)
    BY DEF Loads
  <2>3. Steps(readIdx, writeIdxCache) + Steps(writeIdxCache, readIdx) = Capacity + 1
    BY <2>0, <2>1, StepsRound
  <2>4. Steps(readIdx, writeIdx)
          = Steps(readIdx, writeIdxCache) + Steps(writeIdxCache, writeIdx)
    BY Distances
  <2> QED BY <2>0, <2>2, <2>3, <2>4, StepsNatural, QueueAssumption
<1> QED BY <1>1, QueueAlways, PTL

-------------------------------------------------------------------------------
(* The ring is a queue. *)

(* Where the k-th item lies, and how far from the first. *)
LEMMA SlotAt ==
  ASSUME NEW k \in Nat, First \in Indices, k <= Capacity
  PROVE  Slot(k) \in Indices /\ Steps(First, Slot(k)) = k
BY QueueAssumption DEF Slot, Steps, Indices

LEMMA SlotOf ==
  ASSUME NEW i \in Indices, First \in Indices
  PROVE  Slot(Steps(First, i)) = i
BY QueueAssumption DEF Slot, Steps, Indices

LEMMA FirstIn ==
  ASSUME QueueInv
  PROVE  /\ First \in Indices /\ Steps(First, writeIdx) \in Nat
         /\ Steps(First, writeIdx) <= Steps(readIdxCache, writeIdx)
         /\ Steps(readIdx, writeIdx) =
              IF consumer = "destroyed" THEN Steps(First, writeIdx) + 1
              ELSE Steps(First, writeIdx)
<1>0. /\ readIdx \in Indices /\ writeIdx \in Indices /\ readIdxCache \in Indices
      /\ Steps(readIdx, writeIdx) \in Nat /\ Steps(readIdxCache, readIdx) \in Nat
  BY StepsNatural DEF QueueInv, TypeOK
<1>1. Steps(readIdxCache, writeIdx) = Steps(readIdxCache, readIdx) + Steps(readIdx, writeIdx)
  BY Distances
<1>2. CASE consumer = "destroyed"
  <2>1. First = After(readIdx) /\ readIdx # writeIdx
    BY <1>0, <1>2, Distances, NoSteps DEF First
  <2>2. Steps(First, writeIdx) = Steps(readIdx, writeIdx) - 1 /\ First \in Indices
    BY <1>0, <2>1, StepOff, StepsInRing
  <2> QED BY <1>0, <1>1, <1>2, <2>2, StepsNatural
<1>3. CASE consumer # "destroyed"
  BY <1>0, <1>1, <1>3 DEF First
<1> QED BY <1>2, <1>3

LEMMA SameItems ==
  ASSUME NEW S, NEW s \in Seq(S), NEW t \in Seq(S), Len(s) = Len(t),
         \A k \in 1..Len(s) : s[k] = t[k]
  PROVE  s = t
OBVIOUS

LEMMA FifoStep ==
  ASSUME QueueInv, QueueInv', [Next]_vars
  PROVE  [Queue!Next]_buffer
<1> DEFINE n == Steps(First, writeIdx)
<1>0. /\ First \in Indices /\ n \in Nat /\ n <= Capacity
      /\ readIdx \in Indices /\ writeIdx \in Indices /\ item \in Items
      /\ slots \in [Indices -> Items \union {Raw}] /\ Capacity \in Nat
  BY FirstIn, StepsNatural, QueueAssumption DEF QueueInv, TypeOK
<1>n. /\ buffer = [k \in 1..n |-> slots[Slot(k - 1)]] /\ Len(buffer) = n
      /\ buffer \in Seq(Items \union {Raw})
  <2>1. buffer = [k \in 1..n |-> slots[Slot(k - 1)]]
    BY DEF buffer
  <2>2. \A k \in 1..n : slots[Slot(k - 1)] \in Items \union {Raw}
    BY <1>0, SlotAt
  <2> QED BY <1>0, <2>1, <2>2
<1>1. ASSUME \/ \E i \in Items : EmplaceBegin(i)
             \/ EmplaceWait \/ Front \/ UNCHANGED vars
      PROVE  buffer' = buffer
  <2>1. /\ slots' = slots /\ writeIdx' = writeIdx /\ readIdx' = readIdx
        /\ (consumer' = "destroyed") <=> (consumer = "destroyed")
    BY <1>1 DEF EmplaceBegin, EmplaceWait, Front, vars, producerVars, consumerVars
  <2>2. First' = First
    BY <2>1 DEF First
  <2> QED BY <2>1, <2>2 DEF buffer, Slot
<1>2. ASSUME EmplaceFill PROVE buffer' = buffer
  <2>1. First' = First /\ writeIdx' = writeIdx
    BY <1>2 DEF EmplaceFill, consumerVars, First
  <2>2. ASSUME NEW k \in 1..n PROVE slots'[Slot(k - 1)] = slots[Slot(k - 1)]
    <3>1. Slot(k - 1) \in Indices /\ Steps(First, Slot(k - 1)) = k - 1
      BY <1>0, SlotAt
    <3>2. Slot(k - 1) # writeIdx
      BY <1>0, <3>1
    <3> QED BY <1>0, <1>2, <3>1, <3>2 DEF EmplaceFill
  <2>3. buffer' = [k \in 1..n |-> slots'[Slot(k - 1)]]
    BY <2>1 DEF buffer, Slot
  <2> QED BY <1>n, <2>2, <2>3
<1>3. ASSUME EmplaceCommit PROVE Queue!Put(item)
  <2>1. /\ First' = First /\ writeIdx' = After(writeIdx) /\ slots' = slots
        /\ slots[writeIdx] = item
    BY <1>3 DEF EmplaceCommit, consumerVars, First, QueueInv
  <2>2. n < Capacity
    BY <1>0, <1>3, FirstIn, Distances, StepsNatural DEF EmplaceCommit, QueueInv, TypeOK
  <2>3. Steps(First, After(writeIdx)) = n + 1
    <3>1. SUFFICES ASSUME After(writeIdx) = First PROVE FALSE
      BY <1>0, StepOn
    <3>2. Steps(writeIdx, First) = 1 /\ First # writeIdx
      BY <1>0, <3>1, StepOne
    <3>3. n + Steps(writeIdx, First) = Capacity + 1
      BY <1>0, <3>2, StepsRound
    <3> QED BY <1>0, <2>2, <3>2, <3>3
  <2>4. buffer' = [k \in 1..(n + 1) |-> slots[Slot(k - 1)]]
    BY <2>1, <2>3 DEF buffer, Slot
  <2>5. Slot(n) = writeIdx
    BY <1>0, SlotOf
  <2>6. buffer' = Append(buffer, item)
    <3>1. ASSUME NEW k \in 1..(n + 1)
          PROVE  /\ slots[Slot(k - 1)] = Append(buffer, item)[k]
                 /\ slots[Slot(k - 1)] \in Items \union {Raw}
      <4>1. CASE k = n + 1
        BY <1>0, <1>n, <2>1, <2>5, <4>1, AppendProperties
      <4>2. CASE k # n + 1
        <5>1. k \in 1..n
          BY <1>0, <4>2
        <5>2. Append(buffer, item)[k] = buffer[k] /\ buffer[k] \in Items \union {Raw}
          BY <1>0, <1>n, <5>1, AppendProperties, ElementOfSeq
        <5> QED BY <1>n, <5>1, <5>2
      <4> QED BY <4>1, <4>2
    <3>2. /\ Append(buffer, item) \in Seq(Items \union {Raw})
          /\ Len(Append(buffer, item)) = n + 1
      BY <1>0, <1>n, AppendProperties
    <3>3. buffer' \in Seq(Items \union {Raw}) /\ Len(buffer') = n + 1
      BY <1>0, <2>4, <3>1
    <3>4. \A k \in 1..(n + 1) : buffer'[k] = Append(buffer, item)[k]
      BY <2>4, <3>1
    <3> HIDE DEF n
    <3> QED BY <3>2, <3>3, <3>4, SameItems
  <2> QED BY <1>n, <2>2, <2>6 DEF Queue!Put
<1>4. ASSUME PopDestroy PROVE Queue!Get
  <2>1. /\ First = readIdx /\ First' = After(readIdx) /\ writeIdx' = writeIdx
        /\ slots' = [slots EXCEPT ![readIdx] = Raw]
    BY <1>4 DEF PopDestroy, producerVars, First
  <2>2. n > 0 /\ readIdx # writeIdx
    BY <1>0, <1>4, <2>1, Distances, NoSteps DEF PopDestroy
  <2>0. buffer # <<>>
    <3>1. Len(<<>>) = 0
      OBVIOUS
    <3>2. Len(buffer) # 0
      BY <1>0, <1>n, <2>2
    <3> QED BY <3>1, <3>2
  <2>3. Steps(After(readIdx), writeIdx) = n - 1
    BY <1>0, <2>1, <2>2, StepOff
  <2>4. \A k \in 1..(n - 1) : (Slot(k - 1))' = Slot(k)
    BY <1>0, <2>1 DEF Slot, After, Indices
  <2>5. buffer' = [k \in 1..(n - 1) |-> slots'[(Slot(k - 1))']]
    BY <2>1, <2>3 DEF buffer
  <2>6. ASSUME NEW k \in 1..(n - 1) PROVE slots'[Slot(k)] = slots[Slot(k)]
    <3>1. Slot(k) \in Indices /\ Steps(First, Slot(k)) = k
      BY <1>0, SlotAt
    <3>2. Slot(k) # readIdx
      BY <1>0, <2>1, <3>1, NoSteps
    <3> QED BY <1>0, <2>1, <3>1, <3>2
  <2>7. buffer' = Tail(buffer)
    <3>2. /\ Tail(buffer) \in Seq(Items \union {Raw}) /\ Len(Tail(buffer)) = n - 1
          /\ \A k \in 1..(n - 1) : Tail(buffer)[k] = buffer[k + 1]
      BY <1>n, <2>0, HeadTailProperties
    <3>3. ASSUME NEW k \in 1..(n - 1)
          PROVE  /\ slots'[(Slot(k - 1))'] = buffer[k + 1]
                 /\ buffer[k + 1] \in Items \union {Raw}
      <4>1. k + 1 \in 1..n
        BY <1>0
      <4>2. buffer[k + 1] = slots[Slot(k)] /\ buffer[k + 1] \in Items \union {Raw}
        BY <1>0, <1>n, <4>1, ElementOfSeq
      <4> QED BY <2>4, <2>6, <4>2
    <3>4. buffer' \in Seq(Items \union {Raw}) /\ Len(buffer') = n - 1
      BY <1>0, <2>2, <2>5, <3>3
    <3>5. \A k \in 1..(n - 1) : buffer'[k] = Tail(buffer)[k]
      BY <2>5, <3>2, <3>3
    <3> HIDE DEF n
    <3> QED BY <3>2, <3>4, <3>5, SameItems
  <2> QED BY <2>0, <2>7 DEF Queue!Get
<1>5. ASSUME PopCommit PROVE buffer' = buffer
  <2>1. First' = First /\ slots' = slots /\ writeIdx' = writeIdx
    BY <1>5 DEF PopCommit, producerVars, First
  <2> QED BY <2>1 DEF buffer, Slot
<1> HIDE DEF n
<1> QED BY <1>0, <1>1, <1>2, <1>3, <1>4, <1>5 DEF Next, Queue!Next

(* The ring implements the queue: nothing is lost, doubled or reordered, for *)
(* every capacity.                                                           *)
THEOREM RingIsQueue == Spec => ImplementsFifo
<1>1. Init => Queue!Init
  <2> SUFFICES ASSUME Init PROVE buffer = <<>>
    BY DEF Queue!Init
  <2>1. Steps(First, writeIdx) = 0
    BY QueueAssumption DEF Init, First, Steps
  <2> QED BY <2>1 DEF buffer
<1>2. QueueInv /\ QueueInv' /\ [Next]_vars => [Queue!Next]_buffer
  BY FifoStep
<1> QED BY <1>1, <1>2, QueueAlways, PTL DEF Spec, ImplementsFifo, Queue!Spec
===============================================================================
