------------------------------- MODULE SPSCQueue -------------------------------
(***************************************************************************)
(* Tracy's queue between one producing and one consuming thread            *)
(* (tracy_SPSCQueue.h), through which the profiler's worker hands symbol   *)
(* queries to the symbol worker: a ring of slots, an index each thread     *)
(* advances with a release store, and for each thread a cache of the       *)
(* other's index, refreshed by an acquire load.                            *)
(*                                                                         *)
(* A load may give an old value of an index, but none older than a value   *)
(* the thread has seen.                                                    *)
(***************************************************************************)
EXTENDS Integers, Sequences

CONSTANTS
  Items,
  Capacity,   \* as the constructor is given it
  Raw         \* memory without an object

ASSUME QueueAssumption == Capacity \in Nat \ {0} /\ Raw \notin Items

VARIABLES
  slots,
  writeIdx, readIdxCache, producer,   \* producer: what emplace has done
  readIdx, writeIdxCache, consumer,   \* consumer: what front and pop have done
  item                                \* the argument of emplace

producerVars == <<writeIdx, readIdxCache, producer, item>>
consumerVars == <<readIdx, writeIdxCache, consumer>>
vars == <<slots, producerVars, consumerVars>>

(* The constructor adds a slack element: a full ring is not an empty one. *)
Indices == 0..Capacity

After(idx) == IF idx = Capacity THEN 0 ELSE idx + 1

(* The steps around the ring from one index to another. *)
Steps(from, to) == IF from <= to THEN to - from ELSE to - from + Capacity + 1

(* What a load of an index can give to a thread that has seen a value. *)
Loads(seen, index) == {i \in Indices : Steps(seen, i) <= Steps(seen, index)}

Init ==
  /\ slots = [i \in Indices |-> Raw]
  /\ writeIdx = 0 /\ readIdxCache = 0 /\ producer = "idle"
  /\ readIdx = 0 /\ writeIdxCache = 0 /\ consumer = "idle"
  /\ item \in Items

-------------------------------------------------------------------------------
(* emplace, by the producing thread. *)
EmplaceBegin(i) ==
  /\ producer = "idle"
  /\ producer' = "waiting"
  /\ item' = i
  /\ UNCHANGED <<slots, writeIdx, readIdxCache, consumerVars>>

(* Fault, for the mutation runs: the loop looks at the cache only. *)
FaultNeverLoads ==
  /\ producer = "waiting"
  /\ After(writeIdx) = readIdxCache
  /\ UNCHANGED vars

(* Once round the loop that waits for room. *)
EmplaceWait ==
  /\ producer = "waiting"
  /\ After(writeIdx) = readIdxCache
  /\ readIdxCache' \in Loads(readIdxCache, readIdx)
  /\ UNCHANGED <<slots, writeIdx, producer, item, consumerVars>>

(* Fault: the slot is filled without waiting for room. *)
FaultNoWait ==
  /\ producer = "waiting"
  /\ producer' = "filled"
  /\ slots' = [slots EXCEPT ![writeIdx] = item]
  /\ UNCHANGED <<writeIdx, readIdxCache, item, consumerVars>>

EmplaceFill ==
  /\ producer = "waiting"
  /\ After(writeIdx) # readIdxCache
  /\ producer' = "filled"
  /\ slots' = [slots EXCEPT ![writeIdx] = item]
  /\ UNCHANGED <<writeIdx, readIdxCache, item, consumerVars>>

EmplaceCommit ==
  /\ producer = "filled"
  /\ producer' = "idle"
  /\ writeIdx' = After(writeIdx)
  /\ UNCHANGED <<slots, readIdxCache, item, consumerVars>>

-------------------------------------------------------------------------------
(* front and pop, by the consuming thread. *)

Front ==
  /\ consumer = "idle"
  /\ writeIdxCache' \in IF readIdx = writeIdxCache
                        THEN Loads(writeIdxCache, writeIdx) ELSE {writeIdxCache}
  /\ consumer' = IF readIdx = writeIdxCache' THEN "idle" ELSE "front"
  /\ UNCHANGED <<slots, readIdx, producerVars>>

(* pop asserts that the queue is not empty, and ends the object. *)
PopDestroy ==
  /\ consumer = "front"
  /\ consumer' = "destroyed"
  /\ slots' = [slots EXCEPT ![readIdx] = Raw]
  /\ UNCHANGED <<readIdx, writeIdxCache, producerVars>>

(* Fault: the slot is given back twice. *)
FaultSkipsOne ==
  /\ consumer = "destroyed"
  /\ consumer' = "idle"
  /\ readIdx' = After(After(readIdx))
  /\ UNCHANGED <<slots, writeIdxCache, producerVars>>

PopCommit ==
  /\ consumer = "destroyed"
  /\ consumer' = "idle"
  /\ readIdx' = After(readIdx)
  /\ UNCHANGED <<slots, writeIdxCache, producerVars>>

-------------------------------------------------------------------------------
Next ==
  \/ \E i \in Items : EmplaceBegin(i)
  \/ EmplaceWait
  \/ EmplaceFill
  \/ EmplaceCommit
  \/ Front
  \/ PopDestroy
  \/ PopCommit

Spec == Init /\ [][Next]_vars

(* The threads run, the consumer asks again and again as SymbolWorker does, *)
(* and a store is seen at last by a thread that loads again and again.      *)
Fairness ==
  /\ WF_vars(EmplaceWait /\ readIdxCache' # readIdxCache)
  /\ WF_vars(EmplaceFill) /\ WF_vars(EmplaceCommit)
  /\ WF_vars(Front /\ consumer' = "front")
  /\ WF_vars(PopDestroy) /\ WF_vars(PopCommit)

FairSpec == Spec /\ Fairness

-------------------------------------------------------------------------------
(* Properties. *)

TypeOK ==
  /\ slots \in [Indices -> Items \union {Raw}]
  /\ {writeIdx, readIdxCache, readIdx, writeIdxCache} \subseteq Indices
  /\ producer \in {"idle", "waiting", "filled"}
  /\ consumer \in {"idle", "front", "destroyed"}
  /\ item \in Items

(* No object is constructed over a live one and none is read that is not   *)
(* there: the slot the producer may fill is raw memory, the one the        *)
(* consumer looks at holds an object, and they are never the same, however *)
(* old the caches are (emplace, front).                                    *)
SlotsApart ==
  /\ producer = "waiting" /\ After(writeIdx) # readIdxCache => slots[writeIdx] = Raw
  /\ consumer = "front" => slots[readIdx] # Raw
  /\ producer = "filled" /\ consumer # "idle" => writeIdx # readIdx

(* The assertion of pop holds for whatever its load of writeIdx_ gives.    *)
PopAssertion ==
  consumer = "front" => readIdx \notin Loads(writeIdxCache, writeIdx)

(* The items inside, from the one pop gives up next.                       *)
First == IF consumer = "destroyed" THEN After(readIdx) ELSE readIdx

Slot(k) == IF First + k > Capacity THEN First + k - Capacity - 1 ELSE First + k

buffer == [k \in 1..Steps(First, writeIdx) |-> slots[Slot(k - 1)]]

Queue == INSTANCE Fifo WITH buffer <- buffer

(* The ring is a queue: no item is lost, doubled or out of order, and there *)
(* are at most Capacity (emplace, front and pop).                           *)
ImplementsFifo == Queue!Spec

(* Neither thread is held up for ever: what one adds is added at last, and  *)
(* what is inside is taken out.                                            *)
NeitherHeldUp ==
  /\ producer = "waiting" ~> producer = "idle"
  /\ buffer # <<>> ~> consumer = "destroyed"
===============================================================================
