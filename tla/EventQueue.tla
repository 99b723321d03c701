------------------------------- MODULE EventQueue -------------------------------
(***************************************************************************)
(* The part of the lock-free queue that belongs to one producing thread    *)
(* (ExplicitProducer of tracy_concurrentqueue.h), with Worker as the one   *)
(* consumer: elements in a ring of blocks that are used again once they    *)
(* are empty, and a circular index that tells the consumer in which block  *)
(* an element is.  The n-th element is the number n.                       *)
(***************************************************************************)
EXTENDS Integers, SequencesExt

CONSTANTS
  BLOCK_SIZE,
  EXPLICIT_INITIAL_INDEX_SIZE,
  MaxBulk,                       \* elements in one dequeue_bulk, at most
  MaxItems                       \* how many elements are enqueued at most

ASSUME EventQueueAssumption ==
  /\ {BLOCK_SIZE, EXPLICIT_INITIAL_INDEX_SIZE, MaxBulk} \subseteq Nat \ {0}
  /\ MaxItems \in Nat

VARIABLES
  tailIndex, headIndex,
  ring,          \* the blocks, from the one after tailBlock to tailBlock
  elements,      \* of each block
  dequeued,      \* elementsCompletelyDequeued of each block
  headers,       \* the block indices ever made; the last one is blockIndex
  blockIndexFront,
  producer,      \* where enqueue_begin and the commit are
  consumer,      \* where dequeue_bulk is
  seen,          \* the tail the consumer has seen
  bulk,          \* its locals: the range of indices, the index and the slot
  processed      \* what was given to processData

shared == <<tailIndex, headIndex, elements, dequeued>>
producerVars == <<ring, headers, blockIndexFront, producer>>
consumerVars == <<consumer, seen, bulk, processed>>
vars == <<shared, producerVars, consumerVars>>

Base(index) == (index \div BLOCK_SIZE) * BLOCK_SIZE

NoEntry == [base |-> 0, block |-> 0]

blockIndex == Len(headers)

Header == headers[blockIndex]

Init ==
  /\ tailIndex = 0 /\ headIndex = 0
  /\ ring = <<>> /\ elements = <<>> /\ dequeued = <<>>
  /\ headers = <<[front |-> -1, entries |-> [i \in 0..EXPLICIT_INITIAL_INDEX_SIZE - 1 |-> NoEntry]]>>
  /\ blockIndexFront = 0
  /\ producer = "idle" /\ consumer = "idle"
  /\ seen = 0 /\ processed = <<>>
  /\ bulk = [index |-> 0, end |-> 0, header |-> 1, front |-> 0, slot |-> 0]

HeaderSize(h) == Cardinality(DOMAIN headers[h].entries)

-------------------------------------------------------------------------------
(* enqueue_begin, by the producing thread. *)

(* An element goes into the block there is ... *)
EnqueueBegin ==
  /\ producer = "idle" /\ tailIndex < MaxItems
  /\ producer' = IF tailIndex % BLOCK_SIZE = 0 THEN "block" ELSE "fill"
  /\ UNCHANGED <<shared, ring, headers, blockIndexFront, consumerVars>>

TailBlock == Last(ring)

(* ... or, at the end of a block, into the one ahead when that is empty.   *)
(* Fault, for the mutation runs: it is taken when it is not.               *)
FaultPartlyEmpty(block) == dequeued[block] > 0

IsEmpty(block) == dequeued[block] = BLOCK_SIZE

CanReuse == ring # <<>> /\ IsEmpty(Head(ring))

ReuseBlock ==
  /\ producer = "block" /\ CanReuse
  /\ ring' = Append(Tail(ring), Head(ring))
  /\ dequeued' = [dequeued EXCEPT ![Head(ring)] = 0]
  /\ producer' = "entry"
  /\ UNCHANGED <<tailIndex, headIndex, elements, headers, blockIndexFront, consumerVars>>

(* new_block_index: twice the size, with the entries in use moved to its   *)
(* beginning.  Fault: they are copied from the beginning of the old one.   *)
FaultCopiesFromStart(size) ==
  [front |-> Len(ring) - 1,
   entries |-> [j \in 0..2 * size - 1 |-> IF j < Len(ring) THEN Header.entries[j] ELSE NoEntry]]

NewIndex(size) ==
  [front |-> Len(ring) - 1,
   entries |-> [j \in 0..2 * size - 1 |->
     IF j < Len(ring)
     THEN Header.entries[(blockIndexFront - Len(ring) + j) % size] ELSE NoEntry]]

(* ... or into a new block, for which the index may have to grow. *)
NewBlock ==
  /\ producer = "block" /\ ~CanReuse
  /\ LET block == Len(ring) + 1 IN
     /\ ring' = Append(ring, block)
     /\ dequeued' = Append(dequeued, 0)
     /\ elements' = Append(elements, [i \in 0..BLOCK_SIZE - 1 |-> 0])
  /\ LET size == HeaderSize(blockIndex) IN
     IF Len(ring) = size
     THEN headers' = Append(headers, NewIndex(size)) /\ blockIndexFront' = Len(ring)
     ELSE UNCHANGED <<headers, blockIndexFront>>
  /\ producer' = "entry"
  /\ UNCHANGED <<tailIndex, headIndex, consumerVars>>

AddEntry ==
  /\ producer = "entry"
  /\ headers' = [headers EXCEPT ![blockIndex].entries[blockIndexFront] =
                   [base |-> tailIndex, block |-> TailBlock]]
  /\ producer' = "front"
  /\ UNCHANGED <<shared, ring, blockIndexFront, consumerVars>>

ShowEntry ==
  /\ producer = "front"
  /\ headers' = [headers EXCEPT ![blockIndex].front = blockIndexFront]
  /\ blockIndexFront' = (blockIndexFront + 1) % HeaderSize(blockIndex)
  /\ producer' = "fill"
  /\ UNCHANGED <<shared, ring, consumerVars>>

Fill ==
  /\ producer = "fill"
  /\ elements' = [elements EXCEPT ![TailBlock][tailIndex % BLOCK_SIZE] = tailIndex + 1]
  /\ producer' = "commit"
  /\ UNCHANGED <<tailIndex, headIndex, dequeued, ring, headers, blockIndexFront, consumerVars>>

Commit ==
  /\ producer = "commit"
  /\ tailIndex' = tailIndex + 1
  /\ producer' = "idle"
  /\ UNCHANGED <<headIndex, elements, dequeued, ring, headers, blockIndexFront, consumerVars>>

-------------------------------------------------------------------------------
(* dequeue_bulk, by the consuming thread.  As it is the only one, no       *)
(* element is claimed that is not there, and nothing is overcommitted.     *)

(* A load of the tail: not older than one seen before. *)
Tails == seen..tailIndex

(* Fault: it waits for as much as it can take. *)
FaultWaitsForBulk ==
  /\ consumer = "idle" /\ tailIndex - headIndex >= MaxBulk
  /\ seen' = tailIndex
  /\ headIndex' = headIndex + MaxBulk
  /\ bulk' = [bulk EXCEPT !.index = headIndex, !.end = headIndex + MaxBulk]
  /\ consumer' = "index"
  /\ UNCHANGED <<tailIndex, elements, dequeued, producerVars, processed>>

Claim ==
  /\ consumer = "idle"
  /\ \E tail \in Tails :
       /\ tail > headIndex
       /\ seen' = tail
       /\ LET count == IF tail - headIndex < MaxBulk THEN tail - headIndex ELSE MaxBulk
          IN /\ headIndex' = headIndex + count
             /\ bulk' = [bulk EXCEPT !.index = headIndex, !.end = headIndex + count]
  /\ consumer' = "index"
  /\ UNCHANGED <<tailIndex, elements, dequeued, producerVars, processed>>

(* What is seen of the index is at least what the tail promised. *)
LoadIndex ==
  /\ consumer = "index"
  /\ bulk' = [bulk EXCEPT !.header = blockIndex]
  /\ consumer' = "front"
  /\ UNCHANGED <<shared, producerVars, seen, processed>>

LoadFront ==
  /\ consumer = "front"
  /\ bulk' = [bulk EXCEPT !.front = headers[bulk.header].front]
  /\ consumer' = "slot"
  /\ UNCHANGED <<shared, producerVars, seen, processed>>

(* Blocks are counted back from the last one that was shown. *)
FindSlot ==
  /\ consumer = "slot"
  /\ LET headBase == headers[bulk.header].entries[bulk.front].base
         offset == (Base(bulk.index) - headBase) \div BLOCK_SIZE
     IN bulk' = [bulk EXCEPT !.slot = (bulk.front + offset) % HeaderSize(bulk.header)]
  /\ consumer' = "process"
  /\ UNCHANGED <<shared, producerVars, seen, processed>>

BulkBlock == headers[bulk.header].entries[bulk.slot].block

InBlock == (IF bulk.end < Base(bulk.index) + BLOCK_SIZE THEN bulk.end
            ELSE Base(bulk.index) + BLOCK_SIZE) - bulk.index

Process ==
  /\ consumer = "process"
  /\ processed' = processed \o [i \in 1..InBlock |->
                    elements[BulkBlock][(bulk.index + i - 1) % BLOCK_SIZE]]
  /\ consumer' = "release"
  /\ UNCHANGED <<shared, producerVars, seen, bulk>>

(* set_many_empty, and on to the next block. *)
Release ==
  /\ consumer = "release"
  /\ dequeued' = [dequeued EXCEPT ![BulkBlock] = @ + InBlock]
  /\ bulk' = [bulk EXCEPT !.index = @ + InBlock,
                          !.slot = (@ + 1) % HeaderSize(bulk.header)]
  /\ consumer' = IF bulk'.index = bulk.end THEN "idle" ELSE "process"
  /\ UNCHANGED <<tailIndex, headIndex, elements, producerVars, seen, processed>>

-------------------------------------------------------------------------------
Next ==
  \/ EnqueueBegin \/ ReuseBlock \/ NewBlock \/ AddEntry \/ ShowEntry \/ Fill \/ Commit
  \/ Claim \/ LoadIndex \/ LoadFront \/ FindSlot \/ Process \/ Release

Spec == Init /\ [][Next]_vars

(* The consumer's thread asks again and again, and sees a store at last. *)
Fairness ==
  /\ WF_vars(ReuseBlock \/ NewBlock \/ AddEntry \/ ShowEntry \/ Fill \/ Commit)
  /\ WF_vars(Claim /\ seen' = tailIndex)
  /\ WF_vars(LoadIndex \/ LoadFront \/ FindSlot \/ Process \/ Release)

FairSpec == Spec /\ Fairness

-------------------------------------------------------------------------------
(* Properties. *)

(* The consumer gets the elements in the order in which they were put in,  *)
(* each once and whole, however blocks are used again and the index is     *)
(* replaced under its hands (enqueue_begin, dequeue_bulk).                 *)
ProcessedInOrder == processed = [i \in 1..Len(processed) |-> i]

(* While the producer writes an element, the consumer is not at its place: *)
(* neither at the element nor at an entry that is being replaced.          *)
NoSharedPlace ==
  /\ (producer = "fill" /\ consumer = "process") =>
       ~ /\ BulkBlock = TailBlock
         /\ \E i \in 0..InBlock - 1 : (bulk.index + i) % BLOCK_SIZE = tailIndex % BLOCK_SIZE
  /\ (producer = "entry" /\ bulk.header = blockIndex) =>
       /\ consumer = "slot" => bulk.front # blockIndexFront
       /\ consumer \in {"process", "release"} => bulk.slot # blockIndexFront

(* What is put in comes out: the consumer empties the queue again and      *)
(* again, however far the producer is ahead of what it sees of the tail.   *)
AllProcessed == Len(processed) < tailIndex ~> Len(processed) = tailIndex
===============================================================================
