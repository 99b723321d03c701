--------------------------- MODULE EventQueueProofs ---------------------------
(***************************************************************************)
(* Proofs about EventQueue, for every size of a block, of a bulk and of    *)
(* the first index.  What makes the queue hold together is QueueInv: which *)
(* chunk of elements each block of the ring belongs to and how much of it  *)
(* the consumer has emptied, what is written, and where in which index a   *)
(* chunk is entered.  Chunk c is at the slot o + c of an index, cyclically *)
(* (o is another one for every index that was made); the consumer works    *)
(* with an index that may have been replaced and with the last entry it    *)
(* saw, and the invariant says that both still list all of its bulk.       *)
(***************************************************************************)
EXTENDS EventQueue, FiniteSetTheorems, SequenceTheorems, TLAPS

(* Quotients and remainders. *)
LEMMA Division ==
  ASSUME NEW n \in Int, NEW d \in Nat \ {0}
  PROVE  /\ n \div d \in Int /\ n % d \in 0..d - 1 /\ n = (n \div d) * d + (n % d)
         /\ n \in Nat => n \div d \in Nat
<1>1. n \div d \in Int /\ n % d \in 0..d - 1
  OBVIOUS
<1>2. n = d * (n \div d) + (n % d) /\ d * (n \div d) = (n \div d) * d
  OBVIOUS
<1>3. n \in Nat => n \div d \in Nat
  OBVIOUS
<1> QED  BY <1>1, <1>2, <1>3

(* Multiples keep the order of their factors. *)
LEMMA Multiples ==
  ASSUME NEW d \in Nat \ {0}, NEW i \in Int, NEW j \in Int, i < j
  PROVE  i * d \in Int /\ j * d \in Int /\ i * d + d <= j * d
<1> DEFINE k == j - i - 1
<1>1. k \in Nat /\ j = i + 1 + k
  OBVIOUS
<1>2. k * d \in Nat /\ i * d \in Int
  BY <1>1
<1>3. (i + 1 + k) * d = i * d + d + k * d
  BY <1>1
<1> QED  BY <1>1, <1>2, <1>3

LEMMA Factor ==
  ASSUME NEW d \in Nat \ {0}, NEW q \in Int
  PROVE  q * d \in Int /\ (q + 1) * d = q * d + d /\ (q - 1) * d = q * d - d
OBVIOUS

LEMMA Unique ==
  ASSUME NEW d \in Nat \ {0}, NEW q \in Int, NEW r \in 0..d - 1
  PROVE  (q * d + r) \div d = q /\ (q * d + r) % d = r
<1> DEFINE n == q * d + r
           p == n \div d
           s == n % d
<1>1. n \in Int /\ q * d \in Int
  OBVIOUS
<1> HIDE DEF n
<1>2. p \in Int /\ s \in 0..d - 1 /\ n = p * d + s
  BY <1>1, Division
<1> HIDE DEF p, s
<1>3. n = q * d + r
  BY DEF n
<1>4. ~(p < q)
  <2>1. p < q => p * d + d <= q * d /\ p * d \in Int
    BY <1>2, Multiples
  <2> QED  BY <1>1, <1>2, <1>3, <2>1
<1>5. ~(q < p)
  <2>1. q < p => q * d + d <= p * d /\ p * d \in Int
    BY <1>2, Multiples
  <2> QED  BY <1>1, <1>2, <1>3, <2>1
<1>6. p = q
  BY <1>2, <1>4, <1>5
<1>7. s = r
  BY <1>1, <1>2, <1>3, <1>6
<1> QED  BY <1>6, <1>7 DEF n, p, s

(* A chunk and its elements. *)
LEMMA Within ==
  ASSUME NEW d \in Nat \ {0}, NEW q \in Int, NEW n \in Int
  PROVE  /\ n \div d = q <=> q * d <= n /\ n < q * d + d
         /\ n \div d < q <=> n < q * d
         /\ q <= n \div d <=> q * d <= n
         /\ n % d = n - (n \div d) * d
<1> DEFINE p == n \div d
<1>1. p \in Int /\ n % d \in 0..d - 1 /\ n = p * d + (n % d)
  BY Division
<1>2. p * d \in Int /\ q * d \in Int
  BY <1>1
<1>3. p * d <= n /\ n < p * d + d /\ n % d = n - p * d
  BY <1>1, <1>2
<1>4. p < q => p * d + d <= q * d
  BY <1>1, Multiples
<1>5. q < p => q * d + d <= p * d
  BY <1>1, Multiples
<1> HIDE DEF p
<1>6. /\ p = q => q * d <= n /\ n < q * d + d
      /\ p < q => n < q * d
      /\ q < p => q * d + d <= n
  BY <1>1, <1>2, <1>3, <1>4, <1>5
<1>7. /\ p = q <=> q * d <= n /\ n < q * d + d
      /\ p < q <=> n < q * d
      /\ q <= p <=> q * d <= n
  BY <1>1, <1>2, <1>6
<1> QED  BY <1>3, <1>7 DEF p

(* Two numbers in one chunk at one place are one. *)
LEMMA SamePlace ==
  ASSUME NEW d \in Nat \ {0}, NEW m \in Int, NEW n \in Int,
         m \div d = n \div d, m % d = n % d
  PROVE  m = n
BY Division

(* Cyclic slots: steps add up, and no two of a stretch no longer than the  *)
(* cycle are the same.                                                     *)
LEMMA Cyclic ==
  ASSUME NEW d \in Nat \ {0}, NEW a \in Int, NEW b \in Int
  PROVE  a % d \in 0..d - 1 /\ ((a % d) + b) % d = (a + b) % d
<1> DEFINE p == a \div d
           r == a % d
           q == (r + b) \div d
           s == (r + b) % d
<1>1. p \in Int /\ r \in 0..d - 1 /\ a = p * d + r
  BY Division
<1>2. q \in Int /\ s \in 0..d - 1 /\ r + b = q * d + s
  <2> HIDE DEF r
  <2>1. r + b \in Int
    BY <1>1
  <2> QED  BY <2>1, Division
<1> HIDE DEF p, r, q, s
<1>3. (p + q) * d = p * d + q * d /\ p * d \in Int /\ q * d \in Int
  BY <1>1, <1>2
<1>4. a + b = (p + q) * d + s
  BY <1>1, <1>2, <1>3
<1>5. p + q \in Int /\ ((p + q) * d + s) % d = s
  BY <1>1, <1>2, Unique
<1> QED  BY <1>1, <1>4, <1>5 DEF r, s

LEMMA Apart ==
  ASSUME NEW d \in Nat \ {0}, NEW a \in Int, NEW b \in Int, a < b, b < a + d
  PROVE  a % d # b % d
<1> DEFINE p == a \div d
           q == b \div d
<1>1. SUFFICES ASSUME a % d = b % d PROVE FALSE
  OBVIOUS
<1>2. p \in Int /\ a % d \in 0..d - 1 /\ a = p * d + (a % d)
  BY Division
<1>3. q \in Int /\ b = q * d + (b % d)
  BY Division
<1> HIDE DEF p, q
<1>4. p * d \in Int /\ q * d \in Int
  BY <1>2, <1>3
<1>5. b - a = q * d - p * d
  BY <1>1, <1>2, <1>3, <1>4
<1>6. p < q => p * d + d <= q * d
  BY <1>2, <1>3, Multiples
<1>7. q < p => q * d + d <= p * d
  BY <1>2, <1>3, Multiples
<1> QED  BY <1>2, <1>3, <1>4, <1>5, <1>6, <1>7

LEMMA Small ==
  ASSUME NEW d \in Nat \ {0}, NEW a \in 0..d - 1
  PROVE  a % d = a /\ a \div d = 0
OBVIOUS

-------------------------------------------------------------------------------
(* The invariant. *)

(* The stretch of elements that shares a block, by its number: how many    *)
(* have a block, an entry in the index, and one that is shown.             *)
Chunk(i) == i \div BLOCK_SIZE

Started ==
  IF producer \in {"idle", "block"} /\ tailIndex % BLOCK_SIZE = 0
  THEN Chunk(tailIndex) ELSE Chunk(tailIndex) + 1

Indexed == IF producer = "entry" THEN Chunk(tailIndex) ELSE Started
Shown == IF producer \in {"entry", "front"} THEN Chunk(tailIndex) ELSE Started

(* The chunks that have a block now, and the block each of them has. *)
Oldest == Started - Len(ring)
Living == Oldest..Started - 1
BlockOf(c) == ring[c - Oldest + 1]

(* What the consumer has left of its bulk. *)
FirstChunk == Chunk(bulk.index)
LastChunk == Chunk(bulk.end - 1)

Types ==
  /\ tailIndex \in Nat /\ headIndex \in Nat /\ seen \in Nat
  /\ producer \in {"idle", "block", "entry", "front", "fill", "commit"}
  /\ consumer \in {"idle", "index", "front", "slot", "process", "release"}
  /\ bulk \in [index : Nat, end : Nat, header : Nat, front : Int, slot : Int]
  /\ dequeued \in Seq(Nat) /\ Len(dequeued) = Len(ring)
  /\ elements \in Seq([0..BLOCK_SIZE - 1 -> Nat]) /\ Len(elements) = Len(ring)

(* Every block is in the ring once, and those that belong to a chunk no    *)
(* more are those that are empty.                                          *)
RingInv ==
  /\ ring \in Seq(Nat) /\ Len(ring) <= Started /\ (Started > 0 => Len(ring) > 0)
  /\ \A i \in 1..Len(ring) : ring[i] \in 1..Len(ring)
  /\ \A i, j \in 1..Len(ring) : ring[i] = ring[j] => i = j
  /\ producer \in {"block", "entry", "front"} => tailIndex % BLOCK_SIZE = 0
  /\ Oldest * BLOCK_SIZE <= bulk.index

Emptied(c) ==
  IF bulk.index <= c * BLOCK_SIZE THEN 0
  ELSE IF bulk.index < (c + 1) * BLOCK_SIZE THEN bulk.index - c * BLOCK_SIZE
  ELSE BLOCK_SIZE

Written(i) == i < tailIndex \/ (i = tailIndex /\ producer = "commit")

BlocksInv ==
  /\ \A c \in Living : dequeued[BlockOf(c)] = Emptied(c)
  /\ \A i \in Nat : Written(i) /\ Oldest <= Chunk(i) =>
       elements[BlockOf(Chunk(i))][i % BLOCK_SIZE] = i + 1

(* The consumer takes what the producer has committed, in order. *)
BulkInv ==
  /\ bulk.index <= bulk.end /\ bulk.end = headIndex
  /\ headIndex <= seen /\ seen <= tailIndex
  /\ consumer = "idle" <=> bulk.index = bulk.end
  /\ processed = [i \in 1..bulk.index + (IF consumer = "release" THEN InBlock ELSE 0) |-> i]

(* Chunk c has the entry at o + c, cyclically. *)
Slot(h, o, c) == (o + c) % HeaderSize(h)
Entry(h, o, c) == headers[h].entries[Slot(h, o, c)]

Listed(h, o, c) == Entry(h, o, c) = [base |-> c * BLOCK_SIZE, block |-> BlockOf(c)]

Entries(n) == [0..n - 1 -> [base : Nat, block : Nat]]
Headers == [front : Int, entries : UNION {Entries(n) : n \in Nat \ {0}}]

HeadersInv ==
  /\ headers \in Seq(Headers) /\ Len(headers) > 0
  /\ Len(ring) <= HeaderSize(blockIndex)

ProducerIndex(o) ==
  /\ blockIndexFront = Slot(blockIndex, o, Shown)
  /\ Shown > 0 => Header.front = Slot(blockIndex, o, Shown - 1)
  /\ \A c \in Oldest..Indexed - 1 : Listed(blockIndex, o, c)

(* The index the consumer has loaded lists all of its bulk, from some      *)
(* chunk p down, and it knows where.                                       *)
ConsumerIndex(h, o, p) ==
  /\ h \in 1..blockIndex /\ bulk.header = h
  /\ LastChunk <= p /\ p < Shown
  /\ \A c \in (FirstChunk..LastChunk) \union {p} : Listed(h, o, c)
  /\ consumer = "front" => headers[h].front = Slot(h, o, p)
  /\ consumer = "slot" => bulk.front = Slot(h, o, p)
  /\ consumer \in {"process", "release"} => bulk.slot = Slot(h, o, FirstChunk)

IndexAt(o, h, q, p) ==
  /\ ProducerIndex(o)
  /\ consumer \in {"front", "slot", "process", "release"} =>
       ConsumerIndex(h, q, p) /\ (h = blockIndex => q = o)

IndexInv == \E o \in Int, h \in Nat, q \in Int, p \in Nat : IndexAt(o, h, q, p)

QueueInv == Types /\ RingInv /\ BlocksInv /\ BulkInv /\ HeadersInv /\ IndexInv
-------------------------------------------------------------------------------
(* What follows from it. *)

LEMMA Sizes == BLOCK_SIZE \in Nat \ {0} /\ MaxBulk \in Nat \ {0}
BY EventQueueAssumption

LEMMA ChunkOf ==
  ASSUME NEW n \in Int
  PROVE  /\ Chunk(n) \in Int /\ (n \in Nat => Chunk(n) \in Nat)
         /\ Chunk(n) * BLOCK_SIZE \in Int
         /\ (Chunk(n) + 1) * BLOCK_SIZE = Chunk(n) * BLOCK_SIZE + BLOCK_SIZE
         /\ Chunk(n) * BLOCK_SIZE <= n /\ n < Chunk(n) * BLOCK_SIZE + BLOCK_SIZE
         /\ n % BLOCK_SIZE = n - Chunk(n) * BLOCK_SIZE
<1>1. Chunk(n) = n \div BLOCK_SIZE /\ BLOCK_SIZE \in Nat \ {0}
  BY Sizes DEF Chunk
<1>2. Chunk(n) \in Int /\ (n \in Nat => Chunk(n) \in Nat)
  BY <1>1, Division
<1>3. /\ n % BLOCK_SIZE = n - Chunk(n) * BLOCK_SIZE
      /\ Chunk(n) * BLOCK_SIZE <= n /\ n < Chunk(n) * BLOCK_SIZE + BLOCK_SIZE
  BY <1>1, <1>2, Within
<1>4. /\ Chunk(n) * BLOCK_SIZE \in Int
      /\ (Chunk(n) + 1) * BLOCK_SIZE = Chunk(n) * BLOCK_SIZE + BLOCK_SIZE
  BY <1>1, <1>2, Factor
<1> QED  BY <1>2, <1>3, <1>4

LEMMA ChunkBounds ==
  ASSUME NEW n \in Int, NEW q \in Int
  PROVE  /\ Chunk(n) = q <=> q * BLOCK_SIZE <= n /\ n < q * BLOCK_SIZE + BLOCK_SIZE
         /\ Chunk(n) < q <=> n < q * BLOCK_SIZE
         /\ q <= Chunk(n) <=> q * BLOCK_SIZE <= n
BY Sizes, Within DEF Chunk

(* How far the producer is, by where it is in enqueue_begin. *)
LEMMA HowFar ==
  ASSUME Types, RingInv
  PROVE  /\ {Started, Indexed, Shown, Oldest, Len(ring), Chunk(tailIndex)} \subseteq Nat
         /\ Started = Oldest + Len(ring)
         /\ producer \notin {"entry", "front"} => Shown = Started /\ Indexed = Started
         /\ producer = "entry" => Started = Shown + 1 /\ Indexed = Shown
         /\ producer = "front" => Started = Shown + 1 /\ Indexed = Started
         /\ producer \in {"entry", "front"} => tailIndex = Shown * BLOCK_SIZE
         /\ producer = "block" => tailIndex = Started * BLOCK_SIZE
         /\ producer \in {"fill", "commit"} =>
              Started = Chunk(tailIndex) + 1 /\ tailIndex < Started * BLOCK_SIZE
         /\ tailIndex <= Shown * BLOCK_SIZE
<1> USE Sizes
<1>1. tailIndex \in Nat /\ Chunk(tailIndex) \in Nat
  <2>1. tailIndex \in Nat /\ tailIndex \in Int
    BY DEF Types
  <2> QED  BY <2>1, ChunkOf
<1>2. /\ Len(ring) \in Nat /\ Len(ring) <= Started
      /\ producer \in {"block", "entry", "front"} => tailIndex % BLOCK_SIZE = 0
  BY DEF RingInv
<1> DEFINE c == Chunk(tailIndex)
<1>3. /\ c * BLOCK_SIZE \in Int /\ (c + 1) * BLOCK_SIZE = c * BLOCK_SIZE + BLOCK_SIZE
      /\ c * BLOCK_SIZE <= tailIndex /\ tailIndex < c * BLOCK_SIZE + BLOCK_SIZE
      /\ tailIndex % BLOCK_SIZE = tailIndex - c * BLOCK_SIZE
  BY <1>1, ChunkOf
<1> HIDE DEF c
<1>4. c = Chunk(tailIndex) /\ c \in Nat
  BY <1>1 DEF c
<1>5. CASE producer \in {"entry", "front"}
  <2>1. /\ Started = c + 1 /\ Shown = c
        /\ producer = "entry" => Indexed = c
        /\ producer = "front" => Indexed = c + 1
    BY <1>4, <1>5 DEF Started, Indexed, Shown
  <2>2. tailIndex = c * BLOCK_SIZE
    BY <1>1, <1>2, <1>3, <1>5
  <2>3. /\ {Started, Indexed, Shown, Oldest, Len(ring), Chunk(tailIndex)} \subseteq Nat
        /\ Started = Oldest + Len(ring)
    BY <1>1, <1>2, <1>4, <1>5, <2>1 DEF Oldest
  <2> QED  BY <1>1, <1>4, <1>5, <2>1, <2>2, <2>3, SMTT(40)
<1>6. CASE producer \in {"fill", "commit"}
  <2>1. Started = c + 1 /\ Shown = c + 1 /\ Indexed = c + 1
    BY <1>4, <1>6 DEF Started, Indexed, Shown
  <2>2. Shown * BLOCK_SIZE = c * BLOCK_SIZE + BLOCK_SIZE /\ Started * BLOCK_SIZE = Shown * BLOCK_SIZE
    BY <1>3, <2>1
  <2>3. tailIndex < Started * BLOCK_SIZE /\ tailIndex <= Shown * BLOCK_SIZE
    BY <1>1, <1>3, <2>2
  <2>4. /\ {Started, Indexed, Shown, Oldest, Len(ring), Chunk(tailIndex)} \subseteq Nat
        /\ Started = Oldest + Len(ring)
    BY <1>1, <1>2, <1>4, <2>1 DEF Oldest
  <2> QED  BY <1>4, <1>6, <2>1, <2>3, <2>4
<1>7. CASE producer = "block"
  BY <1>1, <1>2, <1>3, <1>4, <1>7 DEF Started, Indexed, Shown, Oldest
<1>8. CASE producer = "idle"
  <2>1. Shown = Started /\ Indexed = Started
    BY <1>8 DEF Indexed, Shown
  <2>2. CASE tailIndex % BLOCK_SIZE = 0
    <3>1. Started = c /\ tailIndex = c * BLOCK_SIZE
      BY <1>1, <1>3, <1>4, <1>8, <2>2 DEF Started
    <3> QED  BY <1>1, <1>2, <1>4, <1>8, <2>1, <3>1 DEF Oldest
  <2>3. CASE tailIndex % BLOCK_SIZE # 0
    <3>1. Started = c + 1
      BY <1>4, <1>8, <2>3 DEF Started
    <3>2. Shown * BLOCK_SIZE = c * BLOCK_SIZE + BLOCK_SIZE
      BY <1>3, <2>1, <3>1
    <3>3. tailIndex <= Shown * BLOCK_SIZE /\ Shown * BLOCK_SIZE \in Int
      BY <1>1, <1>3, <3>2
    <3>4. /\ {Started, Indexed, Shown, Oldest, Len(ring), Chunk(tailIndex)} \subseteq Nat
          /\ Started = Oldest + Len(ring)
      BY <1>1, <1>2, <1>4, <2>1, <3>1 DEF Oldest
    <3> QED  BY <1>8, <2>1, <3>3, <3>4
  <2> QED  BY <2>2, <2>3
<1> QED  BY <1>5, <1>6, <1>7, <1>8 DEF Types

(* The chunks that live have blocks, each one of its own, the last started *)
(* the last of the ring.                                                   *)
LEMMA Blocks ==
  ASSUME Types, RingInv
  PROVE  /\ \A c \in Living : c \in Nat /\ BlockOf(c) \in 1..Len(ring) /\ BlockOf(c) \in Nat
         /\ \A c, d \in Living : BlockOf(c) = BlockOf(d) => c = d
         /\ Started > 0 => Started - 1 \in Living /\ BlockOf(Started - 1) = TailBlock
         /\ ring # <<>> => Oldest \in Living /\ BlockOf(Oldest) = Head(ring)
<1>1. /\ Started \in Nat /\ Oldest \in Nat /\ Len(ring) \in Nat /\ Started = Oldest + Len(ring)
      /\ ring \in Seq(Nat)
  BY HowFar DEF RingInv
<1>2. \A c \in Living : c \in Nat /\ c - Oldest + 1 \in 1..Len(ring)
  BY <1>1 DEF Living
<1>3. \A c \in Living : BlockOf(c) \in 1..Len(ring)
  BY <1>2 DEF BlockOf, RingInv
<1>4. \A c, d \in Living : BlockOf(c) = BlockOf(d) => c = d
  <2> SUFFICES ASSUME NEW c \in Living, NEW d \in Living, BlockOf(c) = BlockOf(d) PROVE c = d
    OBVIOUS
  <2>1. c - Oldest + 1 = d - Oldest + 1
    BY <1>2 DEF BlockOf, RingInv
  <2> QED  BY <1>1, <1>2, <2>1
<1>5. Started > 0 => Started - 1 \in Living /\ BlockOf(Started - 1) = TailBlock
  <2> SUFFICES ASSUME Started > 0 PROVE Started - 1 \in Living /\ BlockOf(Started - 1) = TailBlock
    OBVIOUS
  <2>1. Len(ring) > 0
    BY DEF RingInv
  <2>2. Started - 1 - Oldest + 1 = Len(ring)
    BY <1>1
  <2> QED  BY <1>1, <2>1, <2>2 DEF Living, BlockOf, TailBlock, Last
<1>6. ring # <<>> => Oldest \in Living /\ BlockOf(Oldest) = Head(ring)
  <2>1. ring # <<>> => Len(ring) > 0
    BY <1>1
  <2>2. Oldest - Oldest + 1 = 1
    BY <1>1
  <2> QED  BY <1>1, <2>1, <2>2 DEF Living, BlockOf
<1> QED  BY <1>2, <1>3, <1>4, <1>5, <1>6

(* What is left of a bulk, and the part of it in the first chunk. *)
LEMMA Left ==
  ASSUME Types, BulkInv, consumer # "idle"
  PROVE  /\ FirstChunk \in Nat /\ LastChunk \in Nat /\ FirstChunk <= LastChunk
         /\ FirstChunk * BLOCK_SIZE \in Nat /\ Base(bulk.index) = FirstChunk * BLOCK_SIZE
         /\ (FirstChunk + 1) * BLOCK_SIZE = FirstChunk * BLOCK_SIZE + BLOCK_SIZE
         /\ FirstChunk * BLOCK_SIZE <= bulk.index
         /\ InBlock \in Nat /\ InBlock > 0
         /\ bulk.index + InBlock <= bulk.end
         /\ bulk.index + InBlock <= FirstChunk * BLOCK_SIZE + BLOCK_SIZE
         /\ bulk.index + InBlock # bulk.end =>
              /\ FirstChunk < LastChunk
              /\ bulk.index + InBlock = FirstChunk * BLOCK_SIZE + BLOCK_SIZE
<1> USE Sizes
<1>1. /\ bulk.index \in Nat /\ bulk.end \in Nat /\ bulk.index < bulk.end /\ bulk.end - 1 \in Nat
  BY DEF Types, BulkInv
<1>2. FirstChunk \in Nat /\ LastChunk \in Nat
  <2>1. bulk.index \in Int /\ bulk.end - 1 \in Int
    BY <1>1
  <2> QED  BY <1>1, <2>1, ChunkOf DEF FirstChunk, LastChunk
<1>3. /\ FirstChunk * BLOCK_SIZE \in Nat
      /\ (FirstChunk + 1) * BLOCK_SIZE = FirstChunk * BLOCK_SIZE + BLOCK_SIZE
      /\ FirstChunk * BLOCK_SIZE <= bulk.index /\ bulk.index < FirstChunk * BLOCK_SIZE + BLOCK_SIZE
  <2>1. bulk.index \in Int
    BY <1>1
  <2>2. FirstChunk * BLOCK_SIZE \in Nat
    BY <1>2
  <2> QED  BY <2>1, <2>2, ChunkOf DEF FirstChunk
<1>4. /\ FirstChunk <= LastChunk <=> FirstChunk * BLOCK_SIZE <= bulk.end - 1
      /\ FirstChunk + 1 <= LastChunk <=> (FirstChunk + 1) * BLOCK_SIZE <= bulk.end - 1
  BY <1>1, <1>2, ChunkBounds DEF LastChunk
<1>5. Base(bulk.index) = FirstChunk * BLOCK_SIZE
  BY DEF Base, FirstChunk, Chunk
<1>6. InBlock = (IF bulk.end < FirstChunk * BLOCK_SIZE + BLOCK_SIZE THEN bulk.end
                 ELSE FirstChunk * BLOCK_SIZE + BLOCK_SIZE) - bulk.index
  BY <1>5 DEF InBlock
<1>7. FirstChunk <= LastChunk
  BY <1>1, <1>3, <1>4
<1>8. CASE bulk.end < FirstChunk * BLOCK_SIZE + BLOCK_SIZE
  BY <1>1, <1>2, <1>3, <1>5, <1>6, <1>7, <1>8
<1>9. CASE ~(bulk.end < FirstChunk * BLOCK_SIZE + BLOCK_SIZE)
  <2>1. /\ InBlock = FirstChunk * BLOCK_SIZE + BLOCK_SIZE - bulk.index
        /\ FirstChunk * BLOCK_SIZE + BLOCK_SIZE <= bulk.end
    BY <1>1, <1>3, <1>6, <1>9
  <2> DEFINE base == FirstChunk * BLOCK_SIZE
  <2>2. base \in Nat /\ (FirstChunk + 1) * BLOCK_SIZE = base + BLOCK_SIZE
    BY <1>3
  <2>3. InBlock = base + BLOCK_SIZE - bulk.index /\ base + BLOCK_SIZE <= bulk.end
    BY <2>1
  <2>4. base <= bulk.index /\ bulk.index < base + BLOCK_SIZE
    BY <1>3
  <2> HIDE DEF base
  <2>5. /\ InBlock \in Nat /\ InBlock > 0 /\ bulk.index + InBlock = base + BLOCK_SIZE
        /\ bulk.index + InBlock <= bulk.end
    BY <1>1, <2>2, <2>3, <2>4
  <2>6. bulk.index + InBlock # bulk.end => FirstChunk < LastChunk
    <3>1. bulk.index + InBlock # bulk.end => base + BLOCK_SIZE <= bulk.end - 1
      BY <1>1, <2>2, <2>5
    <3> QED  BY <1>2, <1>4, <2>2, <3>1
  <2> QED  BY <1>2, <1>5, <1>7, <2>2, <2>4, <2>5, <2>6 DEF base
<1> QED  BY <1>8, <1>9

(* The chunks of a bulk live, and are in the index. *)
LEMMA BulkLives ==
  ASSUME Types, RingInv, BulkInv, consumer # "idle"
  PROVE  /\ Oldest <= FirstChunk /\ LastChunk < Shown
         /\ FirstChunk \in Living
<1> USE Sizes
<1>1. /\ bulk.index \in Nat /\ bulk.end \in Nat /\ bulk.end - 1 \in Nat
      /\ bulk.end <= tailIndex /\ tailIndex \in Nat
  BY DEF Types, BulkInv
<1>2. Oldest \in Nat /\ Shown \in Nat /\ Started \in Nat /\ tailIndex <= Shown * BLOCK_SIZE
      /\ Shown <= Started
  <2>1. Shown <= Started
    BY HowFar DEF Types
  <2> QED  BY <2>1, HowFar
<1>3. Oldest <= FirstChunk
  BY <1>1, <1>2, ChunkBounds DEF FirstChunk, RingInv
<1>4. LastChunk < Shown
  BY <1>1, <1>2, ChunkBounds DEF LastChunk
<1> QED  BY <1>2, <1>3, <1>4, Left DEF Living

(* A block index is as large as its array. *)
LEMMA HeaderSizes ==
  ASSUME HeadersInv, NEW h \in 1..Len(headers)
  PROVE  /\ HeaderSize(h) \in Nat \ {0} /\ headers[h].front \in Int
         /\ headers[h] \in Headers
         /\ headers[h].entries \in Entries(HeaderSize(h))
<1>1. headers[h] \in Headers
  BY DEF HeadersInv
<1>2. PICK n \in Nat \ {0} : headers[h].entries \in Entries(n)
  BY <1>1 DEF Headers
<1>3. HeaderSize(h) = n
  <2>1. DOMAIN headers[h].entries = 0..n - 1
    BY <1>2 DEF Entries
  <2>2. Cardinality(0..n - 1) = n
    <3>1. n - 1 - 0 + 1 = n /\ 0 \in Int /\ n - 1 \in Int /\ 0 <= n - 1
      OBVIOUS
    <3> QED  BY <3>1, FS_Interval
  <2> QED  BY <2>1, <2>2 DEF HeaderSize
<1> QED  BY <1>1, <1>2, <1>3 DEF Headers

-------------------------------------------------------------------------------
(* The consumer leaves the producer's places, blocks and index alone. *)
LEMMA ConsumerLeaves ==
  ASSUME UNCHANGED <<tailIndex, elements, producerVars>>
  PROVE  /\ Started' = Started /\ Shown' = Shown /\ Indexed' = Indexed /\ Oldest' = Oldest
         /\ Living' = Living /\ Len(ring)' = Len(ring)
         /\ \A c : BlockOf(c)' = BlockOf(c)
         /\ \A i : Written(i)' = Written(i)
         /\ \A h : HeaderSize(h)' = HeaderSize(h)
         /\ \A h, o, c : Slot(h, o, c)' = Slot(h, o, c) /\ Listed(h, o, c)' = Listed(h, o, c)
         /\ blockIndex' = blockIndex
<1>1. UNCHANGED <<tailIndex, elements, ring, headers, blockIndexFront, producer>>
  BY DEF producerVars
<1>2. Started' = Started /\ Shown' = Shown /\ Indexed' = Indexed /\ Oldest' = Oldest /\ Living' = Living
  BY <1>1 DEF Started, Shown, Indexed, Oldest, Living, Chunk
<1>3. \A c : BlockOf(c)' = BlockOf(c)
  BY <1>1, <1>2 DEF BlockOf
<1>4. \A i : Written(i)' = Written(i)
  BY <1>1 DEF Written
<1>5. \A h : HeaderSize(h)' = HeaderSize(h)
  BY <1>1 DEF HeaderSize
<1>6. \A h, o, c : Slot(h, o, c)' = Slot(h, o, c) /\ Entry(h, o, c)' = Entry(h, o, c)
  BY <1>1, <1>5 DEF Slot, Entry
<1>7. \A h, o, c : Listed(h, o, c)' = Listed(h, o, c)
  BY <1>3, <1>6 DEF Listed
<1> QED  BY <1>1, <1>2, <1>3, <1>4, <1>5, <1>6, <1>7 DEF blockIndex

LEMMA ConsumerKeeps ==
  ASSUME QueueInv, UNCHANGED <<tailIndex, elements, producerVars>>
  PROVE  /\ HeadersInv'
         /\ \A o : ProducerIndex(o)' = ProducerIndex(o)
         /\ (bulk'.index \in Nat /\ bulk.index <= bulk'.index => RingInv')
         /\ (dequeued' = dequeued /\ bulk'.index = bulk.index => BlocksInv')
<1>1. UNCHANGED <<tailIndex, elements, ring, headers, blockIndexFront, producer>>
  BY DEF producerVars
<1>2. HeadersInv'
  BY <1>1, ConsumerLeaves DEF QueueInv, HeadersInv
<1>3. \A o : ProducerIndex(o)' = ProducerIndex(o)
  BY <1>1, ConsumerLeaves DEF ProducerIndex, Header
<1>4. ASSUME bulk.index <= bulk'.index, bulk'.index \in Nat PROVE RingInv'
  <2>1. Oldest * BLOCK_SIZE \in Nat /\ bulk.index \in Nat
    BY Sizes, HowFar DEF QueueInv, Types
  <2>2. Oldest' * BLOCK_SIZE <= bulk'.index
    BY <1>4, <2>1, ConsumerLeaves DEF QueueInv, RingInv
  <2> QED  BY <1>1, <2>2, ConsumerLeaves DEF QueueInv, RingInv
<1>5. ASSUME dequeued' = dequeued, bulk'.index = bulk.index PROVE BlocksInv'
  <2>1. \A c : Emptied(c)' = Emptied(c)
    BY <1>5 DEF Emptied
  <2>2. \A c \in Living : dequeued[BlockOf(c)] = Emptied(c)
    BY DEF QueueInv, BlocksInv
  <2>3. \A c \in Living' : dequeued'[BlockOf(c)'] = Emptied(c)'
    BY <1>5, <2>1, <2>2, ConsumerLeaves
  <2>4. \A i \in Nat : Written(i) /\ Oldest <= Chunk(i) =>
          elements[BlockOf(Chunk(i))][i % BLOCK_SIZE] = i + 1
    BY DEF QueueInv, BlocksInv
  <2>5. \A i \in Nat : Written(i)' /\ Oldest' <= Chunk(i) =>
          elements'[BlockOf(Chunk(i))'][i % BLOCK_SIZE] = i + 1
    BY <1>1, <2>4, ConsumerLeaves
  <2> QED  BY <2>3, <2>5 DEF BlocksInv, Chunk
<1> QED  BY <1>2, <1>3, <1>4, <1>5

LEMMA ClaimStep ==
  ASSUME QueueInv, Claim
  PROVE  QueueInv'
<1>1. Types /\ RingInv /\ BulkInv
  BY DEF QueueInv
<1>2. /\ consumer = "idle" /\ consumer' = "index"
      /\ UNCHANGED <<tailIndex, elements, dequeued, producerVars, processed>>
  BY DEF Claim
<1>3. PICK tail \in Tails : 
        /\ tail > headIndex /\ seen' = tail
        /\ LET count == IF tail - headIndex < MaxBulk THEN tail - headIndex ELSE MaxBulk
           IN /\ headIndex' = headIndex + count
              /\ bulk' = [bulk EXCEPT !.index = headIndex, !.end = headIndex + count]
  BY DEF Claim
<1>4. /\ headIndex \in Nat /\ tail \in Nat /\ tail <= tailIndex /\ tailIndex \in Nat
      /\ bulk.index = headIndex /\ bulk.index \in Nat /\ seen \in Nat
  BY <1>1, <1>2 DEF Types, BulkInv, Tails
<1> DEFINE count == IF tail - headIndex < MaxBulk THEN tail - headIndex ELSE MaxBulk
<1>5. count \in Nat /\ count > 0 /\ headIndex + count <= tail
  BY <1>3, <1>4, Sizes
<1>6. headIndex' = headIndex + count /\ bulk' = [bulk EXCEPT !.index = headIndex, !.end = headIndex + count]
  BY <1>3
<1> HIDE DEF count
<1>7. /\ bulk'.index = headIndex /\ bulk'.end = headIndex + count /\ bulk'.header = bulk.header
      /\ bulk' \in [index : Nat, end : Nat, header : Nat, front : Int, slot : Int]
  <2>1. headIndex + count \in Nat
    BY <1>4, <1>5
  <2>2. bulk \in [index : Nat, end : Nat, header : Nat, front : Int, slot : Int]
    BY <1>1 DEF Types
  <2> QED  BY <1>4, <1>6, <2>1, <2>2
<1>8. Types'
  BY <1>1, <1>2, <1>3, <1>4, <1>5, <1>6, <1>7 DEF Types, producerVars
<1>9. RingInv' /\ BlocksInv' /\ HeadersInv' /\ \A o : ProducerIndex(o)' = ProducerIndex(o)
  BY <1>2, <1>4, <1>7, ConsumerKeeps
<1>10. BulkInv'
  <2>1. bulk'.index < bulk'.end /\ bulk'.end = headIndex' /\ headIndex' <= seen' /\ seen' <= tailIndex'
    BY <1>2, <1>3, <1>4, <1>5, <1>6, <1>7
  <2>2. processed' = [i \in 1..bulk'.index + 0 |-> i]
    BY <1>1, <1>2, <1>4, <1>7 DEF BulkInv
  <2>3. bulk'.index <= bulk'.end /\ (consumer' = "idle" <=> bulk'.index = bulk'.end)
    BY <1>2, <1>4, <1>5, <1>7
  <2> QED  BY <1>2, <2>1, <2>2, <2>3 DEF BulkInv
<1>11. IndexInv'
  BY <1>2, <1>9 DEF QueueInv, IndexInv, IndexAt
<1> QED  BY <1>8, <1>9, <1>10, <1>11 DEF QueueInv

LEMMA LoadIndexStep ==
  ASSUME QueueInv, LoadIndex
  PROVE  QueueInv'
<1>1. Types /\ RingInv /\ BulkInv /\ HeadersInv /\ IndexInv
  BY DEF QueueInv
<1>2. /\ consumer = "index" /\ consumer' = "front" /\ bulk' = [bulk EXCEPT !.header = blockIndex]
      /\ UNCHANGED <<tailIndex, headIndex, elements, dequeued, producerVars, seen, processed>>
  BY DEF LoadIndex, shared
<1>3. blockIndex \in Nat /\ blockIndex \in 1..blockIndex
  BY <1>1 DEF HeadersInv, blockIndex
<1>4. /\ bulk'.index = bulk.index /\ bulk'.end = bulk.end /\ bulk'.header = blockIndex
      /\ bulk' \in [index : Nat, end : Nat, header : Nat, front : Int, slot : Int]
      /\ bulk.index \in Nat
  BY <1>1, <1>2, <1>3 DEF Types
<1>5. Types'
  BY <1>1, <1>2, <1>4 DEF Types, producerVars
<1>6. RingInv' /\ BlocksInv' /\ HeadersInv' /\ \A o : ProducerIndex(o)' = ProducerIndex(o)
  BY <1>2, <1>4, ConsumerKeeps
<1>7. BulkInv'
  BY <1>1, <1>2, <1>4 DEF BulkInv
<1>8. IndexInv'
  <2>1. PICK o \in Int : ProducerIndex(o)
    BY <1>1 DEF IndexInv, IndexAt
  <2>2. FirstChunk' = FirstChunk /\ LastChunk' = LastChunk
    BY <1>4 DEF FirstChunk, LastChunk, Chunk
  <2>3. /\ FirstChunk \in Nat /\ LastChunk \in Nat /\ FirstChunk <= LastChunk
        /\ Oldest <= FirstChunk /\ LastChunk < Shown
    BY <1>1, <1>2, Left, BulkLives
  <2>4. Shown \in Nat /\ Shown > 0 /\ Shown - 1 \in Nat /\ Oldest \in Nat /\ Shown <= Indexed
        /\ Indexed \in Nat
    <3>1. Shown <= Indexed
      BY <1>1, HowFar DEF Types
    <3> QED  BY <1>1, <2>3, <3>1, HowFar
  <2>5. PICK p \in Nat, h \in Nat : p = Shown - 1 /\ h = blockIndex
    BY <1>3, <2>4
  <2>6. \A c \in (FirstChunk..LastChunk) \union {p} : Listed(h, o, c)
    <3>1. \A c \in (FirstChunk..LastChunk) \union {p} : c \in Oldest..Indexed - 1
      BY <2>3, <2>4, <2>5
    <3> QED  BY <2>1, <2>5, <3>1 DEF ProducerIndex
  <2>7. headers[h].front = Slot(h, o, p)
    BY <2>1, <2>4, <2>5 DEF ProducerIndex, Header
  <2>8. /\ blockIndex' = blockIndex /\ Shown' = Shown /\ headers' = headers
        /\ \A k, a, c : Slot(k, a, c)' = Slot(k, a, c) /\ Listed(k, a, c)' = Listed(k, a, c)
    BY <1>2, ConsumerLeaves DEF producerVars
  <2>9. ConsumerIndex(h, o, p)'
    <3>1. bulk'.header = h /\ h \in 1..blockIndex'
      BY <1>3, <1>4, <2>5, <2>8
    <3>2. LastChunk' <= p /\ p < Shown'
      BY <2>2, <2>3, <2>4, <2>5, <2>8
    <3>3. \A c \in (FirstChunk'..LastChunk') \union {p} : Listed(h, o, c)'
      BY <2>2, <2>6, <2>8
    <3>4. headers'[h].front = Slot(h, o, p)'
      BY <2>7, <2>8
    <3> QED  BY <1>2, <2>8, <3>1, <3>2, <3>3, <3>4 DEF ConsumerIndex
  <2>10. IndexAt(o, h, o, p)'
    BY <1>6, <2>1, <2>5, <2>8, <2>9 DEF IndexAt
  <2> QED  BY <2>10 DEF IndexInv
<1> QED  BY <1>5, <1>6, <1>7, <1>8 DEF QueueInv

(* A step of the consumer that keeps its bulk and loads from the index. *)
LEMMA LoadFrontStep ==
  ASSUME QueueInv, LoadFront
  PROVE  QueueInv'
<1>1. Types /\ RingInv /\ BulkInv /\ HeadersInv /\ IndexInv
  BY DEF QueueInv
<1>2. /\ consumer = "front" /\ consumer' = "slot"
      /\ bulk' = [bulk EXCEPT !.front = headers[bulk.header].front]
      /\ UNCHANGED <<tailIndex, headIndex, elements, dequeued, producerVars, seen, processed>>
  BY DEF LoadFront, shared
<1>3. PICK o \in Int, h \in Nat, q \in Int, p \in Nat : IndexAt(o, h, q, p)
  BY <1>1 DEF IndexInv
<1>4. ProducerIndex(o) /\ ConsumerIndex(h, q, p) /\ (h = blockIndex => q = o)
  BY <1>2, <1>3 DEF IndexAt
<1>5. h \in 1..Len(headers) /\ bulk.header = h /\ headers[h].front \in Int
  BY <1>1, <1>4, HeaderSizes DEF ConsumerIndex, blockIndex
<1>6. /\ bulk'.index = bulk.index /\ bulk'.end = bulk.end /\ bulk'.header = h
      /\ bulk'.front = headers[h].front
      /\ bulk' \in [index : Nat, end : Nat, header : Nat, front : Int, slot : Int]
      /\ bulk.index \in Nat
  BY <1>1, <1>2, <1>5 DEF Types
<1>7. Types'
  BY <1>1, <1>2, <1>6 DEF Types, producerVars
<1>8. RingInv' /\ BlocksInv' /\ HeadersInv' /\ \A a : ProducerIndex(a)' = ProducerIndex(a)
  BY <1>2, <1>6, ConsumerKeeps
<1>9. BulkInv'
  BY <1>1, <1>2, <1>6 DEF BulkInv
<1>10. ConsumerIndex(h, q, p)'
  <2>1. FirstChunk' = FirstChunk /\ LastChunk' = LastChunk
    BY <1>6 DEF FirstChunk, LastChunk, Chunk
  <2>2. /\ blockIndex' = blockIndex /\ Shown' = Shown
        /\ \A k, a, c : Slot(k, a, c)' = Slot(k, a, c) /\ Listed(k, a, c)' = Listed(k, a, c)
    BY <1>2, ConsumerLeaves
  <2>3. bulk'.front = Slot(h, q, p)'
    BY <1>2, <1>4, <1>6, <2>2 DEF ConsumerIndex
  <2>4. \A c \in (FirstChunk..LastChunk) \union {p} : Listed(h, q, c)
    BY <1>4 DEF ConsumerIndex
  <2>5. \A c \in (FirstChunk'..LastChunk') \union {p} : Listed(h, q, c)'
    BY <2>1, <2>2, <2>4
  <2>6. h \in 1..blockIndex' /\ LastChunk' <= p /\ p < Shown'
    BY <1>4, <2>1, <2>2 DEF ConsumerIndex
  <2> QED  BY <1>2, <1>6, <2>3, <2>5, <2>6 DEF ConsumerIndex
<1>11. h = blockIndex' => q = o
  BY <1>2, <1>4, <1>6, ConsumerLeaves
<1>12. IndexAt(o, h, q, p)'
  BY <1>4, <1>8, <1>10, <1>11 DEF IndexAt
<1> QED  BY <1>7, <1>8, <1>9, <1>12 DEF QueueInv, IndexInv

(* The place of a chunk is counted from that of another. *)
LEMMA CountBack ==
  ASSUME NEW a \in Int, NEW b \in Int, NEW o \in Int, NEW d \in Nat \ {0}
  PROVE  (((o + b) % d) + ((a * BLOCK_SIZE - b * BLOCK_SIZE) \div BLOCK_SIZE)) % d = (o + a) % d
<1>1. a * BLOCK_SIZE - b * BLOCK_SIZE = (a - b) * BLOCK_SIZE + 0 /\ 0 \in 0..BLOCK_SIZE - 1
  BY Sizes
<1>2. (a * BLOCK_SIZE - b * BLOCK_SIZE) \div BLOCK_SIZE = a - b
  <2>1. a - b \in Int
    OBVIOUS
  <2>2. ((a - b) * BLOCK_SIZE + 0) \div BLOCK_SIZE = a - b
    BY <1>1, <2>1, Sizes, Unique
  <2> QED  BY <1>1, <2>2
<1>3. o + b \in Int /\ a - b \in Int /\ (o + b) + (a - b) = o + a
  OBVIOUS
<1>4. (((o + b) % d) + (a - b)) % d = ((o + b) + (a - b)) % d
  BY <1>3, Cyclic
<1> QED  BY <1>2, <1>3, <1>4

LEMMA FindSlotStep ==
  ASSUME QueueInv, FindSlot
  PROVE  QueueInv'
<1>1. Types /\ RingInv /\ BulkInv /\ HeadersInv /\ IndexInv
  BY DEF QueueInv
<1>0. PICK o \in Int, h \in Nat, q \in Int, p \in Nat : IndexAt(o, h, q, p)
  BY <1>1 DEF IndexInv
<1> DEFINE headBase == headers[h].entries[bulk.front].base
           slot == (bulk.front + ((Base(bulk.index) - headBase) \div BLOCK_SIZE)) % HeaderSize(h)
<1>2. /\ consumer = "slot" /\ consumer' = "process"
      /\ UNCHANGED <<tailIndex, headIndex, elements, dequeued, producerVars, seen, processed>>
  BY DEF FindSlot, shared
<1>4. ProducerIndex(o) /\ ConsumerIndex(h, q, p) /\ (h = blockIndex => q = o)
  BY <1>0, <1>2 DEF IndexAt
<1>3. bulk.header = h /\ bulk' = [bulk EXCEPT !.slot = slot]
  BY <1>4 DEF FindSlot, ConsumerIndex
<1>5. FirstChunk \in Nat /\ Base(bulk.index) = FirstChunk * BLOCK_SIZE
  BY <1>1, <1>2, Left
<1>6. h \in 1..Len(headers) /\ HeaderSize(h) \in Nat \ {0}
  BY <1>1, <1>4, HeaderSizes DEF ConsumerIndex, blockIndex
<1>7. slot = Slot(h, q, FirstChunk)
  <2>1. bulk.front = Slot(h, q, p) /\ Listed(h, q, p)
    BY <1>2, <1>4 DEF ConsumerIndex
  <2>2. headBase = p * BLOCK_SIZE
    BY <2>1 DEF Listed, Entry
  <2> HIDE DEF headBase
  <2>3. slot = (((q + p) % HeaderSize(h)) + ((FirstChunk * BLOCK_SIZE - p * BLOCK_SIZE) \div BLOCK_SIZE))
                 % HeaderSize(h)
    BY <1>5, <2>1, <2>2 DEF Slot
  <2> QED  BY <1>5, <1>6, <2>3, CountBack DEF Slot
<1>8. slot \in Int
  <2>1. q + FirstChunk \in Int
    BY <1>5
  <2>2. (q + FirstChunk) % HeaderSize(h) \in 0..HeaderSize(h) - 1
    BY <1>6, <2>1, Cyclic
  <2> QED  BY <1>6, <1>7, <2>2 DEF Slot
<1> HIDE DEF slot
<1>9. /\ bulk'.index = bulk.index /\ bulk'.end = bulk.end /\ bulk'.header = h
      /\ bulk'.slot = slot
      /\ bulk' \in [index : Nat, end : Nat, header : Nat, front : Int, slot : Int]
      /\ bulk.index \in Nat
  BY <1>1, <1>3, <1>8 DEF Types
<1>10. Types'
  BY <1>1, <1>2, <1>9 DEF Types, producerVars
<1>11. RingInv' /\ BlocksInv' /\ HeadersInv' /\ \A a : ProducerIndex(a)' = ProducerIndex(a)
  BY <1>2, <1>9, ConsumerKeeps
<1>12. BulkInv'
  BY <1>1, <1>2, <1>9 DEF BulkInv
<1>13. ConsumerIndex(h, q, p)'
  <2>1. FirstChunk' = FirstChunk /\ LastChunk' = LastChunk
    BY <1>9 DEF FirstChunk, LastChunk, Chunk
  <2>2. /\ blockIndex' = blockIndex /\ Shown' = Shown
        /\ \A k, a, c : Slot(k, a, c)' = Slot(k, a, c) /\ Listed(k, a, c)' = Listed(k, a, c)
    BY <1>2, ConsumerLeaves
  <2>3. \A c \in (FirstChunk..LastChunk) \union {p} : Listed(h, q, c)
    BY <1>4 DEF ConsumerIndex
  <2>4. \A c \in (FirstChunk'..LastChunk') \union {p} : Listed(h, q, c)'
    BY <2>1, <2>2, <2>3
  <2>5. h \in 1..blockIndex' /\ LastChunk' <= p /\ p < Shown'
    BY <1>4, <2>1, <2>2 DEF ConsumerIndex
  <2>6. bulk'.slot = (q + FirstChunk') % HeaderSize(h)'
    BY <1>2, <1>7, <1>9, <2>1, ConsumerLeaves DEF Slot
  <2> QED  BY <1>2, <1>9, <2>4, <2>5, <2>6 DEF ConsumerIndex, Slot
<1>14. h = blockIndex' => q = o
  BY <1>2, <1>4, <1>9, ConsumerLeaves
<1>15. IndexAt(o, h, q, p)'
  BY <1>4, <1>11, <1>13, <1>14 DEF IndexAt
<1> QED  BY <1>10, <1>11, <1>12, <1>15 DEF QueueInv, IndexInv

LEMMA Joined ==
  ASSUME NEW a \in Nat, NEW b \in Nat
  PROVE  [i \in 1..a |-> i] \o [i \in 1..b |-> a + i] = [i \in 1..a + b |-> i]
<1> DEFINE s == [i \in 1..a |-> i]
           t == [i \in 1..b |-> a + i]
           u == [i \in 1..a + b |-> i]
<1>1. s \in Seq(Nat) /\ t \in Seq(Nat) /\ u \in Seq(Nat) /\ Len(s) = a /\ Len(t) = b /\ Len(u) = a + b
  OBVIOUS
<1>2. s \o t \in Seq(Nat) /\ Len(s \o t) = a + b
  BY <1>1, ConcatProperties
<1>3. \A i \in 1..a + b : (s \o t)[i] = u[i]
  <2> TAKE i \in 1..a + b
  <2>1. (s \o t)[i] = IF i <= a THEN s[i] ELSE t[i - a]
    BY <1>1
  <2>2. CASE i <= a
    BY <2>1, <2>2
  <2>3. CASE ~(i <= a)
    <3>1. i - a \in 1..b /\ a + (i - a) = i
      BY <2>3
    <3> QED  BY <2>1, <2>3, <3>1
  <2> QED  BY <2>2, <2>3
<1> HIDE DEF s, t, u
<1> QED  BY <1>1, <1>2, <1>3, SeqEqual DEF s, t, u

(* The block the consumer reads is that of its first chunk. *)
LEMMA BlockRead ==
  ASSUME QueueInv, consumer \in {"process", "release"}
  PROVE  BulkBlock = BlockOf(FirstChunk) /\ FirstChunk \in Living
<1>1. PICK o \in Int, h \in Nat, q \in Int, p \in Nat : IndexAt(o, h, q, p)
  BY DEF QueueInv, IndexInv
<1>2. bulk.header = h /\ bulk.slot = Slot(h, q, FirstChunk) /\ \A c \in FirstChunk..LastChunk : Listed(h, q, c)
  BY <1>1 DEF IndexAt, ConsumerIndex
<1>3. FirstChunk \in FirstChunk..LastChunk /\ FirstChunk \in Living
  BY Left, BulkLives DEF QueueInv
<1>4. Listed(h, q, FirstChunk)
  BY <1>2, <1>3
<1> QED  BY <1>2, <1>3, <1>4 DEF BulkBlock, Listed, Entry

(* What it reads there are the next elements. *)
LEMMA ElementsRead ==
  ASSUME QueueInv, consumer = "process"
  PROVE  \A i \in 1..InBlock :
           elements[BulkBlock][(bulk.index + i - 1) % BLOCK_SIZE] = bulk.index + i
<1> SUFFICES ASSUME NEW i \in 1..InBlock
             PROVE  elements[BulkBlock][(bulk.index + i - 1) % BLOCK_SIZE] = bulk.index + i
  OBVIOUS
<1>1. PICK m \in Int : m = bulk.index + i - 1
  BY Left DEF QueueInv, Types
<1>2. /\ bulk.index \in Nat /\ bulk.end \in Nat /\ bulk.end <= tailIndex /\ tailIndex \in Nat
  BY DEF QueueInv, Types, BulkInv
<1>3. /\ FirstChunk \in Nat /\ FirstChunk * BLOCK_SIZE \in Nat /\ FirstChunk * BLOCK_SIZE <= bulk.index
      /\ InBlock \in Nat /\ bulk.index + InBlock <= bulk.end
      /\ bulk.index + InBlock <= FirstChunk * BLOCK_SIZE + BLOCK_SIZE
  BY Left DEF QueueInv
<1>4. m \in Nat /\ m + 1 = bulk.index + i /\ m < tailIndex
  BY <1>1, <1>2, <1>3
<1>5. Chunk(m) = FirstChunk
  <2>1. FirstChunk * BLOCK_SIZE <= m /\ m < FirstChunk * BLOCK_SIZE + BLOCK_SIZE
    BY <1>1, <1>2, <1>3, Sizes
  <2> QED  BY <1>3, <2>1, ChunkBounds
<1>6. Written(m) /\ Oldest <= Chunk(m)
  BY <1>4, <1>5, BulkLives DEF Written, QueueInv
<1>7. elements[BlockOf(Chunk(m))][m % BLOCK_SIZE] = m + 1
  BY <1>4, <1>6 DEF QueueInv, BlocksInv
<1>8. BulkBlock = BlockOf(Chunk(m))
  BY <1>5, BlockRead
<1> QED  BY <1>1, <1>4, <1>7, <1>8

LEMMA ProcessStep ==
  ASSUME QueueInv, Process
  PROVE  QueueInv'
<1>1. Types /\ RingInv /\ BulkInv /\ HeadersInv /\ IndexInv
  BY DEF QueueInv
<1>2. /\ consumer = "process" /\ consumer' = "release"
      /\ UNCHANGED <<tailIndex, headIndex, elements, dequeued, producerVars, seen, bulk>>
      /\ processed' = processed \o [i \in 1..InBlock |->
                        elements[BulkBlock][(bulk.index + i - 1) % BLOCK_SIZE]]
  BY DEF Process, shared
<1>3. PICK o \in Int, h \in Nat, q \in Int, p \in Nat : IndexAt(o, h, q, p)
  BY <1>1 DEF IndexInv
<1>4. ProducerIndex(o) /\ ConsumerIndex(h, q, p) /\ (h = blockIndex => q = o)
  BY <1>2, <1>3 DEF IndexAt
<1>5. Types'
  BY <1>1, <1>2 DEF Types, producerVars
<1>6. bulk' = bulk /\ bulk.index \in Nat
  BY <1>1, <1>2 DEF Types
<1>7. RingInv' /\ BlocksInv' /\ HeadersInv' /\ \A a : ProducerIndex(a)' = ProducerIndex(a)
  BY <1>2, <1>6, ConsumerKeeps
<1>8. BulkInv'
  <2>1. InBlock \in Nat /\ InBlock' = InBlock
    BY <1>1, <1>2, <1>6, Left DEF InBlock, Base
  <2>2. processed = [i \in 1..bulk.index |-> i]
    <3>1. bulk.index + 0 = bulk.index
      BY <1>6
    <3> QED  BY <1>1, <1>2, <3>1 DEF BulkInv
  <2>3. [i \in 1..InBlock |-> elements[BulkBlock][(bulk.index + i - 1) % BLOCK_SIZE]]
          = [i \in 1..InBlock |-> bulk.index + i]
    BY <1>2, ElementsRead
  <2>4. processed' = [i \in 1..bulk.index + InBlock |-> i]
    BY <1>2, <1>6, <2>1, <2>2, <2>3, Joined
  <2>5. processed' = [i \in 1..bulk'.index + InBlock' |-> i]
    BY <1>6, <2>1, <2>4
  <2>6. /\ bulk'.index <= bulk'.end /\ bulk'.end = headIndex'
        /\ headIndex' <= seen' /\ seen' <= tailIndex' /\ bulk'.index # bulk'.end
    BY <1>1, <1>2 DEF BulkInv
  <2> QED  BY <1>2, <2>5, <2>6 DEF BulkInv
<1>9. ConsumerIndex(h, q, p)'
  <2>1. FirstChunk' = FirstChunk /\ LastChunk' = LastChunk
    BY <1>6 DEF FirstChunk, LastChunk, Chunk
  <2>2. /\ blockIndex' = blockIndex /\ Shown' = Shown
        /\ \A k, a, c : Slot(k, a, c)' = Slot(k, a, c) /\ Listed(k, a, c)' = Listed(k, a, c)
        /\ \A k : HeaderSize(k)' = HeaderSize(k)
    BY <1>2, ConsumerLeaves
  <2>3. \A c \in (FirstChunk..LastChunk) \union {p} : Listed(h, q, c)
    BY <1>4 DEF ConsumerIndex
  <2>4. \A c \in (FirstChunk'..LastChunk') \union {p} : Listed(h, q, c)'
    BY <2>1, <2>2, <2>3
  <2>5. h \in 1..blockIndex' /\ LastChunk' <= p /\ p < Shown' /\ bulk'.header = h
    BY <1>4, <1>6, <2>1, <2>2 DEF ConsumerIndex
  <2>6. bulk'.slot = (q + FirstChunk') % HeaderSize(h)'
    BY <1>2, <1>4, <1>6, <2>1, <2>2 DEF ConsumerIndex, Slot
  <2> QED  BY <1>2, <2>4, <2>5, <2>6 DEF ConsumerIndex, Slot
<1>10. h = blockIndex' => q = o
  BY <1>2, <1>4, ConsumerLeaves
<1>11. IndexAt(o, h, q, p)'
  BY <1>4, <1>7, <1>9, <1>10 DEF IndexAt
<1> QED  BY <1>5, <1>7, <1>8, <1>11 DEF QueueInv, IndexInv

LEMMA ReleaseStep ==
  ASSUME QueueInv, Release
  PROVE  QueueInv'
<1>1. Types /\ RingInv /\ BlocksInv /\ BulkInv /\ HeadersInv /\ IndexInv
  BY DEF QueueInv
<1>2. /\ consumer = "release" /\ consumer' = IF bulk'.index = bulk.end THEN "idle" ELSE "process"
      /\ UNCHANGED <<tailIndex, headIndex, elements, producerVars, seen, processed>>
      /\ dequeued' = [dequeued EXCEPT ![BulkBlock] = @ + InBlock]
  BY DEF Release
<1>3. PICK o \in Int, h \in Nat, q \in Int, p \in Nat : IndexAt(o, h, q, p)
  BY <1>1 DEF IndexInv
<1>4. ProducerIndex(o) /\ ConsumerIndex(h, q, p) /\ (h = blockIndex => q = o)
  BY <1>2, <1>3 DEF IndexAt
<1>5. h \in 1..Len(headers) /\ HeaderSize(h) \in Nat \ {0}
  BY <1>1, <1>4, HeaderSizes DEF ConsumerIndex, blockIndex
<1> DEFINE next == bulk.index + InBlock
           slot == (bulk.slot + 1) % HeaderSize(h)
           base == FirstChunk * BLOCK_SIZE
<1>6. bulk.header = h /\ bulk' = [bulk EXCEPT !.index = next, !.slot = slot]
  BY <1>4 DEF Release, ConsumerIndex
<1>7. /\ bulk.index \in Nat /\ bulk.end \in Nat /\ next \in Nat /\ base \in Nat /\ InBlock \in Nat
      /\ base <= bulk.index /\ bulk.index < next /\ next <= bulk.end /\ next <= base + BLOCK_SIZE
      /\ FirstChunk \in Nat /\ (FirstChunk + 1) * BLOCK_SIZE = base + BLOCK_SIZE
      /\ next # bulk.end => FirstChunk < LastChunk /\ next = base + BLOCK_SIZE
  <2>1. bulk.index \in Nat /\ bulk.end \in Nat
    BY <1>1 DEF Types
  <2>2. /\ FirstChunk \in Nat /\ (FirstChunk + 1) * BLOCK_SIZE = base + BLOCK_SIZE
        /\ base \in Nat /\ base <= bulk.index /\ InBlock \in Nat /\ InBlock > 0
        /\ bulk.index + InBlock <= bulk.end /\ bulk.index + InBlock <= base + BLOCK_SIZE
        /\ bulk.index + InBlock # bulk.end =>
             FirstChunk < LastChunk /\ bulk.index + InBlock = base + BLOCK_SIZE
    BY <1>1, <1>2, Left
  <2> HIDE DEF base
  <2> QED  BY <2>1, <2>2
<1>8. slot = Slot(h, q, FirstChunk + 1) /\ slot \in Int
  <2>1. bulk.slot = (q + FirstChunk) % HeaderSize(h)
    BY <1>2, <1>4 DEF ConsumerIndex, Slot
  <2>2. q + FirstChunk \in Int /\ (q + FirstChunk) + 1 = q + (FirstChunk + 1)
        /\ q + (FirstChunk + 1) \in Int
    BY <1>7
  <2>3. (((q + FirstChunk) % HeaderSize(h)) + 1) % HeaderSize(h) = ((q + FirstChunk) + 1) % HeaderSize(h)
    <3>1. PICK a \in Int : a = q + FirstChunk
      BY <2>2
    <3>2. PICK d \in Nat \ {0} : d = HeaderSize(h)
      BY <1>5
    <3>3. PICK b \in Int : b = 1
      OBVIOUS
    <3>4. ((a % d) + b) % d = (a + b) % d
      BY Cyclic
    <3> QED  BY <3>1, <3>2, <3>3, <3>4
  <2>4. (q + (FirstChunk + 1)) % HeaderSize(h) \in 0..HeaderSize(h) - 1
    BY <1>5, <2>2, Cyclic
  <2>5. slot = (q + (FirstChunk + 1)) % HeaderSize(h)
    BY <2>1, <2>2, <2>3
  <2> QED  BY <1>5, <2>4, <2>5 DEF Slot
<1> HIDE DEF slot, next
<1>9. /\ bulk'.index = next /\ bulk'.end = bulk.end /\ bulk'.header = h /\ bulk'.slot = slot
      /\ bulk' \in [index : Nat, end : Nat, header : Nat, front : Int, slot : Int]
  BY <1>1, <1>6, <1>7, <1>8 DEF Types
<1>10. /\ BulkBlock = BlockOf(FirstChunk) /\ FirstChunk \in Living
       /\ BlockOf(FirstChunk) \in 1..Len(dequeued)
  BY <1>1, <1>2, BlockRead, Blocks DEF Types
<1>11. Types'
  <2>1. dequeued' \in Seq(Nat) /\ Len(dequeued') = Len(dequeued)
    <3>1. dequeued \in Seq(Nat) /\ BulkBlock \in 1..Len(dequeued) /\ InBlock \in Nat
      BY <1>1, <1>7, <1>10 DEF Types
    <3>2. dequeued[BulkBlock] + InBlock \in Nat
      BY ONLY <3>1
    <3> QED  BY <1>2, <3>1, <3>2
  <2>2. consumer' \in {"idle", "index", "front", "slot", "process", "release"}
    BY <1>2
  <2> QED  BY <1>1, <1>2, <1>9, <2>1, <2>2 DEF Types, producerVars
<1>12. RingInv' /\ HeadersInv' /\ \A a : ProducerIndex(a)' = ProducerIndex(a)
  BY <1>2, <1>7, <1>9, ConsumerKeeps
<1>13. BlocksInv'
  <2>1. ASSUME NEW c \in Living PROVE dequeued'[BlockOf(c)] = Emptied(c)'
    <3>1. /\ BlockOf(c) \in 1..Len(dequeued) /\ c \in Nat /\ dequeued[BlockOf(c)] = Emptied(c)
          /\ BlockOf(c) = BlockOf(FirstChunk) => c = FirstChunk
      BY <1>1, <1>10, <2>1, Blocks DEF Types, BlocksInv
    <3>2. dequeued'[BlockOf(c)] = IF c = FirstChunk THEN Emptied(c) + InBlock ELSE Emptied(c)
      BY <1>1, <1>2, <1>10, <3>1 DEF Types
    <3>3. c * BLOCK_SIZE \in Int /\ (c + 1) * BLOCK_SIZE = c * BLOCK_SIZE + BLOCK_SIZE
      BY <3>1, Sizes, Factor
    <3>4. Emptied(c)' = IF next <= c * BLOCK_SIZE THEN 0
                        ELSE IF next < c * BLOCK_SIZE + BLOCK_SIZE THEN next - c * BLOCK_SIZE
                        ELSE BLOCK_SIZE
      BY <1>9, <3>3 DEF Emptied
    <3>5. Emptied(c) = IF bulk.index <= c * BLOCK_SIZE THEN 0
                       ELSE IF bulk.index < c * BLOCK_SIZE + BLOCK_SIZE THEN bulk.index - c * BLOCK_SIZE
                       ELSE BLOCK_SIZE
      BY <3>3 DEF Emptied
    <3>6. CASE c = FirstChunk
      <4>1. next = bulk.index + InBlock
        BY DEF next
      <4>2. Emptied(c) = bulk.index - base
        BY <1>7, <3>5, <3>6, <4>1, Sizes
      <4>3. Emptied(c)' = next - base
        BY <1>7, <3>4, <3>6, Sizes
      <4> QED  BY <1>7, <3>2, <3>6, <4>1, <4>2, <4>3
    <3>7. CASE c < FirstChunk
      <4>1. c * BLOCK_SIZE + BLOCK_SIZE <= base
        BY <1>7, <3>1, <3>7, Sizes, Multiples
      <4>2. Emptied(c) = BLOCK_SIZE /\ Emptied(c)' = BLOCK_SIZE
        BY <1>7, <3>3, <3>4, <3>5, <4>1, Sizes
      <4> QED  BY <1>7, <3>1, <3>2, <3>7, <4>2
    <3>8. CASE FirstChunk < c
      <4>1. base + BLOCK_SIZE <= c * BLOCK_SIZE
        BY <1>7, <3>1, <3>8, Sizes, Multiples
      <4>2. Emptied(c) = 0 /\ Emptied(c)' = 0
        BY <1>7, <3>3, <3>4, <3>5, <4>1, Sizes
      <4> QED  BY <1>7, <3>1, <3>2, <3>8, <4>2
    <3> QED  BY <1>7, <3>1, <3>6, <3>7, <3>8
  <2>2. \A c \in Living' : dequeued'[BlockOf(c)'] = Emptied(c)'
    BY <1>2, <2>1, ConsumerLeaves
  <2>3. \A i \in Nat : Written(i) /\ Oldest <= Chunk(i) =>
          elements[BlockOf(Chunk(i))][i % BLOCK_SIZE] = i + 1
    BY <1>1 DEF BlocksInv
  <2>4. \A i \in Nat : Written(i)' /\ Oldest' <= Chunk(i) =>
          elements'[BlockOf(Chunk(i))'][i % BLOCK_SIZE] = i + 1
    BY <1>2, <2>3, ConsumerLeaves
  <2> QED  BY <2>2, <2>4 DEF BlocksInv, Chunk
<1>14. BulkInv'
  <2>1. processed' = [i \in 1..bulk'.index + 0 |-> i]
    <3>1. processed' = [i \in 1..bulk.index + InBlock |-> i]
      BY <1>1, <1>2 DEF BulkInv
    <3>2. bulk.index + InBlock = bulk'.index + 0
      BY <1>7, <1>9 DEF next
    <3> QED  BY <3>1, <3>2
  <2>2. consumer' # "release" /\ (consumer' = "idle" <=> bulk'.index = bulk'.end)
    BY <1>2, <1>9
  <2>3. /\ bulk'.index <= bulk'.end /\ bulk'.end = headIndex'
        /\ headIndex' <= seen' /\ seen' <= tailIndex'
    BY <1>1, <1>2, <1>7, <1>9 DEF BulkInv
  <2> QED  BY <2>1, <2>2, <2>3 DEF BulkInv
<1>15. CASE consumer' = "idle"
  <2>1. IndexAt(o, h, q, p)'
    BY <1>4, <1>12, <1>15 DEF IndexAt
  <2> QED  BY <1>11, <1>12, <1>13, <1>14, <2>1 DEF QueueInv, IndexInv
<1>16. CASE consumer' = "process"
  <2>1. FirstChunk < LastChunk /\ next = base + BLOCK_SIZE /\ LastChunk \in Nat
    <3>1. next # bulk.end
      BY <1>2, <1>9, <1>16
    <3> QED  BY <1>1, <1>2, <1>7, <3>1, Left
  <2>2. LastChunk' = LastChunk
    BY <1>9 DEF LastChunk, Chunk
  <2>3. FirstChunk' = FirstChunk + 1
    <3>1. Chunk(next) = FirstChunk + 1
      <4>1. FirstChunk + 1 \in Int /\ (FirstChunk + 1) * BLOCK_SIZE = next
            /\ next < (FirstChunk + 1) * BLOCK_SIZE + BLOCK_SIZE
        BY <1>7, <2>1, Sizes
      <4> QED  BY <1>7, <4>1, ChunkBounds
    <3> QED  BY <1>9, <3>1 DEF FirstChunk, Chunk
  <2>4. /\ blockIndex' = blockIndex /\ Shown' = Shown
        /\ \A k, a, c : Slot(k, a, c)' = Slot(k, a, c) /\ Listed(k, a, c)' = Listed(k, a, c)
        /\ \A k : HeaderSize(k)' = HeaderSize(k)
    BY <1>2, ConsumerLeaves
  <2>5. \A c \in (FirstChunk'..LastChunk') \union {p} : Listed(h, q, c)'
    <3>1. \A c \in (FirstChunk..LastChunk) \union {p} : Listed(h, q, c)
      BY <1>4 DEF ConsumerIndex
    <3>2. FirstChunk'..LastChunk' \subseteq FirstChunk..LastChunk
      BY <1>7, <2>1, <2>2, <2>3
    <3> QED  BY <2>4, <3>1, <3>2
  <2>6. h \in 1..blockIndex' /\ LastChunk' <= p /\ p < Shown' /\ bulk'.header = h
    BY <1>4, <1>9, <2>2, <2>4 DEF ConsumerIndex
  <2>7. bulk'.slot = (q + FirstChunk') % HeaderSize(h)'
    BY <1>8, <1>9, <2>3, <2>4 DEF Slot
  <2>8. ConsumerIndex(h, q, p)'
    BY <1>16, <2>5, <2>6, <2>7 DEF ConsumerIndex, Slot
  <2>9. IndexAt(o, h, q, p)'
    BY <1>4, <1>12, <2>4, <2>8 DEF IndexAt
  <2> QED  BY <1>11, <1>12, <1>13, <1>14, <2>9 DEF QueueInv, IndexInv
<1> QED  BY <1>2, <1>15, <1>16

-------------------------------------------------------------------------------
(* The producer leaves the bulk of the consumer alone. *)
LEMMA ProducerLeaves ==
  ASSUME UNCHANGED consumerVars
  PROVE  /\ consumer' = consumer /\ bulk' = bulk /\ seen' = seen /\ processed' = processed
         /\ FirstChunk' = FirstChunk /\ LastChunk' = LastChunk /\ InBlock' = InBlock
         /\ \A c : Emptied(c)' = Emptied(c)
<1>1. consumer' = consumer /\ bulk' = bulk /\ seen' = seen /\ processed' = processed
  BY DEF consumerVars
<1> QED  BY <1>1 DEF FirstChunk, LastChunk, Chunk, InBlock, Base, Emptied

LEMMA BulkKept ==
  ASSUME Types, BulkInv, UNCHANGED <<headIndex, consumerVars>>,
         tailIndex' \in Nat, tailIndex <= tailIndex'
  PROVE  BulkInv'
<1>1. headIndex' = headIndex /\ seen <= tailIndex'
  BY DEF Types, BulkInv
<1> QED  BY <1>1, ProducerLeaves DEF BulkInv

(* What the consumer knows of an index stays true while that index keeps   *)
(* its size, what it shows last and the entries of the bulk.               *)
LEMMA ConsumerIndexKept ==
  ASSUME NEW h, NEW q, NEW p, ConsumerIndex(h, q, p), UNCHANGED consumerVars,
         h \in 1..blockIndex', p < Shown', HeaderSize(h)' = HeaderSize(h),
         consumer = "front" => headers'[h].front = headers[h].front,
         \A c \in (FirstChunk..LastChunk) \union {p} : Listed(h, q, c)'
  PROVE  ConsumerIndex(h, q, p)'
<1>1. \A c : (q + c) % HeaderSize(h)' = Slot(h, q, c)
  BY DEF Slot
<1>2. /\ bulk'.header = h /\ LastChunk' <= p
      /\ \A c \in (FirstChunk'..LastChunk') \union {p} : Listed(h, q, c)'
  BY ProducerLeaves DEF ConsumerIndex
<1>3. /\ consumer' = "front" => headers'[h].front = (q + p) % HeaderSize(h)'
      /\ consumer' = "slot" => bulk'.front = (q + p) % HeaderSize(h)'
      /\ consumer' \in {"process", "release"} => bulk'.slot = (q + FirstChunk') % HeaderSize(h)'
  BY <1>1, ProducerLeaves DEF ConsumerIndex
<1> QED  BY <1>2, <1>3 DEF ConsumerIndex, Slot

(* Where no block and no entry is added, the index stays as it is. *)
LEMMA IndexKept ==
  ASSUME QueueInv, UNCHANGED <<headIndex, dequeued, ring, headers, blockIndexFront, consumerVars>>,
         tailIndex' \in Nat, tailIndex <= tailIndex',
         Started' = Started, Indexed' = Indexed, Shown' = Shown
  PROVE  /\ HeadersInv' /\ BulkInv' /\ IndexInv'
         /\ Oldest' = Oldest /\ Living' = Living /\ \A c : BlockOf(c)' = BlockOf(c)
         /\ \A c \in Living' : dequeued'[BlockOf(c)'] = Emptied(c)'
         /\ (producer' \in {"block", "entry", "front"} => tailIndex' % BLOCK_SIZE = 0) => RingInv'
<1>1. Types /\ RingInv /\ BlocksInv /\ BulkInv /\ HeadersInv /\ IndexInv
  BY DEF QueueInv
<1>2. Oldest' = Oldest /\ Living' = Living
  BY DEF Oldest, Living
<1>3. \A c : BlockOf(c)' = BlockOf(c)
  BY <1>2 DEF BlockOf
<1>4. \A c \in Living' : dequeued'[BlockOf(c)'] = Emptied(c)'
  BY <1>1, <1>2, <1>3, ProducerLeaves DEF BlocksInv
<1>5. BulkInv'
  BY <1>1, BulkKept
<1>6. blockIndex' = blockIndex /\ \A h : HeaderSize(h)' = HeaderSize(h)
  BY DEF blockIndex, HeaderSize
<1>7. HeadersInv'
  BY <1>1, <1>6 DEF HeadersInv
<1>8. \A h, o, c : Slot(h, o, c)' = Slot(h, o, c) /\ Listed(h, o, c)' = Listed(h, o, c)
  BY <1>3, <1>6 DEF Slot, Entry, Listed
<1>9. PICK o \in Int, h \in Nat, q \in Int, p \in Nat : IndexAt(o, h, q, p)
  BY <1>1 DEF IndexInv
<1>10. ProducerIndex(o)'
  BY <1>2, <1>6, <1>8, <1>9 DEF IndexAt, ProducerIndex, Header
<1>11. ConsumerIndex(h, q, p) => ConsumerIndex(h, q, p)'
  <2> SUFFICES ASSUME ConsumerIndex(h, q, p) PROVE ConsumerIndex(h, q, p)'
    OBVIOUS
  <2>1. h \in 1..blockIndex' /\ p < Shown' /\ HeaderSize(h)' = HeaderSize(h)
        /\ headers'[h].front = headers[h].front
    BY <1>6 DEF ConsumerIndex
  <2>2. \A c \in (FirstChunk..LastChunk) \union {p} : Listed(h, q, c)'
    BY <1>8 DEF ConsumerIndex
  <2> QED  BY <2>1, <2>2, ConsumerIndexKept
<1>12. IndexAt(o, h, q, p)'
  BY <1>6, <1>9, <1>10, <1>11, ProducerLeaves DEF IndexAt
<1>13. (producer' \in {"block", "entry", "front"} => tailIndex' % BLOCK_SIZE = 0) => RingInv'
  BY <1>1, <1>2, ProducerLeaves DEF RingInv
<1> QED  BY <1>2, <1>3, <1>4, <1>5, <1>7, <1>12, <1>13 DEF IndexInv

LEMMA EnqueueBeginStep ==
  ASSUME QueueInv, EnqueueBegin
  PROVE  QueueInv'
<1>1. /\ producer = "idle"
      /\ producer' = IF tailIndex % BLOCK_SIZE = 0 THEN "block" ELSE "fill"
      /\ UNCHANGED <<tailIndex, headIndex, elements, dequeued, ring, headers, blockIndexFront, consumerVars>>
  BY DEF EnqueueBegin, shared
<1>2. Types /\ RingInv /\ BlocksInv /\ tailIndex' \in Nat /\ tailIndex <= tailIndex'
  BY <1>1 DEF QueueInv, Types
<1>3. Started' = Started /\ Indexed' = Indexed /\ Shown' = Shown
  <2>1. Started' = Started
    BY <1>1 DEF Started, Chunk
  <2> QED  BY <1>1, <2>1 DEF Indexed, Shown
<1>4. Types'
  BY <1>1, <1>2, ProducerLeaves DEF Types
<1>5. RingInv' /\ HeadersInv' /\ BulkInv' /\ IndexInv'
  BY <1>1, <1>2, <1>3, IndexKept
<1>6. BlocksInv'
  <2>1. \A i : Written(i)' = Written(i)
    BY <1>1 DEF Written
  <2>2. Oldest' = Oldest /\ \A c : BlockOf(c)' = BlockOf(c)
    BY <1>1, <1>2, <1>3, IndexKept
  <2>3. \A i \in Nat : Written(i)' /\ Oldest' <= Chunk(i) =>
          elements'[BlockOf(Chunk(i))'][i % BLOCK_SIZE] = i + 1
    BY <1>1, <1>2, <2>1, <2>2 DEF BlocksInv
  <2> QED  BY <1>1, <1>2, <1>3, <2>3, IndexKept DEF BlocksInv, Chunk
<1> QED  BY <1>4, <1>5, <1>6 DEF QueueInv

LEMMA CommitStep ==
  ASSUME QueueInv, Commit
  PROVE  QueueInv'
<1>1. /\ producer = "commit" /\ producer' = "idle" /\ tailIndex' = tailIndex + 1
      /\ UNCHANGED <<headIndex, elements, dequeued, ring, headers, blockIndexFront, consumerVars>>
  BY DEF Commit
<1>2. Types /\ RingInv /\ BlocksInv /\ tailIndex \in Nat /\ tailIndex' \in Nat /\ tailIndex <= tailIndex'
  BY <1>1 DEF QueueInv, Types
<1>3. Started' = Started /\ Indexed' = Indexed /\ Shown' = Shown
  <2> DEFINE c == Chunk(tailIndex)
             n == tailIndex + 1
  <2>1. /\ c \in Nat /\ c * BLOCK_SIZE \in Int /\ (c + 1) * BLOCK_SIZE = c * BLOCK_SIZE + BLOCK_SIZE
        /\ c * BLOCK_SIZE <= tailIndex /\ tailIndex < c * BLOCK_SIZE + BLOCK_SIZE
    <3>1. tailIndex \in Int
      BY <1>2
    <3> QED  BY <1>2, <3>1, ChunkOf
  <2>2. n \in Int /\ c + 1 \in Int /\ c \in Int
    BY <1>2, <2>1
  <2>3. n % BLOCK_SIZE = n - Chunk(n) * BLOCK_SIZE
    BY <2>2, ChunkOf
  <2>4. /\ Chunk(n) = c <=> c * BLOCK_SIZE <= n /\ n < c * BLOCK_SIZE + BLOCK_SIZE
        /\ Chunk(n) = c + 1 <=> (c + 1) * BLOCK_SIZE <= n /\ n < (c + 1) * BLOCK_SIZE + BLOCK_SIZE
    BY <2>2, ChunkBounds
  <2>5. Started = c + 1 /\ c = Chunk(tailIndex)
    BY <1>1 DEF Started
  <2>6. Started' = IF n % BLOCK_SIZE = 0 THEN Chunk(n) ELSE Chunk(n) + 1
    BY <1>1 DEF Started, Chunk
  <2> HIDE DEF c, n
  <2>7. n = tailIndex + 1
    BY DEF n
  <2>8. Started' = c + 1
    <3>1. CASE n < c * BLOCK_SIZE + BLOCK_SIZE
      <4>1. Chunk(n) = c
        BY <1>2, <2>1, <2>4, <2>7, <3>1
      <4>2. n % BLOCK_SIZE # 0
        BY <1>2, <2>1, <2>3, <2>7, <4>1
      <4> QED  BY <2>6, <4>1, <4>2
    <3>2. CASE ~(n < c * BLOCK_SIZE + BLOCK_SIZE)
      <4>1. n = (c + 1) * BLOCK_SIZE
        BY <1>2, <2>1, <2>7, <3>2, Sizes
      <4>2. Chunk(n) = c + 1
        BY <2>1, <2>2, <2>4, <4>1, Sizes
      <4>3. n % BLOCK_SIZE = 0
        BY <2>1, <2>2, <2>3, <4>1, <4>2, Sizes
      <4> QED  BY <2>6, <4>2, <4>3
    <3> QED  BY <3>1, <3>2
  <2> QED  BY <1>1, <2>5, <2>8 DEF Indexed, Shown
<1>4. Types'
  BY <1>1, <1>2, ProducerLeaves DEF Types
<1>5. RingInv' /\ HeadersInv' /\ BulkInv' /\ IndexInv'
  BY <1>1, <1>2, <1>3, IndexKept
<1>6. BlocksInv'
  <2>1. \A i \in Nat : Written(i)' => Written(i)
    BY <1>1, <1>2 DEF Written
  <2>2. Oldest' = Oldest /\ \A c : BlockOf(c)' = BlockOf(c)
    BY <1>1, <1>2, <1>3, IndexKept
  <2>3. \A i \in Nat : Written(i)' /\ Oldest' <= Chunk(i) =>
          elements'[BlockOf(Chunk(i))'][i % BLOCK_SIZE] = i + 1
    BY <1>1, <1>2, <2>1, <2>2 DEF BlocksInv
  <2> QED  BY <1>1, <1>2, <1>3, <2>3, IndexKept DEF BlocksInv, Chunk
<1> QED  BY <1>4, <1>5, <1>6 DEF QueueInv

LEMMA FillStep ==
  ASSUME QueueInv, Fill
  PROVE  QueueInv'
<1>1. /\ producer = "fill" /\ producer' = "commit"
      /\ elements' = [elements EXCEPT ![TailBlock][tailIndex % BLOCK_SIZE] = tailIndex + 1]
      /\ UNCHANGED <<tailIndex, headIndex, dequeued, ring, headers, blockIndexFront, consumerVars>>
  BY DEF Fill
<1>2. Types /\ RingInv /\ BlocksInv /\ tailIndex \in Nat /\ tailIndex' \in Nat /\ tailIndex <= tailIndex'
  BY <1>1 DEF QueueInv, Types
<1>3. Started' = Started /\ Indexed' = Indexed /\ Shown' = Shown
  <2>1. Started' = Started
    BY <1>1 DEF Started, Chunk
  <2> QED  BY <1>1, <2>1 DEF Indexed, Shown
<1>4. /\ Started = Chunk(tailIndex) + 1 /\ Chunk(tailIndex) \in Nat /\ Oldest \in Nat
      /\ Chunk(tailIndex) \in Living
      /\ TailBlock = BlockOf(Chunk(tailIndex)) /\ TailBlock \in 1..Len(elements)
      /\ tailIndex % BLOCK_SIZE \in 0..BLOCK_SIZE - 1
  <2>1. Started = Chunk(tailIndex) + 1 /\ Chunk(tailIndex) \in Nat /\ Oldest \in Nat
    BY <1>1, <1>2, HowFar
  <2>2. Started - 1 = Chunk(tailIndex) /\ Started > 0
    BY <2>1
  <2>3. Chunk(tailIndex) \in Living /\ TailBlock = BlockOf(Chunk(tailIndex))
    BY <1>2, <2>2, Blocks
  <2>4. TailBlock \in 1..Len(elements)
    BY <1>2, <2>3, Blocks DEF Types
  <2>5. tailIndex % BLOCK_SIZE \in 0..BLOCK_SIZE - 1
    BY <1>2, Sizes, Division
  <2> QED  BY <2>1, <2>3, <2>4, <2>5
<1>5. /\ elements' \in Seq([0..BLOCK_SIZE - 1 -> Nat]) /\ Len(elements') = Len(elements)
      /\ \A b \in 1..Len(elements), j \in 0..BLOCK_SIZE - 1 :
           elements'[b][j] = IF b = TailBlock /\ j = tailIndex % BLOCK_SIZE THEN tailIndex + 1
                             ELSE elements[b][j]
  <2>1. elements \in Seq([0..BLOCK_SIZE - 1 -> Nat]) /\ tailIndex + 1 \in Nat
    BY <1>2 DEF Types
  <2> DEFINE row == [elements[TailBlock] EXCEPT ![tailIndex % BLOCK_SIZE] = tailIndex + 1]
  <2>2. elements[TailBlock] \in [0..BLOCK_SIZE - 1 -> Nat]
    BY <1>4, <2>1
  <2>3. /\ row \in [0..BLOCK_SIZE - 1 -> Nat]
        /\ \A j \in 0..BLOCK_SIZE - 1 :
             row[j] = IF j = tailIndex % BLOCK_SIZE THEN tailIndex + 1 ELSE elements[TailBlock][j]
    BY <1>4, <2>1, <2>2
  <2>4. elements' = [elements EXCEPT ![TailBlock] = row]
    BY <1>1
  <2> HIDE DEF row
  <2>5. elements' \in Seq([0..BLOCK_SIZE - 1 -> Nat]) /\ Len(elements') = Len(elements)
    BY <1>4, <2>1, <2>3, <2>4
  <2>6. \A b \in 1..Len(elements) : elements'[b] = IF b = TailBlock THEN row ELSE elements[b]
    BY <1>4, <2>1, <2>4
  <2> QED  BY <2>3, <2>5, <2>6
<1>6. Types'
  BY <1>1, <1>2, <1>5, ProducerLeaves DEF Types
<1>7. RingInv' /\ HeadersInv' /\ BulkInv' /\ IndexInv'
  BY <1>1, <1>2, <1>3, IndexKept
<1>8. BlocksInv'
  <2>1. Oldest' = Oldest /\ \A c : BlockOf(c)' = BlockOf(c)
    BY <1>1, <1>2, <1>3, IndexKept
  <2>2. ASSUME NEW i \in Nat, Written(i)', Oldest <= Chunk(i)
        PROVE  elements'[BlockOf(Chunk(i))][i % BLOCK_SIZE] = i + 1
    <3>1. i = tailIndex \/ (Written(i) /\ i < tailIndex)
      BY <1>1, <2>2 DEF Written
    <3>2. CASE i = tailIndex
      BY <1>4, <1>5, <3>2
    <3>3. CASE Written(i) /\ i < tailIndex
      <4>1. elements[BlockOf(Chunk(i))][i % BLOCK_SIZE] = i + 1
        BY <1>2, <2>2, <3>3 DEF BlocksInv
      <4>2. Chunk(i) \in Nat /\ Chunk(i) <= Chunk(tailIndex) /\ i % BLOCK_SIZE \in 0..BLOCK_SIZE - 1
        <5>1. i \in Int /\ Chunk(i) \in Nat
          BY ChunkOf
        <5>2. ~(Chunk(tailIndex) < Chunk(i))
          <6>1. Chunk(i) * BLOCK_SIZE <= i /\ Chunk(i) * BLOCK_SIZE \in Int
            BY <5>1, ChunkOf
          <6>2. Chunk(tailIndex) < Chunk(i) <=> tailIndex < Chunk(i) * BLOCK_SIZE
            <7>1. tailIndex \in Int /\ Chunk(i) \in Int
              BY <1>2, <5>1
            <7> QED  BY <7>1, ChunkBounds
          <6> QED  BY <1>2, <3>3, <6>1, <6>2
        <5> QED  BY <1>4, <5>1, <5>2, Sizes, Division, SMTT(40)
      <4>3. Chunk(i) \in Living
        BY <1>4, <2>2, <4>2 DEF Living
      <4>4. BlockOf(Chunk(i)) \in 1..Len(elements)
        BY <1>2, <4>3, Blocks DEF Types
      <4>5. ~(BlockOf(Chunk(i)) = TailBlock /\ i % BLOCK_SIZE = tailIndex % BLOCK_SIZE)
        <5>1. SUFFICES ASSUME BlockOf(Chunk(i)) = TailBlock, i % BLOCK_SIZE = tailIndex % BLOCK_SIZE
                       PROVE  FALSE
          OBVIOUS
        <5>2. i \div BLOCK_SIZE = tailIndex \div BLOCK_SIZE
          BY <1>2, <1>4, <4>3, <5>1, Blocks DEF Chunk
        <5>3. i = tailIndex
          <6>1. PICK m \in Int, n \in Int : m = i /\ n = tailIndex
            BY <1>2
          <6>2. m \div BLOCK_SIZE = n \div BLOCK_SIZE /\ m % BLOCK_SIZE = n % BLOCK_SIZE
            BY <5>1, <5>2, <6>1
          <6> QED  BY <6>1, <6>2, Sizes, SamePlace
        <5> QED  BY <1>2, <3>3, <5>3
      <4> QED  BY <1>5, <4>1, <4>2, <4>4, <4>5
    <3> QED  BY <3>1, <3>2, <3>3
  <2>3. \A i \in Nat : Written(i)' /\ Oldest' <= Chunk(i) =>
          elements'[BlockOf(Chunk(i))'][i % BLOCK_SIZE] = i + 1
    BY <2>1, <2>2
  <2> QED  BY <1>1, <1>2, <1>3, <2>3, IndexKept DEF BlocksInv, Chunk
<1> QED  BY <1>6, <1>7, <1>8 DEF QueueInv

(* Places of the index, and that chunks less than its size apart have      *)
(* places of their own.                                                    *)
LEMMA Places ==
  ASSUME HeadersInv, NEW h \in 1..Len(headers), NEW o \in Int, NEW c \in Int
  PROVE  /\ Slot(h, o, c) \in 0..HeaderSize(h) - 1
         /\ Slot(h, o, c + 1) = (Slot(h, o, c) + 1) % HeaderSize(h)
<1>1. PICK d \in Nat \ {0} : d = HeaderSize(h)
  BY HeaderSizes
<1>2. PICK a \in Int, b \in Int : a = o + c /\ b = 1
  OBVIOUS
<1>3. a % d \in 0..d - 1 /\ ((a % d) + b) % d = (a + b) % d
  BY Cyclic
<1>4. a + b = o + (c + 1)
  BY <1>2
<1> QED  BY <1>1, <1>2, <1>3, <1>4 DEF Slot

LEMMA PlacesApart ==
  ASSUME HeadersInv, NEW h \in 1..Len(headers), NEW o \in Int, NEW c \in Int, NEW d \in Int,
         c < d, d < c + HeaderSize(h)
  PROVE  Slot(h, o, c) # Slot(h, o, d)
<1>1. PICK size \in Nat \ {0} : size = HeaderSize(h)
  BY HeaderSizes
<1>2. PICK a \in Int, b \in Int : a = o + c /\ b = o + d
  OBVIOUS
<1>3. a < b /\ b < a + size
  BY <1>1, <1>2
<1>4. a % size # b % size
  BY <1>3, Apart
<1> QED  BY <1>1, <1>2, <1>4 DEF Slot

LEMMA AddEntryStep ==
  ASSUME QueueInv, AddEntry
  PROVE  QueueInv'
<1>1. PICK k \in Nat, n \in Int : k = blockIndex /\ n = Shown
  <2>1. blockIndex \in Nat
    BY DEF QueueInv, HeadersInv, blockIndex
  <2>2. Shown \in Int
    BY HowFar DEF QueueInv
  <2> QED  BY <2>1, <2>2
<1>2. /\ producer = "entry" /\ producer' = "front"
      /\ headers' = [headers EXCEPT ![k].entries[blockIndexFront] =
                       [base |-> tailIndex, block |-> TailBlock]]
      /\ UNCHANGED <<tailIndex, headIndex, elements, dequeued, ring, blockIndexFront, consumerVars>>
  BY <1>1 DEF AddEntry, shared
<1>3. Types /\ RingInv /\ BlocksInv /\ BulkInv /\ HeadersInv /\ IndexInv
  BY DEF QueueInv
<1>4. /\ Started = n + 1 /\ Indexed = n /\ n \in Nat /\ Started \in Nat
      /\ tailIndex = n * BLOCK_SIZE /\ tailIndex \in Nat
      /\ Oldest \in Nat /\ Started = Oldest + Len(ring) /\ Len(ring) \in Nat
  BY <1>1, <1>2, <1>3, HowFar DEF Types
<1>5. /\ Started' = Started /\ Shown' = n /\ Oldest' = Oldest /\ Living' = Living
      /\ Indexed' = Started
  <2>1. Started' = Started /\ Shown' = Shown
    BY <1>2 DEF Started, Shown, Chunk
  <2>2. Indexed' = Started
    BY <1>2, <2>1 DEF Indexed
  <2> QED  BY <1>1, <1>2, <2>1, <2>2 DEF Oldest, Living
<1>6. \A c : BlockOf(c)' = BlockOf(c)
  BY <1>2, <1>5 DEF BlockOf
<1>7. TailBlock = BlockOf(n) /\ TailBlock \in Nat /\ Oldest <= n
  <2>1. Started > 0 /\ Started - 1 = n
    BY <1>4
  <2>2. Started - 1 \in Living /\ BlockOf(Started - 1) = TailBlock
    BY <1>3, <2>1, Blocks
  <2>3. TailBlock \in Nat
    BY <1>3, <2>2, Blocks
  <2> QED  BY <1>4, <2>1, <2>2, <2>3 DEF Living
<1>8. PICK o \in Int, h \in Nat, q \in Int, p \in Nat : IndexAt(o, h, q, p)
  BY <1>3 DEF IndexInv
<1> DEFINE size == HeaderSize(k)
           new == [base |-> tailIndex, block |-> TailBlock]
<1>9. /\ k \in 1..Len(headers) /\ k = Len(headers) /\ size \in Nat \ {0}
      /\ headers[k] \in Headers /\ headers[k].entries \in Entries(size)
      /\ Len(ring) <= size
  BY <1>1, <1>3, HeaderSizes DEF HeadersInv, blockIndex
<1>10. /\ blockIndexFront = Slot(k, o, n)
       /\ n > 0 => headers[k].front = Slot(k, o, n - 1)
       /\ \A c \in Oldest..n - 1 : Listed(k, o, c)
  BY <1>1, <1>4, <1>8 DEF IndexAt, ProducerIndex, Header
<1>11. blockIndexFront \in 0..size - 1
  BY <1>3, <1>9, <1>10, Places
<1>12. new \in [base : Nat, block : Nat]
  BY <1>4, <1>7
<1> HIDE DEF size, new
<1> DEFINE row == [headers[k].entries EXCEPT ![blockIndexFront] = new]
           changed == [headers[k] EXCEPT !.entries = row]
<1>13. row \in Entries(size) /\ DOMAIN row = DOMAIN headers[k].entries
  BY <1>9, <1>11, <1>12 DEF Entries
<1>14. \A j \in 0..size - 1 : row[j] = IF j = blockIndexFront THEN new ELSE headers[k].entries[j]
  BY <1>9, <1>11 DEF Entries
<1>15. headers' = [headers EXCEPT ![k] = changed]
  BY <1>2 DEF new
<1> HIDE DEF row
<1>16. /\ changed \in Headers /\ changed.entries = row /\ changed.front = headers[k].front
  BY <1>9, <1>13 DEF Headers
<1> HIDE DEF changed
<1>17. /\ headers' \in Seq(Headers) /\ Len(headers') = Len(headers) /\ blockIndex' = k
       /\ headers'[k] = changed /\ \A l \in 1..Len(headers) : l # k => headers'[l] = headers[l]
  <2>1. headers \in Seq(Headers)
    BY <1>3 DEF HeadersInv
  <2> QED  BY <1>9, <1>15, <1>16, <2>1 DEF blockIndex
<1>18. \A l \in 1..Len(headers) : HeaderSize(l)' = HeaderSize(l) /\ headers'[l].front = headers[l].front
  <2> SUFFICES ASSUME NEW l \in 1..Len(headers)
               PROVE  HeaderSize(l)' = HeaderSize(l) /\ headers'[l].front = headers[l].front
    OBVIOUS
  <2>1. DOMAIN headers'[l].entries = DOMAIN headers[l].entries
    BY <1>13, <1>16, <1>17
  <2>2. headers'[l].front = headers[l].front
    BY <1>16, <1>17
  <2> QED  BY <2>1, <2>2 DEF HeaderSize
<1>19. \A l \in 1..Len(headers) : \A a, c : Slot(l, a, c)' = Slot(l, a, c)
  BY <1>18 DEF Slot
<1>20. HeadersInv'
  <2>1. Len(ring') <= HeaderSize(k)'
    BY <1>2, <1>9, <1>18 DEF size
  <2> QED  BY <1>9, <1>17, <2>1 DEF HeadersInv
<1>21. Listed(k, o, n)'
  <2>1. headers'[k].entries[Slot(k, o, n)] = new
    BY <1>10, <1>11, <1>14, <1>16, <1>17
  <2>2. Entry(k, o, n)' = new
    BY <1>9, <1>19, <2>1 DEF Entry
  <2> QED  BY <1>4, <1>6, <1>7, <2>2 DEF Listed, new
<1>22. ASSUME NEW c \in Oldest..n - 1, Listed(k, o, c) PROVE Listed(k, o, c)'
  <2>1. c \in Int /\ c < n /\ n < c + HeaderSize(k)
    BY <1>4, <1>9 DEF size
  <2>2. Slot(k, o, c) # Slot(k, o, n) /\ Slot(k, o, c) \in 0..size - 1
    BY <1>3, <1>9, <2>1, PlacesApart, Places DEF size
  <2>3. headers'[k].entries[Slot(k, o, c)] = Entry(k, o, c)
    BY <1>10, <1>14, <1>16, <1>17, <2>2 DEF Entry
  <2>4. Entry(k, o, c)' = Entry(k, o, c)
    BY <1>9, <1>19, <2>3 DEF Entry
  <2> QED  BY <1>6, <1>22, <2>4 DEF Listed
<1>23. \A l \in 1..Len(headers) : \A a, c : l # k => Listed(l, a, c)' = Listed(l, a, c)
  <2> SUFFICES ASSUME NEW l \in 1..Len(headers), NEW a, NEW c, l # k
               PROVE  Listed(l, a, c)' = Listed(l, a, c)
    OBVIOUS
  <2>1. Entry(l, a, c)' = Entry(l, a, c)
    BY <1>17, <1>19 DEF Entry
  <2> QED  BY <1>6, <2>1 DEF Listed
<1>24. ProducerIndex(o)'
  <2>1. blockIndexFront' = Slot(k, o, n)'
    BY <1>2, <1>9, <1>10, <1>19
  <2>2. n > 0 => headers'[k].front = Slot(k, o, n - 1)'
    BY <1>9, <1>10, <1>18, <1>19
  <2>3. \A c \in Oldest..Started - 1 : Listed(k, o, c)'
    <3> SUFFICES ASSUME NEW c \in Oldest..Started - 1 PROVE Listed(k, o, c)'
      OBVIOUS
    <3>1. CASE c = n
      BY <1>21, <3>1
    <3>2. CASE c # n
      <4>1. c \in Oldest..n - 1
        BY <1>4, <3>2
      <4> QED  BY <1>10, <1>22, <4>1
    <3> QED  BY <3>1, <3>2
  <2> QED  BY <1>5, <1>17, <2>1, <2>2, <2>3 DEF ProducerIndex, Header
<1>25. ASSUME consumer \in {"front", "slot", "process", "release"}
       PROVE  ConsumerIndex(h, q, p)' /\ (h = blockIndex' => q = o)
  <2>1. ConsumerIndex(h, q, p) /\ (h = k => q = o)
    BY <1>1, <1>8, <1>25 DEF IndexAt
  <2>2. /\ h \in 1..Len(headers) /\ LastChunk <= p /\ p < n
        /\ \A c \in (FirstChunk..LastChunk) \union {p} : Listed(h, q, c)
    BY <1>1, <2>1 DEF ConsumerIndex, blockIndex
  <2>3. Oldest <= FirstChunk /\ FirstChunk <= LastChunk /\ FirstChunk \in Nat /\ LastChunk \in Nat
    BY <1>3, <1>25, BulkLives, Left
  <2>4. \A c \in (FirstChunk..LastChunk) \union {p} : Listed(h, q, c)'
    <3> SUFFICES ASSUME NEW c \in (FirstChunk..LastChunk) \union {p} PROVE Listed(h, q, c)'
      OBVIOUS
    <3>1. c \in Oldest..n - 1 /\ Listed(h, q, c)
      BY <1>4, <2>2, <2>3
    <3>2. CASE h = k
      BY <1>22, <2>1, <3>1, <3>2
    <3>3. CASE h # k
      BY <1>23, <2>2, <3>1, <3>3
    <3> QED  BY <3>2, <3>3
  <2>5. h \in 1..blockIndex' /\ p < Shown' /\ HeaderSize(h)' = HeaderSize(h)
        /\ headers'[h].front = headers[h].front
    BY <1>5, <1>9, <1>17, <1>18, <2>2
  <2>6. UNCHANGED consumerVars
    BY <1>2
  <2> QED  BY <1>17, <2>1, <2>4, <2>5, <2>6, ConsumerIndexKept
<1>26. IndexInv'
  <2>1. IndexAt(o, h, q, p)'
    BY <1>2, <1>24, <1>25, ProducerLeaves DEF IndexAt
  <2> QED  BY <2>1 DEF IndexInv
<1>27. RingInv'
  BY <1>2, <1>3, <1>5, ProducerLeaves DEF RingInv
<1>28. Types' /\ BulkInv'
  <2>1. tailIndex' \in Nat /\ tailIndex <= tailIndex'
    BY <1>2, <1>4
  <2> QED  BY <1>2, <1>3, <2>1, BulkKept, ProducerLeaves DEF Types
<1>29. BlocksInv'
  <2>1. \A c \in Living' : dequeued'[BlockOf(c)'] = Emptied(c)'
    BY <1>2, <1>3, <1>5, <1>6, ProducerLeaves DEF BlocksInv
  <2>2. \A i : Written(i)' = Written(i)
    BY <1>2 DEF Written
  <2>3. \A i \in Nat : Written(i)' /\ Oldest' <= Chunk(i) =>
          elements'[BlockOf(Chunk(i))'][i % BLOCK_SIZE] = i + 1
    BY <1>2, <1>3, <1>5, <1>6, <2>2 DEF BlocksInv
  <2> QED  BY <2>1, <2>3 DEF BlocksInv, Chunk
<1> QED  BY <1>20, <1>26, <1>27, <1>28, <1>29 DEF QueueInv

LEMMA ShowEntryStep ==
  ASSUME QueueInv, ShowEntry
  PROVE  QueueInv'
<1>1. PICK k \in Nat, n \in Int : k = blockIndex /\ n = Shown
  <2>1. blockIndex \in Nat
    BY DEF QueueInv, HeadersInv, blockIndex
  <2>2. Shown \in Int
    BY HowFar DEF QueueInv
  <2> QED  BY <2>1, <2>2
<1>2. /\ producer = "front" /\ producer' = "fill"
      /\ headers' = [headers EXCEPT ![k].front = blockIndexFront]
      /\ blockIndexFront' = (blockIndexFront + 1) % HeaderSize(k)
      /\ UNCHANGED <<tailIndex, headIndex, elements, dequeued, ring, consumerVars>>
  BY <1>1 DEF ShowEntry, shared
<1>3. Types /\ RingInv /\ BlocksInv /\ BulkInv /\ HeadersInv /\ IndexInv
  BY DEF QueueInv
<1>4. /\ Started = n + 1 /\ Indexed = Started /\ n \in Nat /\ Started \in Nat
      /\ tailIndex \in Nat /\ Started = Chunk(tailIndex) + 1
      /\ Oldest \in Nat /\ Started = Oldest + Len(ring) /\ Len(ring) \in Nat /\ Len(ring) > 0
  <2>1. Started = Chunk(tailIndex) + 1
    BY <1>2 DEF Started
  <2>2. Started = n + 1 /\ Indexed = Started /\ {Started, Oldest, Len(ring), n} \subseteq Nat
        /\ Started = Oldest + Len(ring)
    BY <1>1, <1>2, <1>3, HowFar
  <2>3. Len(ring) > 0
    BY <1>3, <2>2 DEF RingInv
  <2> QED  BY <1>3, <2>1, <2>2, <2>3 DEF Types
<1>5. /\ Started' = Started /\ Shown' = Started /\ Indexed' = Started
      /\ Oldest' = Oldest /\ Living' = Living
  <2>1. Started' = Chunk(tailIndex) + 1
    BY <1>2 DEF Started, Chunk
  <2>2. Indexed' = Started' /\ Shown' = Started'
    BY <1>2 DEF Indexed, Shown
  <2> QED  BY <1>2, <1>4, <2>1, <2>2 DEF Oldest, Living
<1>6. \A c : BlockOf(c)' = BlockOf(c)
  BY <1>2, <1>5 DEF BlockOf
<1>7. PICK o \in Int, h \in Nat, q \in Int, p \in Nat : IndexAt(o, h, q, p)
  BY <1>3 DEF IndexInv
<1>8. /\ k \in 1..Len(headers) /\ k = Len(headers) /\ HeaderSize(k) \in Nat \ {0}
      /\ headers[k] \in Headers /\ Len(ring) <= HeaderSize(k)
  BY <1>1, <1>3, HeaderSizes DEF HeadersInv, blockIndex
<1>9. /\ blockIndexFront = Slot(k, o, n)
      /\ \A c \in Oldest..n : Listed(k, o, c)
  <2>1. Started - 1 = n
    BY <1>4
  <2> QED  BY <1>1, <1>4, <1>7, <2>1 DEF IndexAt, ProducerIndex
<1>10. blockIndexFront \in Int /\ blockIndexFront' = Slot(k, o, n + 1)
  <2>1. Slot(k, o, n) \in 0..HeaderSize(k) - 1
    BY <1>3, <1>8, Places
  <2>2. Slot(k, o, n + 1) = (Slot(k, o, n) + 1) % HeaderSize(k)
    BY <1>3, <1>8, Places
  <2> QED  BY <1>2, <1>8, <1>9, <2>1, <2>2
<1> DEFINE changed == [headers[k] EXCEPT !.front = blockIndexFront]
<1>11. headers' = [headers EXCEPT ![k] = changed]
  BY <1>2
<1>12. /\ changed \in Headers /\ changed.entries = headers[k].entries /\ changed.front = blockIndexFront
  BY <1>8, <1>10 DEF Headers
<1> HIDE DEF changed
<1>13. /\ headers' \in Seq(Headers) /\ Len(headers') = Len(headers) /\ blockIndex' = k
       /\ headers'[k] = changed /\ \A l \in 1..Len(headers) : l # k => headers'[l] = headers[l]
  <2>1. headers \in Seq(Headers)
    BY <1>3 DEF HeadersInv
  <2> QED  BY <1>8, <1>11, <1>12, <2>1 DEF blockIndex
<1>14. \A l \in 1..Len(headers) : headers'[l].entries = headers[l].entries /\ HeaderSize(l)' = HeaderSize(l)
  <2> SUFFICES ASSUME NEW l \in 1..Len(headers)
               PROVE  headers'[l].entries = headers[l].entries /\ HeaderSize(l)' = HeaderSize(l)
    OBVIOUS
  <2>1. headers'[l].entries = headers[l].entries
    BY <1>12, <1>13
  <2> QED  BY <2>1 DEF HeaderSize
<1>15. \A l \in 1..Len(headers) : \A a, c :
         Slot(l, a, c)' = Slot(l, a, c) /\ Listed(l, a, c)' = Listed(l, a, c)
  <2>1. \A l \in 1..Len(headers) : \A a, c : Slot(l, a, c)' = Slot(l, a, c)
    BY <1>14 DEF Slot
  <2>2. \A l \in 1..Len(headers) : \A a, c : Entry(l, a, c)' = Entry(l, a, c)
    BY <1>14, <2>1 DEF Entry
  <2> QED  BY <1>6, <2>1, <2>2 DEF Listed
<1>16. HeadersInv'
  <2>1. Len(ring') <= HeaderSize(k)'
    BY <1>2, <1>8, <1>14
  <2> QED  BY <1>8, <1>13, <2>1 DEF HeadersInv
<1>17. ProducerIndex(o)'
  <2>1. blockIndexFront' = Slot(k, o, Started)'
    <3>1. blockIndexFront' = Slot(k, o, Started)
      BY <1>4, <1>10
    <3> QED  BY <1>5, <1>8, <1>15, <3>1
  <2>2. headers'[k].front = Slot(k, o, Started - 1)'
    <3>1. Started - 1 = n /\ Started' - 1 = n
      BY <1>4, <1>5
    <3>2. headers'[k].front = Slot(k, o, n)'
      BY <1>8, <1>9, <1>12, <1>13, <1>15
    <3> QED  BY <3>1, <3>2
  <2>3. \A c \in Oldest..Started - 1 : Listed(k, o, c)'
    <3>1. Oldest..Started - 1 = Oldest..n
      BY <1>4
    <3> QED  BY <1>8, <1>9, <1>15, <3>1
  <2> QED  BY <1>5, <1>13, <2>1, <2>2, <2>3 DEF ProducerIndex, Header
<1>18. ASSUME consumer \in {"front", "slot", "process", "release"}
       PROVE  \E r \in Nat : ConsumerIndex(h, q, r)' /\ (h = blockIndex' => q = o)
  <2>1. ConsumerIndex(h, q, p) /\ (h = k => q = o)
    BY <1>1, <1>7, <1>18 DEF IndexAt
  <2>2. /\ h \in 1..Len(headers) /\ LastChunk <= p /\ p < n /\ bulk.header = h
        /\ \A c \in (FirstChunk..LastChunk) \union {p} : Listed(h, q, c)
    BY <1>1, <2>1 DEF ConsumerIndex, blockIndex
  <2>3. Oldest <= FirstChunk /\ FirstChunk <= LastChunk /\ FirstChunk \in Nat /\ LastChunk \in Nat
    BY <1>3, <1>18, BulkLives, Left
  <2>4. CASE consumer = "front" /\ h = k
    <3>1. \A c \in (FirstChunk..LastChunk) \union {n} : Listed(h, q, c)'
      <4>1. \A c \in (FirstChunk..LastChunk) \union {n} : c \in Oldest..n
        BY <1>4, <2>2, <2>3
      <4> QED  BY <1>8, <1>9, <1>15, <2>1, <2>4, <4>1
    <3>2. headers'[h].front = Slot(h, q, n)'
      <4>1. headers'[k].front = Slot(k, o, n)'
        BY <1>8, <1>9, <1>12, <1>13, <1>15
      <4> QED  BY <2>1, <2>4, <4>1
    <3>3. h \in 1..blockIndex' /\ LastChunk <= n /\ n < Shown'
      BY <1>4, <1>5, <1>8, <1>13, <2>2, <2>3
    <3>4. ConsumerIndex(h, q, n)'
      BY <1>2, <2>2, <2>4, <3>1, <3>2, <3>3, ProducerLeaves DEF ConsumerIndex
    <3> QED  BY <1>4, <1>13, <2>1, <3>4
  <2>5. CASE ~(consumer = "front" /\ h = k)
    <3>1. \A c \in (FirstChunk..LastChunk) \union {p} : Listed(h, q, c)'
      BY <1>15, <2>2
    <3>2. h \in 1..blockIndex' /\ p < Shown' /\ HeaderSize(h)' = HeaderSize(h)
      BY <1>4, <1>5, <1>8, <1>13, <1>14, <2>2
    <3>3. consumer = "front" => headers'[h].front = headers[h].front
      BY <1>13, <2>2, <2>5
    <3>4. UNCHANGED consumerVars
      BY <1>2
    <3>5. ConsumerIndex(h, q, p)'
      BY <2>1, <3>1, <3>2, <3>3, <3>4, ConsumerIndexKept
    <3> QED  BY <1>13, <2>1, <3>5
  <2> QED  BY <2>4, <2>5
<1>19. IndexInv'
  <2>1. CASE consumer \in {"front", "slot", "process", "release"}
    <3>1. PICK r \in Nat : ConsumerIndex(h, q, r)' /\ (h = blockIndex' => q = o)
      BY <1>18, <2>1
    <3>2. IndexAt(o, h, q, r)'
      BY <1>17, <3>1 DEF IndexAt
    <3> QED  BY <3>2 DEF IndexInv
  <2>2. CASE consumer \notin {"front", "slot", "process", "release"}
    <3>1. IndexAt(o, h, q, p)'
      BY <1>2, <1>17, <2>2, ProducerLeaves DEF IndexAt
    <3> QED  BY <3>1 DEF IndexInv
  <2> QED  BY <2>1, <2>2
<1>20. RingInv'
  BY <1>2, <1>3, <1>5, ProducerLeaves DEF RingInv
<1>21. Types' /\ BulkInv'
  <2>1. tailIndex' \in Nat /\ tailIndex <= tailIndex'
    BY <1>2, <1>4
  <2> QED  BY <1>2, <1>3, <2>1, BulkKept, ProducerLeaves DEF Types
<1>22. BlocksInv'
  <2>1. \A c \in Living' : dequeued'[BlockOf(c)'] = Emptied(c)'
    BY <1>2, <1>3, <1>5, <1>6, ProducerLeaves DEF BlocksInv
  <2>2. \A i : Written(i)' = Written(i)
    BY <1>2 DEF Written
  <2>3. \A i \in Nat : Written(i)' /\ Oldest' <= Chunk(i) =>
          elements'[BlockOf(Chunk(i))'][i % BLOCK_SIZE] = i + 1
    BY <1>2, <1>3, <1>5, <1>6, <2>2 DEF BlocksInv
  <2> QED  BY <2>1, <2>3 DEF BlocksInv, Chunk
<1> QED  BY <1>16, <1>19, <1>20, <1>21, <1>22 DEF QueueInv

LEMMA ReuseBlockStep ==
  ASSUME QueueInv, ReuseBlock
  PROVE  QueueInv'
<1>1. PICK n \in Nat, first \in Nat, len \in Nat : n = Started /\ first = Oldest /\ len = Len(ring)
  BY HowFar DEF QueueInv
<1>2. /\ producer = "block" /\ producer' = "entry"
      /\ ring # <<>> /\ dequeued[Head(ring)] = BLOCK_SIZE
      /\ ring' = Append(Tail(ring), Head(ring))
      /\ dequeued' = [dequeued EXCEPT ![Head(ring)] = 0]
      /\ UNCHANGED <<tailIndex, headIndex, elements, headers, blockIndexFront, consumerVars>>
  BY DEF ReuseBlock, CanReuse, IsEmpty
<1>3. Types /\ RingInv /\ BlocksInv /\ BulkInv /\ HeadersInv /\ IndexInv
  BY DEF QueueInv
<1>4. /\ Shown = n /\ Indexed = n /\ tailIndex = n * BLOCK_SIZE /\ tailIndex \in Nat
      /\ n = first + len /\ Chunk(tailIndex) = n
  <2>1. /\ Shown = n /\ Indexed = n /\ tailIndex = n * BLOCK_SIZE /\ tailIndex \in Nat
        /\ n = first + len
    BY <1>1, <1>2, <1>3, HowFar DEF Types
  <2>2. Chunk(tailIndex) = n
    BY <1>1, <1>2, <1>3 DEF Started, RingInv
  <2> QED  BY <2>1, <2>2
<1>5. /\ ring \in Seq(Nat) /\ len > 0 /\ Head(ring) = ring[1]
      /\ Head(ring) \in 1..len /\ Head(ring) = BlockOf(first) /\ first \in Living
  <2>1. first \in Living /\ Head(ring) = BlockOf(first)
    BY <1>1, <1>2, <1>3, Blocks
  <2>2. Head(ring) \in 1..len
    BY <1>1, <1>3, <2>1, Blocks
  <2> QED  BY <1>1, <1>2, <1>3, <2>1, <2>2 DEF RingInv
<1>6. /\ ring' \in Seq(Nat) /\ Len(ring') = len
      /\ \A i \in 1..len : ring'[i] = IF i < len THEN ring[i + 1] ELSE ring[1]
  <2>1. Tail(ring) \in Seq(Nat) /\ Len(Tail(ring)) = len - 1
        /\ \A i \in 1..len - 1 : Tail(ring)[i] = ring[i + 1]
    BY <1>1, <1>2, <1>5
  <2>2. Head(ring) \in Nat /\ Head(ring) = ring[1]
    BY <1>5
  <2> QED  BY <1>1, <1>2, <1>5, <2>1, <2>2
<1>7. /\ Started' = n + 1 /\ Shown' = n /\ Indexed' = n /\ Oldest' = first + 1
  <2>1. Started' = n + 1 /\ Shown' = n /\ Indexed' = n
    BY <1>2, <1>4 DEF Started, Shown, Indexed, Chunk
  <2> QED  BY <1>1, <1>4, <1>6, <2>1 DEF Oldest
<1>8. Living' = first + 1..n
  <2>1. n + 1 - 1 = n
    BY <1>1
  <2> QED  BY <1>7, <2>1 DEF Living
<1>9. ASSUME NEW c \in first + 1..n - 1
      PROVE  BlockOf(c)' = BlockOf(c) /\ c \in Living /\ BlockOf(c) # Head(ring)
  <2>1. c \in Living /\ c # first
    BY <1>1, <1>4, <1>9 DEF Living
  <2>2. BlockOf(c)' = ring'[c - first]
    <3>1. c - (first + 1) + 1 = c - first
      BY <1>1, <1>9
    <3> QED  BY <1>7, <3>1 DEF BlockOf
  <2>3. c - first \in 1..len /\ c - first < len /\ c - first + 1 = c - Oldest + 1
    BY <1>1, <1>4, <1>9
  <2>4. BlockOf(c) # Head(ring)
    BY <1>3, <1>5, <2>1, Blocks
  <2> QED  BY <1>6, <2>1, <2>2, <2>3, <2>4 DEF BlockOf
<1>10. BlockOf(n)' = Head(ring)
  <2>1. n - (first + 1) + 1 = len
    BY <1>1, <1>4
  <2>2. BlockOf(n)' = ring'[len]
    BY <1>7, <2>1 DEF BlockOf
  <2>3. len \in 1..len /\ ~(len < len)
    BY <1>1, <1>5
  <2>4. ring'[len] = ring[1]
    BY <1>6, <2>3
  <2> QED  BY <1>5, <2>2, <2>4
<1>11. (first + 1) * BLOCK_SIZE <= bulk.index
  <2>1. first * BLOCK_SIZE \in Int /\ (first + 1) * BLOCK_SIZE = first * BLOCK_SIZE + BLOCK_SIZE
    BY <1>1, Sizes, Factor
  <2>2. Emptied(first) = BLOCK_SIZE
    BY <1>2, <1>3, <1>5 DEF BlocksInv
  <2>3. first * BLOCK_SIZE <= bulk.index /\ bulk.index \in Nat
    BY <1>1, <1>3 DEF RingInv, Types
  <2> QED  BY <2>1, <2>2, <2>3, Sizes DEF Emptied
<1>12. RingInv'
  <2>1. \A i \in 1..len : ring'[i] \in 1..len
    <3> SUFFICES ASSUME NEW i \in 1..len PROVE ring'[i] \in 1..len
      OBVIOUS
    <3>1. i < len => i + 1 \in 1..len
      BY <1>1
    <3>2. 1 \in 1..len
      BY <1>1, <1>5
    <3> QED  BY <1>1, <1>3, <1>6, <3>1, <3>2 DEF RingInv
  <2>2. \A i, j \in 1..len : ring'[i] = ring'[j] => i = j
    <3> SUFFICES ASSUME NEW i \in 1..len, NEW j \in 1..len, ring'[i] = ring'[j] PROVE i = j
      OBVIOUS
    <3>1. PICK a \in 1..len, b \in 1..len : /\ a = IF i < len THEN i + 1 ELSE 1
                                            /\ b = IF j < len THEN j + 1 ELSE 1
      BY <1>1, <1>5
    <3>2. ring'[i] = ring[a] /\ ring'[j] = ring[b]
      BY <1>6, <3>1
    <3>3. a = b
      BY <1>1, <1>3, <3>2 DEF RingInv
    <3> QED  BY <1>1, <3>1, <3>3
  <2>3. tailIndex' % BLOCK_SIZE = 0
    BY <1>2, <1>3 DEF RingInv
  <2>4. Len(ring') <= Started' /\ Len(ring') > 0
    BY <1>1, <1>4, <1>5, <1>6, <1>7
  <2>5. Oldest' * BLOCK_SIZE <= bulk'.index
    BY <1>2, <1>7, <1>11, ProducerLeaves
  <2> QED  BY <1>6, <2>1, <2>2, <2>3, <2>4, <2>5 DEF RingInv
<1>13. Types' /\ BulkInv'
  <2>1. tailIndex' \in Nat /\ tailIndex <= tailIndex'
    BY <1>2, <1>4
  <2>2. dequeued' \in Seq(Nat) /\ Len(dequeued') = Len(dequeued)
    <3>1. dequeued \in Seq(Nat) /\ 0 \in Nat /\ Head(ring) \in 1..Len(dequeued)
      BY <1>1, <1>3, <1>5 DEF Types
    <3> QED  BY <1>2, <3>1
  <2> QED  BY <1>1, <1>2, <1>3, <1>6, <2>1, <2>2, BulkKept, ProducerLeaves DEF Types
<1>14. BlocksInv'
  <2>1. \A c \in Living' : dequeued'[BlockOf(c)'] = Emptied(c)'
    <3> SUFFICES ASSUME NEW c \in first + 1..n PROVE dequeued'[BlockOf(c)'] = Emptied(c)'
      BY <1>8
    <3>1. CASE c \in first + 1..n - 1
      <4>1. dequeued[BlockOf(c)] = Emptied(c)
        BY <1>3, <1>9, <3>1 DEF BlocksInv
      <4>2. dequeued'[BlockOf(c)] = dequeued[BlockOf(c)]
        <5>1. BlockOf(c) \in 1..Len(dequeued)
          BY <1>3, <1>9, <3>1, Blocks DEF Types
        <5> QED  BY <1>2, <1>3, <1>9, <3>1, <5>1 DEF Types
      <4> QED  BY <1>2, <1>9, <3>1, <4>1, <4>2, ProducerLeaves
    <3>2. CASE c = n
      <4>1. bulk.index <= n * BLOCK_SIZE
        BY <1>3, <1>4 DEF Types, BulkInv
      <4>2. Emptied(n) = 0
        BY <4>1 DEF Emptied
      <4>3. Emptied(n)' = 0
        BY <1>2, <4>2, ProducerLeaves
      <4>4. dequeued'[Head(ring)] = 0
        <5>1. Head(ring) \in 1..Len(dequeued)
          BY <1>1, <1>3, <1>5 DEF Types
        <5> QED  BY <1>2, <1>3, <5>1 DEF Types
      <4> QED  BY <1>10, <3>2, <4>3, <4>4
    <3> QED  BY <1>1, <1>4, <3>1, <3>2
  <2>2. ASSUME NEW i \in Nat, Written(i)', first + 1 <= Chunk(i)
        PROVE  elements'[BlockOf(Chunk(i))'][i % BLOCK_SIZE] = i + 1
    <3>1. i < tailIndex /\ Written(i)
      BY <1>2, <2>2 DEF Written
    <3>2. PICK c \in Int : c = Chunk(i)
      BY ChunkOf
    <3>3. c < n
      BY <1>1, <1>4, <3>1, <3>2, ChunkBounds
    <3>4. c \in first + 1..n - 1 /\ Oldest <= Chunk(i)
      BY <1>1, <2>2, <3>2, <3>3
    <3>5. elements[BlockOf(c)][i % BLOCK_SIZE] = i + 1
      BY <1>3, <3>1, <3>2, <3>4 DEF BlocksInv
    <3>6. BlockOf(c)' = BlockOf(c)
      BY <1>9, <3>4
    <3>7. Chunk(i)' = c
      BY <3>2 DEF Chunk
    <3> QED  BY <1>2, <3>2, <3>5, <3>6, <3>7
  <2>3. \A i \in Nat : Written(i)' /\ Oldest' <= Chunk(i) =>
          elements'[BlockOf(Chunk(i))'][i % BLOCK_SIZE] = i + 1
    BY <1>7, <2>2
  <2> QED  BY <2>1, <2>3 DEF BlocksInv, Chunk
<1>15. blockIndex' = blockIndex /\ headers' = headers /\ \A h : HeaderSize(h)' = HeaderSize(h)
  BY <1>2 DEF blockIndex, HeaderSize
<1>16. HeadersInv'
  BY <1>1, <1>3, <1>6, <1>15 DEF HeadersInv
<1>17. \A h, o : \A c \in first + 1..n - 1 : Listed(h, o, c)' = Listed(h, o, c)
  <2>1. \A h, o, c : Slot(h, o, c)' = Slot(h, o, c)
    BY <1>15 DEF Slot
  <2>2. \A h, o, c : Entry(h, o, c)' = Entry(h, o, c)
    BY <1>15, <2>1 DEF Entry
  <2> QED  BY <1>9, <2>2 DEF Listed
<1>18. PICK o \in Int, h \in Nat, q \in Int, p \in Nat : IndexAt(o, h, q, p)
  BY <1>3 DEF IndexInv
<1>19. ProducerIndex(o)'
  <2>1. /\ blockIndexFront = Slot(blockIndex, o, n)
        /\ n > 0 => headers[blockIndex].front = Slot(blockIndex, o, n - 1)
        /\ \A c \in first..n - 1 : Listed(blockIndex, o, c)
    BY <1>1, <1>4, <1>18 DEF IndexAt, ProducerIndex, Header
  <2>2. \A l, a, c : Slot(l, a, c)' = Slot(l, a, c)
    BY <1>15 DEF Slot
  <2>3. \A c \in first + 1..n - 1 : Listed(blockIndex, o, c)'
    <3>1. \A c \in first + 1..n - 1 : c \in first..n - 1
      BY <1>1
    <3>2. PICK k \in Nat : k = blockIndex
      BY <1>3 DEF HeadersInv, blockIndex
    <3>3. \A c \in first + 1..n - 1 : Listed(k, o, c)'
      BY <1>17, <2>1, <3>1, <3>2
    <3> QED  BY <1>15, <3>2, <3>3
  <2> QED  BY <1>2, <1>7, <1>15, <2>1, <2>2, <2>3 DEF ProducerIndex, Header, Slot
<1>20. ASSUME consumer \in {"front", "slot", "process", "release"}
       PROVE  ConsumerIndex(h, q, p)' /\ (h = blockIndex' => q = o)
  <2>1. ConsumerIndex(h, q, p) /\ (h = blockIndex => q = o)
    BY <1>18, <1>20 DEF IndexAt
  <2>2. /\ h \in 1..blockIndex /\ LastChunk <= p /\ p < n
        /\ \A c \in (FirstChunk..LastChunk) \union {p} : Listed(h, q, c)
    BY <1>4, <2>1 DEF ConsumerIndex
  <2>3. FirstChunk <= LastChunk /\ FirstChunk \in Nat /\ LastChunk \in Nat
    BY <1>3, <1>20, Left
  <2>4. first + 1 <= FirstChunk
    <3>1. bulk.index \in Int /\ first + 1 \in Int
      BY <1>1, <1>3 DEF Types
    <3> QED  BY <1>11, <3>1, ChunkBounds DEF FirstChunk
  <2>5. \A c \in (FirstChunk..LastChunk) \union {p} : Listed(h, q, c)'
    <3>1. \A c \in (FirstChunk..LastChunk) \union {p} : c \in first + 1..n - 1
      BY <1>1, <2>2, <2>3, <2>4
    <3> QED  BY <1>17, <2>2, <3>1
  <2>6. h \in 1..blockIndex' /\ p < Shown' /\ HeaderSize(h)' = HeaderSize(h)
        /\ headers'[h].front = headers[h].front
    BY <1>7, <1>15, <2>2
  <2>7. UNCHANGED consumerVars
    BY <1>2
  <2> QED  BY <1>15, <2>1, <2>5, <2>6, <2>7, ConsumerIndexKept
<1>21. IndexInv'
  <2>1. IndexAt(o, h, q, p)'
    BY <1>2, <1>19, <1>20, ProducerLeaves DEF IndexAt
  <2> QED  BY <2>1 DEF IndexInv
<1> QED  BY <1>12, <1>13, <1>14, <1>16, <1>21 DEF QueueInv

(* A block is added at the end of the ring: the chunk to be filled gets    *)
(* it, and every other keeps its own.                                      *)
LEMMA BlockAdded ==
  ASSUME QueueInv, producer = "block", producer' = "entry", UNCHANGED <<tailIndex, consumerVars>>,
         ring' = Append(ring, Len(ring) + 1)
  PROVE  /\ Started' = Started + 1 /\ Shown' = Started /\ Indexed' = Started /\ Oldest' = Oldest
         /\ Shown = Started /\ Indexed = Started /\ tailIndex = Started * BLOCK_SIZE
         /\ Len(ring') = Len(ring) + 1 /\ RingInv'
         /\ \A c \in Living' : c \in Living \/ c = Oldest + Len(ring)
         /\ \A c \in Living : BlockOf(c)' = BlockOf(c)
         /\ \A c : c = Oldest + Len(ring) => BlockOf(c)' = Len(ring) + 1
<1>1. PICK n \in Nat, first \in Nat, len \in Nat : n = Started /\ first = Oldest /\ len = Len(ring)
  BY HowFar DEF QueueInv
<1>2. Types /\ RingInv
  BY DEF QueueInv
<1>3. /\ Shown = n /\ Indexed = n /\ tailIndex = n * BLOCK_SIZE /\ tailIndex \in Nat
      /\ n = first + len /\ Chunk(tailIndex) = n
  <2>1. /\ Shown = n /\ Indexed = n /\ tailIndex = n * BLOCK_SIZE /\ tailIndex \in Nat
        /\ n = first + len
    BY <1>1, <1>2, HowFar DEF Types
  <2>2. Chunk(tailIndex) = n
    BY <1>1, <1>2 DEF Started, RingInv
  <2> QED  BY <2>1, <2>2
<1>4. /\ ring' \in Seq(Nat) /\ Len(ring') = len + 1
      /\ \A i \in 1..len + 1 : ring'[i] = IF i <= len THEN ring[i] ELSE len + 1
  <2>1. ring \in Seq(Nat) /\ len + 1 \in Nat /\ ring' = Append(ring, len + 1)
    BY <1>1, <1>2 DEF RingInv
  <2> QED  BY <1>1, <2>1
<1>5. Started' = n + 1 /\ Shown' = n /\ Indexed' = n /\ Oldest' = first
  <2>1. Started' = n + 1 /\ Shown' = n /\ Indexed' = n
    BY <1>3 DEF Started, Shown, Indexed, Chunk
  <2> QED  BY <1>1, <1>3, <1>4, <2>1 DEF Oldest
<1>6. Living' = first..n /\ Living = first..n - 1
  <2>1. n + 1 - 1 = n
    OBVIOUS
  <2> QED  BY <1>1, <1>5, <2>1 DEF Living
<1>7. ASSUME NEW c \in first..n - 1 PROVE BlockOf(c)' = BlockOf(c)
  <2>1. c - first + 1 \in 1..len + 1 /\ c - first + 1 <= len
    BY <1>3
  <2> QED  BY <1>1, <1>4, <1>5, <2>1 DEF BlockOf
<1>8. BlockOf(n)' = len + 1
  <2>1. n - first + 1 = len + 1 /\ len + 1 \in 1..len + 1 /\ ~(len + 1 <= len)
    BY <1>3
  <2> QED  BY <1>4, <1>5, <2>1 DEF BlockOf
<1>9. RingInv'
  <2>1. \A i \in 1..len : ring[i] \in 1..len
    BY <1>1, <1>2 DEF RingInv
  <2>2. \A i \in 1..len + 1 : ring'[i] \in 1..len + 1
    <3> SUFFICES ASSUME NEW i \in 1..len + 1 PROVE ring'[i] \in 1..len + 1
      OBVIOUS
    <3>1. i <= len => i \in 1..len
      OBVIOUS
    <3> QED  BY <1>4, <2>1, <3>1
  <2>3. \A i, j \in 1..len + 1 : ring'[i] = ring'[j] => i = j
    <3> SUFFICES ASSUME NEW i \in 1..len + 1, NEW j \in 1..len + 1, ring'[i] = ring'[j] PROVE i = j
      OBVIOUS
    <3>1. CASE i <= len /\ j <= len
      BY <1>1, <1>2, <1>4, <3>1 DEF RingInv
    <3>2. CASE ~(i <= len) /\ j <= len
      BY <1>4, <2>1, <3>2, SMTT(40)
    <3>3. CASE i <= len /\ ~(j <= len)
      <4>1. i \in 1..len /\ ring'[i] = ring[i] /\ ring'[j] = len + 1
        BY <1>4, <3>3
      <4>2. ring[i] \in 1..len /\ ring[i] # len + 1
        BY <2>1, <4>1
      <4> QED  BY <4>1, <4>2
    <3> QED  BY <3>1, <3>2, <3>3
  <2>4. tailIndex' % BLOCK_SIZE = 0
    BY <1>2 DEF RingInv
  <2>5. Len(ring') <= Started' /\ Len(ring') > 0
    BY <1>3, <1>4, <1>5
  <2>6. Oldest' * BLOCK_SIZE <= bulk'.index
    BY <1>1, <1>2, <1>5, ProducerLeaves DEF RingInv
  <2> QED  BY <1>4, <2>2, <2>3, <2>4, <2>5, <2>6 DEF RingInv
<1>10. \A c \in Living' : c \in Living \/ c = first + len
  BY <1>3, <1>6
<1> QED  BY <1>1, <1>3, <1>4, <1>5, <1>6, <1>7, <1>8, <1>9, <1>10

(* The index that takes the place of a full one lists the same chunks,     *)
(* from its beginning.                                                     *)
Copied(new, k, o, first, len) ==
  \A c \in first..first + len - 1 : new.entries[c - first] = Entry(k, o, c)

LEMMA IndexGrown ==
  ASSUME NEW k \in Nat, NEW o \in Int, NEW first \in Nat, NEW len \in Nat \ {0},
         HeadersInv, k = blockIndex, len = Len(ring), HeaderSize(k) = len,
         blockIndexFront = Slot(k, o, first + len)
  PROVE  /\ NewIndex(len) \in Headers
         /\ NewIndex(len).front = len - 1
         /\ Cardinality(DOMAIN NewIndex(len).entries) = 2 * len
         /\ Copied(NewIndex(len), k, o, first, len)
<1> DEFINE new == NewIndex(len)
           slot(j) == (blockIndexFront - Len(ring) + j) % len
<1>1. k \in 1..Len(headers) /\ headers[k] \in Headers /\ headers[k].entries \in Entries(len)
      /\ Header = headers[k]
  BY HeaderSizes DEF HeadersInv, blockIndex, Header
<1>2. new = [front |-> len - 1,
             entries |-> [j \in 0..2 * len - 1 |-> IF j < len THEN Header.entries[slot(j)] ELSE NoEntry]]
  BY DEF NewIndex
<1>3. blockIndexFront = (o + (first + len)) % len
  BY DEF Slot
<1>4. ASSUME NEW j \in 0..len - 1 PROVE slot(j) \in 0..len - 1 /\ slot(j) = (o + (first + j)) % len
  <2>1. PICK a \in Int, b \in Int : a = o + (first + len) /\ b = j - len
    OBVIOUS
  <2>2. a % len \in 0..len - 1 /\ ((a % len) + b) % len = (a + b) % len
    BY Cyclic
  <2>3. a + b = o + (first + j) /\ a + b \in Int
    BY <2>1
  <2>4. (a + b) % len \in 0..len - 1
    BY <2>3, Division
  <2>5. blockIndexFront - Len(ring) + j = (a % len) + b
    BY <1>3, <2>1, <2>2
  <2> QED  BY <2>2, <2>3, <2>4, <2>5
<1> HIDE DEF slot
<1>5. ASSUME NEW j \in 0..2 * len - 1
      PROVE  (IF j < len THEN Header.entries[slot(j)] ELSE NoEntry) \in [base : Nat, block : Nat]
  <2>1. NoEntry \in [base : Nat, block : Nat]
    BY DEF NoEntry
  <2>2. j < len => Header.entries[slot(j)] \in [base : Nat, block : Nat]
    <3>1. j < len => j \in 0..len - 1
      OBVIOUS
    <3> QED  BY <1>1, <1>4, <3>1 DEF Entries
  <2> QED  BY <2>1, <2>2
<1>6. new.front = len - 1 /\ new.entries \in Entries(2 * len) /\ 2 * len \in Nat \ {0}
      /\ DOMAIN new.entries = 0..2 * len - 1 /\ new = [front |-> new.front, entries |-> new.entries]
  <2>1. new.entries = [j \in 0..2 * len - 1 |-> IF j < len THEN Header.entries[slot(j)] ELSE NoEntry]
    BY <1>2
  <2>2. new.entries \in Entries(2 * len)
    BY <1>5, <2>1 DEF Entries
  <2> QED  BY <1>2, <2>1, <2>2
<1>7. new \in Headers
  BY <1>6 DEF Headers
<1>8. Cardinality(DOMAIN new.entries) = 2 * len
  <2>1. PICK d \in Nat \ {0} : d = 2 * len
    OBVIOUS
  <2>2. d - 1 - 0 + 1 = d /\ 0 \in Int /\ d - 1 \in Int /\ 0 <= d - 1
    OBVIOUS
  <2>3. Cardinality(0..d - 1) = d
    BY <2>2, FS_Interval
  <2> QED  BY <1>6, <2>1, <2>3
<1>9. ASSUME NEW c \in first..first + len - 1 PROVE new.entries[c - first] = Entry(k, o, c)
  <2>1. PICK j \in 0..len - 1 : j = c - first
    OBVIOUS
  <2>2. new.entries[j] = headers[k].entries[slot(j)]
    <3>1. j \in 0..2 * len - 1 /\ j < len
      OBVIOUS
    <3> QED  BY <1>1, <1>2, <3>1
  <2>3. slot(j) = (o + c) % len
    <3>1. first + j = c
      BY <2>1
    <3> QED  BY <1>4, <3>1
  <2> QED  BY <2>1, <2>2, <2>3 DEF Entry, Slot
<1> QED  BY <1>6, <1>7, <1>8, <1>9 DEF Copied

LEMMA NewBlockStep ==
  ASSUME QueueInv, NewBlock
  PROVE  QueueInv'
<1>1. PICK n \in Nat, first \in Nat, len \in Nat, k \in Nat :
        n = Started /\ first = Oldest /\ len = Len(ring) /\ k = blockIndex
  <2>1. blockIndex \in Nat
    BY DEF QueueInv, HeadersInv, blockIndex
  <2> QED  BY <2>1, HowFar DEF QueueInv
<1>2. /\ producer = "block" /\ producer' = "entry"
      /\ ring' = Append(ring, len + 1) /\ dequeued' = Append(dequeued, 0)
      /\ elements' = Append(elements, [i \in 0..BLOCK_SIZE - 1 |-> 0])
      /\ UNCHANGED <<tailIndex, headIndex, consumerVars>>
  BY <1>1 DEF NewBlock
<1>3. Types /\ RingInv /\ BlocksInv /\ BulkInv /\ HeadersInv /\ IndexInv
  BY DEF QueueInv
<1>4. /\ Started' = n + 1 /\ Shown' = n /\ Indexed' = n /\ Oldest' = first
      /\ Shown = n /\ Indexed = n /\ tailIndex = n * BLOCK_SIZE /\ tailIndex \in Nat
      /\ n = first + len /\ Living = first..n - 1
      /\ Len(ring') = len + 1 /\ RingInv'
      /\ \A c \in Living' : c \in Living \/ c = n
      /\ \A c \in Living : BlockOf(c)' = BlockOf(c)
      /\ BlockOf(n)' = len + 1
  <2>1. n = first + len /\ tailIndex \in Nat
    BY <1>1, <1>3, HowFar DEF Types
  <2> QED  BY <1>1, <1>2, <2>1, BlockAdded DEF Living
<1>5. Types' /\ BulkInv'
  <2>1. tailIndex' \in Nat /\ tailIndex <= tailIndex'
    BY <1>2, <1>4
  <2>2. dequeued' \in Seq(Nat) /\ Len(dequeued') = len + 1
    BY <1>1, <1>2, <1>3 DEF Types
  <2>3. elements' \in Seq([0..BLOCK_SIZE - 1 -> Nat]) /\ Len(elements') = len + 1
    <3>1. [i \in 0..BLOCK_SIZE - 1 |-> 0] \in [0..BLOCK_SIZE - 1 -> Nat]
      OBVIOUS
    <3> QED  BY <1>1, <1>2, <1>3, <3>1 DEF Types
  <2> QED  BY <1>2, <1>3, <1>4, <2>1, <2>2, <2>3, BulkKept, ProducerLeaves DEF Types
<1>6. BlocksInv'
  <2>1. ASSUME NEW c \in Living' PROVE dequeued'[BlockOf(c)'] = Emptied(c)'
    <3>1. CASE c \in Living
      <4>1. dequeued[BlockOf(c)] = Emptied(c) /\ BlockOf(c)' = BlockOf(c)
        BY <1>3, <1>4, <3>1 DEF BlocksInv
      <4>2. BlockOf(c) \in 1..Len(dequeued)
        BY <1>3, <3>1, Blocks DEF Types
      <4>3. dequeued'[BlockOf(c)] = dequeued[BlockOf(c)]
        BY <1>2, <1>3, <4>2 DEF Types
      <4>4. Emptied(c)' = Emptied(c)
        BY <1>2, ProducerLeaves
      <4> QED  BY <4>1, <4>3, <4>4
    <3>2. CASE c = n
      <4>1. bulk.index <= n * BLOCK_SIZE
        BY <1>3, <1>4 DEF Types, BulkInv
      <4>2. Emptied(n)' = 0
        BY <1>2, <4>1, ProducerLeaves DEF Emptied
      <4>3. dequeued'[len + 1] = 0
        BY <1>1, <1>2, <1>3 DEF Types
      <4> QED  BY <1>4, <3>2, <4>2, <4>3
    <3> QED  BY <1>4, <2>1, <3>1, <3>2
  <2>2. ASSUME NEW i \in Nat, Written(i)', first <= Chunk(i)
        PROVE  elements'[BlockOf(Chunk(i))'][i % BLOCK_SIZE] = i + 1
    <3>1. i < tailIndex /\ Written(i)
      BY <1>2, <2>2 DEF Written
    <3>2. PICK c \in Int : c = Chunk(i)
      BY ChunkOf
    <3>3. c < n
      BY <1>4, <3>1, <3>2, ChunkBounds
    <3>4. c \in Living /\ Oldest <= Chunk(i)
      BY <1>1, <1>4, <2>2, <3>2, <3>3
    <3>5. elements[BlockOf(c)][i % BLOCK_SIZE] = i + 1
      BY <1>3, <3>1, <3>2, <3>4 DEF BlocksInv
    <3>6. BlockOf(c)' = BlockOf(c) /\ BlockOf(c) \in 1..Len(elements)
      BY <1>3, <1>4, <3>4, Blocks DEF Types
    <3>7. elements'[BlockOf(c)] = elements[BlockOf(c)]
      BY <1>2, <1>3, <3>6 DEF Types
    <3>8. Chunk(i)' = c
      BY <3>2 DEF Chunk
    <3> QED  BY <3>5, <3>6, <3>7, <3>8
  <2>3. \A i \in Nat : Written(i)' /\ Oldest' <= Chunk(i) =>
          elements'[BlockOf(Chunk(i))'][i % BLOCK_SIZE] = i + 1
    BY <1>4, <2>2
  <2> QED  BY <2>1, <2>3 DEF BlocksInv, Chunk
<1>7. PICK o \in Int, h \in Nat, q \in Int, p \in Nat : IndexAt(o, h, q, p)
  BY <1>3 DEF IndexInv
<1>8. /\ blockIndexFront = Slot(k, o, n)
      /\ n > 0 => headers[k].front = Slot(k, o, n - 1)
      /\ \A c \in Living : Listed(k, o, c)
  BY <1>1, <1>4, <1>7 DEF IndexAt, ProducerIndex, Header
<1>9. k \in 1..Len(headers) /\ k = Len(headers) /\ HeaderSize(k) \in Nat \ {0} /\ len <= HeaderSize(k)
      /\ headers \in Seq(Headers)
  BY <1>1, <1>3, HeaderSizes DEF HeadersInv, blockIndex
(* The entries that the old index has stay what they were. *)
<1>10. ASSUME NEW l \in 1..k, headers'[l] = headers[l]
       PROVE  /\ HeaderSize(l)' = HeaderSize(l)
              /\ \A a, c : Slot(l, a, c)' = Slot(l, a, c)
              /\ \A a : \A c \in Living : Listed(l, a, c)' = Listed(l, a, c)
  <2>1. HeaderSize(l)' = HeaderSize(l)
    BY <1>10 DEF HeaderSize
  <2>2. \A a, c : Slot(l, a, c)' = Slot(l, a, c)
    BY <2>1 DEF Slot
  <2>3. \A a, c : Entry(l, a, c)' = Entry(l, a, c)
    BY <1>10, <2>2 DEF Entry
  <2> QED  BY <1>4, <2>1, <2>2, <2>3 DEF Listed
<1>11. ASSUME \A l \in 1..k : headers'[l] = headers[l], 1..k \subseteq 1..blockIndex',
              consumer \in {"front", "slot", "process", "release"}
       PROVE  ConsumerIndex(h, q, p)' /\ (h = k => q = o) /\ h \in 1..k
  <2>1. ConsumerIndex(h, q, p) /\ (h = k => q = o)
    BY <1>1, <1>7, <1>11 DEF IndexAt
  <2>2. /\ h \in 1..k /\ LastChunk <= p /\ p < n
        /\ \A c \in (FirstChunk..LastChunk) \union {p} : Listed(h, q, c)
    BY <1>1, <1>4, <2>1 DEF ConsumerIndex
  <2>3. first <= FirstChunk /\ FirstChunk <= LastChunk /\ FirstChunk \in Nat /\ LastChunk \in Nat
    BY <1>1, <1>3, <1>11, BulkLives, Left
  <2>4. \A c \in (FirstChunk..LastChunk) \union {p} : Listed(h, q, c)'
    <3>1. \A c \in (FirstChunk..LastChunk) \union {p} : c \in Living
      BY <1>4, <2>2, <2>3
    <3> QED  BY <1>10, <1>11, <2>2, <3>1
  <2>5. h \in 1..blockIndex' /\ p < Shown' /\ HeaderSize(h)' = HeaderSize(h)
        /\ headers'[h].front = headers[h].front
    <3>1. h \in 1..blockIndex'
      BY <1>11, <2>2
    <3> QED  BY <1>4, <1>10, <1>11, <2>2, <3>1
  <2>6. UNCHANGED consumerVars
    BY <1>2
  <2> QED  BY <2>1, <2>2, <2>4, <2>5, <2>6, ConsumerIndexKept
<1>12. CASE len # HeaderSize(k)
  <2>1. headers' = headers /\ blockIndexFront' = blockIndexFront /\ blockIndex' = k
    BY <1>1, <1>12 DEF NewBlock, blockIndex
  <2>2. HeadersInv'
    <3>1. HeaderSize(k)' = HeaderSize(k)
      BY <1>9, <1>10, <2>1
    <3> QED  BY <1>3, <1>4, <1>9, <1>12, <2>1, <3>1 DEF HeadersInv
  <2>3. ProducerIndex(o)'
    <3>1. Shown' = n /\ Oldest' = first /\ Indexed' = n
      BY <1>4
    <3>2. blockIndexFront' = Slot(k, o, n)' /\ (n > 0 => headers'[k].front = Slot(k, o, n - 1)')
      BY <1>8, <1>9, <1>10, <2>1
    <3>3. \A c \in first..n - 1 : Listed(k, o, c)'
      BY <1>4, <1>8, <1>9, <1>10, <2>1
    <3> QED  BY <2>1, <3>1, <3>2, <3>3 DEF ProducerIndex, Header
  <2>4. IndexAt(o, h, q, p)'
    BY <1>2, <1>9, <1>11, <2>1, <2>3, ProducerLeaves DEF IndexAt
  <2> QED  BY <1>4, <1>5, <1>6, <2>2, <2>4 DEF QueueInv, IndexInv
<1>13. CASE len = HeaderSize(k)
  <2>0. len \in Nat \ {0}
    BY <1>9, <1>13
  <2> DEFINE new == NewIndex(len)
  <2>1. headers' = Append(headers, new) /\ blockIndexFront' = len
    BY <1>1, <1>13 DEF NewBlock
  <2>2. /\ new \in Headers /\ new.front = len - 1 /\ Cardinality(DOMAIN new.entries) = 2 * len
        /\ Copied(new, k, o, first, len)
    <3>1. blockIndexFront = Slot(k, o, first + len)
      BY <1>4, <1>8
    <3>2. HeadersInv /\ k = blockIndex /\ len = Len(ring) /\ HeaderSize(k) = len
      BY <1>1, <1>3, <1>13
    <3> QED  BY <2>0, <3>1, <3>2, IndexGrown
  <2> HIDE DEF new
  <2>3. /\ headers' \in Seq(Headers) /\ Len(headers') = k + 1 /\ blockIndex' = k + 1
        /\ headers'[k + 1] = new /\ \A l \in 1..k : headers'[l] = headers[l]
    BY <1>9, <2>1, <2>2 DEF blockIndex
  <2>4. PICK m \in Nat, z \in Int : m = k + 1 /\ z = 0 - first
    OBVIOUS
  <2>5. HeaderSize(m)' = 2 * len
    BY <2>2, <2>3, <2>4 DEF HeaderSize
  <2>6. HeadersInv'
    <3>1. len + 1 <= 2 * len
      BY <2>0
    <3>2. Len(ring') <= HeaderSize(m)'
      BY <1>4, <2>5, <3>1
    <3>3. blockIndex' = m /\ Len(headers') > 0
      BY <1>9, <2>3, <2>4
    <3> QED  BY <2>3, <3>2, <3>3 DEF HeadersInv
  <2>7. \A c \in first..n : Slot(m, z, c)' = c - first
    <3> SUFFICES ASSUME NEW c \in first..n PROVE Slot(m, z, c)' = c - first
      OBVIOUS
    <3>1. PICK d \in Nat \ {0}, a \in Nat : d = 2 * len /\ a = c - first
      BY <1>4, <2>0
    <3>2. a % d = a
      <4>1. a \in 0..d - 1
        BY <1>4, <2>0, <3>1
      <4> QED  BY <4>1, Small
    <3>3. z + c = a
      BY <2>4, <3>1
    <3> QED  BY <2>5, <3>1, <3>2, <3>3 DEF Slot
  <2>8. \A c \in first..n - 1 : Listed(m, z, c)'
    <3> SUFFICES ASSUME NEW c \in first..n - 1 PROVE Listed(m, z, c)'
      OBVIOUS
    <3>1. c \in first..n /\ c \in first..first + len - 1 /\ c \in Living
      BY <1>4
    <3>2. Entry(m, z, c)' = Entry(k, o, c)
      BY <2>2, <2>3, <2>4, <2>7, <3>1 DEF Entry, Copied
    <3> QED  BY <1>4, <1>8, <3>1, <3>2 DEF Listed
  <2>9. ProducerIndex(z)'
    <3>1. Shown' = n /\ Oldest' = first /\ Indexed' = n /\ n \in first..n /\ n - first = len
      BY <1>4
    <3>2. blockIndexFront' = Slot(m, z, n)'
      BY <2>1, <2>7, <3>1
    <3>3. headers'[m].front = Slot(m, z, n - 1)'
      <4>1. n - 1 \in first..n /\ n - 1 - first = len - 1
        BY <1>4, <2>0
      <4> QED  BY <2>2, <2>3, <2>4, <2>7, <4>1
    <3> QED  BY <2>3, <2>4, <2>8, <3>1, <3>2, <3>3 DEF ProducerIndex, Header
  <2>10. IndexAt(z, h, q, p)'
    <3>1. consumer \in {"front", "slot", "process", "release"} =>
            ConsumerIndex(h, q, p)' /\ h # blockIndex'
      BY <1>11, <2>3
    <3> QED  BY <1>2, <2>9, <3>1, ProducerLeaves DEF IndexAt
  <2> QED  BY <1>4, <1>5, <1>6, <2>4, <2>6, <2>10 DEF QueueInv, IndexInv
<1> QED  BY <1>12, <1>13

-------------------------------------------------------------------------------
LEMMA InitQueue == Init => QueueInv
<1> SUFFICES ASSUME Init PROVE QueueInv
  OBVIOUS
<1> DEFINE size == EXPLICIT_INITIAL_INDEX_SIZE
           first == [front |-> -1, entries |-> [i \in 0..size - 1 |-> NoEntry]]
<1>1. size \in Nat \ {0} /\ BLOCK_SIZE \in Nat \ {0}
  BY EventQueueAssumption
<1>2. /\ tailIndex = 0 /\ headIndex = 0 /\ ring = <<>> /\ elements = <<>> /\ dequeued = <<>>
      /\ headers = <<first>> /\ blockIndexFront = 0 /\ producer = "idle" /\ consumer = "idle"
      /\ seen = 0 /\ processed = <<>>
      /\ bulk = [index |-> 0, end |-> 0, header |-> 1, front |-> 0, slot |-> 0]
  BY DEF Init
<1>3. tailIndex % BLOCK_SIZE = 0 /\ Chunk(tailIndex) = 0
  <2>1. PICK a \in 0..BLOCK_SIZE - 1 : a = 0
    BY <1>1
  <2>2. a % BLOCK_SIZE = a /\ a \div BLOCK_SIZE = 0
    BY <1>1, Small
  <2> QED  BY <1>2, <2>1, <2>2 DEF Chunk
<1>4. Started = 0 /\ Indexed = 0 /\ Shown = 0 /\ Len(ring) = 0 /\ Oldest = 0
  <2>1. Started = 0 /\ Len(ring) = 0
    BY <1>2, <1>3 DEF Started
  <2>2. Indexed = Started /\ Shown = Started
    BY <1>2 DEF Indexed, Shown
  <2>3. Oldest = 0 - 0
    BY <2>1 DEF Oldest
  <2> QED  BY <2>1, <2>2, <2>3
<1>5. Types
  BY <1>2 DEF Types
<1>6. RingInv
  BY <1>1, <1>2, <1>4 DEF RingInv
<1>7. BlocksInv
  <2>1. Living = {}
    BY <1>4 DEF Living
  <2>2. \A i \in Nat : ~Written(i)
    BY <1>2 DEF Written
  <2> QED  BY <2>1, <2>2 DEF BlocksInv
<1>8. BulkInv
  <2>1. processed = [i \in 1..bulk.index + 0 |-> i]
    BY <1>2
  <2> QED  BY <1>2, <2>1 DEF BulkInv
<1>9. first \in Headers
  <2>1. [i \in 0..size - 1 |-> NoEntry] \in Entries(size)
    <3>1. NoEntry \in [base : Nat, block : Nat]
      BY DEF NoEntry
    <3> QED  BY <3>1 DEF Entries
  <2>2. -1 \in Int
    OBVIOUS
  <2> QED  BY <1>1, <2>1, <2>2 DEF Headers
<1> HIDE DEF first
<1>10. headers \in Seq(Headers) /\ Len(headers) = 1 /\ blockIndex = 1
  BY <1>2, <1>9 DEF blockIndex
<1>11. PICK m \in Nat \ {0} : m = HeaderSize(1) /\ HeaderSize(blockIndex) = m
  <2>1. HeaderSize(1) \in Nat \ {0}
    <3>0. headers[1] \in Headers
      BY <1>10
    <3>1. PICK n \in Nat \ {0} : headers[1].entries \in Entries(n)
      BY <3>0 DEF Headers
    <3>2. DOMAIN headers[1].entries = 0..n - 1
      BY <3>1 DEF Entries
    <3>3. n - 1 - 0 + 1 = n /\ 0 \in Int /\ n - 1 \in Int /\ 0 <= n - 1
      OBVIOUS
    <3>4. Cardinality(0..n - 1) = n
      BY <3>3, FS_Interval
    <3> QED  BY <3>2, <3>4 DEF HeaderSize
  <2> QED  BY <1>10, <2>1
<1>12. HeadersInv
  BY <1>4, <1>10, <1>11 DEF HeadersInv
<1>13. IndexInv
  <2>1. PICK o \in Int : o = 0
    OBVIOUS
  <2>2. Slot(blockIndex, o, Shown) = 0
    <3>1. PICK a \in 0..m - 1 : a = 0
      OBVIOUS
    <3>2. a % m = a
      BY Small
    <3> QED  BY <1>4, <1>11, <2>1, <3>1, <3>2 DEF Slot
  <2>3. Oldest..Indexed - 1 = {}
    BY <1>4
  <2>4. ProducerIndex(o)
    BY <1>2, <1>4, <2>2, <2>3 DEF ProducerIndex
  <2>5. \A h, q, p : IndexAt(o, h, q, p)
    BY <1>2, <2>4 DEF IndexAt
  <2>6. 0 \in Nat
    OBVIOUS
  <2> QED  BY <2>1, <2>5, <2>6 DEF IndexInv
<1> QED  BY <1>5, <1>6, <1>7, <1>8, <1>12, <1>13 DEF QueueInv

LEMMA Stutters ==
  ASSUME QueueInv, UNCHANGED vars
  PROVE  QueueInv'
<1>1. UNCHANGED <<tailIndex, headIndex, elements, dequeued, ring, headers, blockIndexFront, producer, consumerVars>>
  BY DEF vars, shared, producerVars
<1>2. Types /\ RingInv /\ BlocksInv /\ tailIndex' \in Nat /\ tailIndex <= tailIndex'
  BY <1>1 DEF QueueInv, Types
<1>3. Started' = Started /\ Indexed' = Indexed /\ Shown' = Shown
  BY <1>1 DEF Started, Indexed, Shown, Chunk
<1>4. Types'
  BY <1>1, <1>2, ProducerLeaves DEF Types
<1>5. RingInv' /\ HeadersInv' /\ BulkInv' /\ IndexInv'
  <2>1. producer' \in {"block", "entry", "front"} => tailIndex' % BLOCK_SIZE = 0
    BY <1>1, <1>2 DEF RingInv
  <2> QED  BY <1>1, <1>2, <1>3, <2>1, IndexKept
<1>6. BlocksInv'
  <2>1. \A i : Written(i)' = Written(i)
    BY <1>1 DEF Written
  <2>2. Oldest' = Oldest /\ \A c : BlockOf(c)' = BlockOf(c)
    BY <1>1, <1>2, <1>3, IndexKept
  <2>3. \A i \in Nat : Written(i)' /\ Oldest' <= Chunk(i) =>
          elements'[BlockOf(Chunk(i))'][i % BLOCK_SIZE] = i + 1
    BY <1>1, <1>2, <2>1, <2>2 DEF BlocksInv
  <2> QED  BY <1>1, <1>2, <1>3, <2>3, IndexKept DEF BlocksInv, Chunk
<1> QED  BY <1>4, <1>5, <1>6 DEF QueueInv

LEMMA QueueStep == QueueInv /\ [Next]_vars => QueueInv'
<1> SUFFICES ASSUME QueueInv, [Next]_vars PROVE QueueInv'
  OBVIOUS
<1>1. CASE EnqueueBegin \/ Fill \/ Commit
  BY <1>1, EnqueueBeginStep, FillStep, CommitStep
<1>2. CASE ReuseBlock \/ NewBlock
  BY <1>2, ReuseBlockStep, NewBlockStep
<1>3. CASE AddEntry \/ ShowEntry
  BY <1>3, AddEntryStep, ShowEntryStep
<1>4. CASE Claim \/ LoadIndex \/ LoadFront \/ FindSlot
  BY <1>4, ClaimStep, LoadIndexStep, LoadFrontStep, FindSlotStep
<1>5. CASE Process \/ Release
  BY <1>5, ProcessStep, ReleaseStep
<1>6. CASE UNCHANGED vars
  BY <1>6, Stutters
<1> QED  BY <1>1, <1>2, <1>3, <1>4, <1>5, <1>6 DEF Next

(* The blocks, the index and what the consumer knows of it are always as   *)
(* described: the queue never loses track of a chunk (enqueue_begin,       *)
(* new_block_index, dequeue_bulk).                                         *)
THEOREM QueueKept == Spec => []QueueInv
<1>1. Init => QueueInv
  BY InitQueue
<1>2. QueueInv /\ [Next]_vars => QueueInv'
  BY QueueStep
<1> QED  BY <1>1, <1>2, PTL DEF Spec

(* Whatever the sizes of blocks, bulks and the first index, and however    *)
(* the two threads interleave, the consumer processes the elements in the  *)
(* order in which they were put in, each of them once (dequeue_bulk).      *)
THEOREM InOrder == Spec => []ProcessedInOrder
<1>1. QueueInv => ProcessedInOrder
  <2> SUFFICES ASSUME QueueInv PROVE ProcessedInOrder
    OBVIOUS
  <2>1. PICK n \in Nat : processed = [i \in 1..n |-> i]
    <3>1. bulk.index \in Nat /\ (consumer = "release" => InBlock \in Nat)
      BY Left DEF QueueInv, Types
    <3>2. bulk.index + (IF consumer = "release" THEN InBlock ELSE 0) \in Nat
      BY <3>1
    <3> QED  BY <3>2 DEF QueueInv, BulkInv
  <2>2. Len(processed) = n
    BY <2>1
  <2> QED  BY <2>1, <2>2 DEF ProcessedInOrder
<1> QED  BY <1>1, QueueKept, PTL

(* The producer never writes an element where the consumer reads one, nor  *)
(* an entry of the index where it looks one up (enqueue, dequeue_bulk).    *)
THEOREM NoPlaceShared == Spec => []NoSharedPlace
<1>1. QueueInv => NoSharedPlace
  <2> SUFFICES ASSUME QueueInv PROVE NoSharedPlace
    OBVIOUS
  <2>1. Types /\ RingInv /\ BulkInv /\ HeadersInv /\ IndexInv
    BY DEF QueueInv
  <2>2. ASSUME producer = "fill", consumer = "process", BulkBlock = TailBlock,
               NEW i \in 0..InBlock - 1, (bulk.index + i) % BLOCK_SIZE = tailIndex % BLOCK_SIZE
        PROVE  FALSE
    <3>1. /\ bulk.index \in Nat /\ bulk.end \in Nat /\ bulk.end <= tailIndex /\ tailIndex \in Nat
      BY <2>1 DEF Types, BulkInv
    <3>2. /\ FirstChunk \in Nat /\ FirstChunk * BLOCK_SIZE \in Nat
          /\ FirstChunk * BLOCK_SIZE <= bulk.index /\ InBlock \in Nat
          /\ bulk.index + InBlock <= bulk.end
          /\ bulk.index + InBlock <= FirstChunk * BLOCK_SIZE + BLOCK_SIZE
      BY <2>1, <2>2, Left
    <3>3. PICK m \in Int, n \in Int : m = bulk.index + i /\ n = tailIndex
      BY <3>1, <3>2
    <3>4. m < n
      BY <3>1, <3>2, <3>3
    <3>5. Chunk(m) = FirstChunk
      <4>1. FirstChunk * BLOCK_SIZE <= m /\ m < FirstChunk * BLOCK_SIZE + BLOCK_SIZE
        BY <3>1, <3>2, <3>3, Sizes
      <4> QED  BY <3>2, <4>1, ChunkBounds
    <3>6. Chunk(n) = FirstChunk
      <4>1. Started = Chunk(n) + 1 /\ Chunk(n) \in Nat
        BY <2>1, <2>2, <3>3, HowFar
      <4>2. Started > 0 /\ Started - 1 = Chunk(n)
        BY <4>1
      <4>3. Chunk(n) \in Living /\ BlockOf(Chunk(n)) = TailBlock
        BY <2>1, <4>2, Blocks
      <4>4. FirstChunk \in Living /\ BlockOf(FirstChunk) = BulkBlock
        BY <2>2, BlockRead
      <4> QED  BY <2>1, <2>2, <4>3, <4>4, Blocks
    <3>7. m = n
      <4>1. m \div BLOCK_SIZE = n \div BLOCK_SIZE /\ m % BLOCK_SIZE = n % BLOCK_SIZE
        BY <2>2, <3>3, <3>5, <3>6 DEF Chunk
      <4> QED  BY <4>1, Sizes, SamePlace
    <3> QED  BY <3>4, <3>7
  <2>3. ASSUME producer = "entry", bulk.header = blockIndex, consumer \in {"slot", "process", "release"}
        PROVE  /\ consumer = "slot" => bulk.front # blockIndexFront
               /\ consumer \in {"process", "release"} => bulk.slot # blockIndexFront
    <3>1. PICK o \in Int, h \in Nat, q \in Int, p \in Nat : IndexAt(o, h, q, p)
      BY <2>1 DEF IndexInv
    <3>2. ConsumerIndex(h, o, p) /\ ProducerIndex(o) /\ h = blockIndex
      BY <2>3, <3>1 DEF IndexAt, ConsumerIndex
    <3>3. h \in 1..Len(headers) /\ HeaderSize(h) \in Nat \ {0} /\ Len(ring) <= HeaderSize(h)
      BY <2>1, <3>2, HeaderSizes DEF ConsumerIndex, HeadersInv, blockIndex
    <3>4. PICK n \in Int : n = Shown
      BY <2>1, HowFar
    <3>5. /\ n + 1 = Oldest + Len(ring) /\ Oldest \in Nat /\ Len(ring) \in Nat
      BY <2>1, <2>3, <3>4, HowFar
    <3>6. /\ FirstChunk \in Nat /\ LastChunk \in Nat /\ FirstChunk <= LastChunk
          /\ Oldest <= FirstChunk /\ LastChunk <= p /\ p < n
      BY <2>1, <2>3, <3>2, <3>4, Left, BulkLives DEF ConsumerIndex
    <3>7. ASSUME NEW c \in Int, Oldest <= c, c <= p PROVE Slot(h, o, c) # Slot(h, o, n)
      <4>1. c < n /\ n < c + HeaderSize(h)
        BY <3>3, <3>5, <3>6, <3>7
      <4> QED  BY <2>1, <3>3, <4>1, PlacesApart
    <3>8. blockIndexFront = Slot(h, o, n)
      BY <3>2, <3>4 DEF ProducerIndex
    <3>9. Slot(h, o, p) # blockIndexFront /\ Slot(h, o, FirstChunk) # blockIndexFront
      <4>1. p \in Int /\ FirstChunk \in Int /\ Oldest <= p /\ FirstChunk <= p
        BY <3>5, <3>6
      <4> QED  BY <3>6, <3>7, <3>8, <4>1
    <3> QED  BY <3>2, <3>9 DEF ConsumerIndex
  <2> QED  BY <2>2, <2>3 DEF NoSharedPlace
<1> QED  BY <1>1, QueueKept, PTL
===============================================================================
