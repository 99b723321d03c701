--------------------------- MODULE PartfxParseProofs ---------------------------
(***************************************************************************)
(* What holds of PartfxParse for every arena, capacity, depth, set of      *)
(* texts and document.                                                     *)
(***************************************************************************)
EXTENDS PartfxQuery, SequenceTheorems, WellFoundedInduction, TLAPS

-------------------------------------------------------------------------------
(* What the operators of PartfxHeap preserve, for every memory they are    *)
(* given: the blocks stay apart and inside the arena, and what a block     *)
(* points to stays what it was.                                            *)

Slot == [key : Int, value : Int]

SlotMaps == UNION {[D -> Slot] : D \in SUBSET Nat}

BlockSet ==
  [size : Nat \ {0}, type : NodeTypes \union {"NULL"},
   text : Texts \union {NoText}, ptr : Int, count : Nat, capacity : Nat,
   slots : SlotMaps]

HeapMaps == UNION {[D -> BlockSet] : D \in SUBSET Nat}

MemSet == [next : Nat, heap : HeapMaps, oom : BOOLEAN]

LEMMA PutSlot ==
  ASSUME NEW f \in SlotMaps, NEW i \in Nat, NEW x \in Slot
  PROVE  Put(f, i, x) \in SlotMaps
<1>1. PICK D \in SUBSET Nat : f \in [D -> Slot]  BY DEF SlotMaps
<1>2. Put(f, i, x) \in [D \union {i} -> Slot]  BY <1>1 DEF Put
<1> QED  BY <1>1, <1>2 DEF SlotMaps

LEMMA PutBlock ==
  ASSUME NEW f \in HeapMaps, NEW i \in Nat, NEW x \in BlockSet
  PROVE  Put(f, i, x) \in HeapMaps
<1>1. PICK D \in SUBSET Nat : f \in [D -> BlockSet]  BY DEF HeapMaps
<1>2. Put(f, i, x) \in [D \union {i} -> BlockSet]  BY <1>1 DEF Put
<1> QED  BY <1>1, <1>2 DEF HeapMaps

LEMMA HeapBlock ==
  ASSUME NEW f \in HeapMaps, NEW a \in DOMAIN f
  PROVE  a \in Nat /\ f[a] \in BlockSet
BY DEF HeapMaps

LEMMA ZeroBlockType ==
  ASSUME NEW size \in Nat \ {0}
  PROVE  ZeroBlock(size) \in BlockSet
<1>1. EmptySlots \in [{} -> Slot]  BY DEF EmptySlots
<1>2. EmptySlots \in SlotMaps  BY <1>1 DEF SlotMaps
<1> QED  BY <1>2 DEF ZeroBlock, BlockSet, NULL

LEMMA AllocValue ==
  ASSUME NEW m \in MemSet, NEW size \in Nat \ {0}
  PROVE  /\ arena_alloc(m, size) \in MemSet
         /\ arena_alloc(m, size).next = m.next + size
         /\ arena_alloc(m, size).heap = Put(m.heap, m.next, ZeroBlock(size))
         /\ ~arena_alloc(m, size).oom => ~m.oom /\ m.next + size <= ARENA_SIZE
<1>1. m.next \in Nat /\ m.heap \in HeapMaps /\ m.oom \in BOOLEAN  BY DEF MemSet
<1>2. Put(m.heap, m.next, ZeroBlock(size)) \in HeapMaps
  BY <1>1, ZeroBlockType, PutBlock
<1> DEFINE over == m.oom \/ m.next + size > ARENA_SIZE
<1>3. arena_alloc(m, size) =
        [next |-> m.next + size,
         heap |-> Put(m.heap, m.next, ZeroBlock(size)), oom |-> over]
  BY DEF arena_alloc
<1>4. over \in BOOLEAN  OBVIOUS
<1>5. ~over => ~m.oom /\ m.next + size <= ARENA_SIZE
  BY <1>1, HeapAssumption
<1> HIDE DEF over
<1>6. m.next + size \in Nat  BY <1>1
<1>7. arena_alloc(m, size) \in MemSet  BY <1>2, <1>3, <1>4, <1>6 DEF MemSet
<1> QED  BY <1>3, <1>5, <1>7

-------------------------------------------------------------------------------
(* The soundness of a memory, by parts. *)

Addr(m) == DOMAIN m.heap

NodeAt(m, a) == a \in Addr(m) /\ m.heap[a].type \in NodeTypes

StringAt(m, a) ==
  a \in Addr(m) /\ m.heap[a].type = "NULL" /\ m.heap[a].text \in Texts

ArrayAt(m, a) ==
  a \in Addr(m) /\ m.heap[a].type = "NULL" /\ m.heap[a].text = NoText

ContainerAt(m, a) == a \in Addr(m) /\ IsContainer(m.heap[a])

ElemOf(b) == IF b.type = "MAP" THEN SizeofEntry ELSE SizeofPtr

(* Every item of array b is stored under a key. *)
Keyed(b) == \A i \in DOMAIN b.slots : b.slots[i].key # NULL

(* Container b owns an array of m that fits what it holds. *)
FitsArray(m, b) ==
  /\ ArrayAt(m, b.ptr)
  /\ DOMAIN m.heap[b.ptr].slots = 0..(b.count - 1)
  /\ b.count <= b.capacity
  /\ b.capacity # 0
  /\ m.heap[b.ptr].size = ElemOf(b) * b.capacity
  /\ b.type = "MAP" => Keyed(m.heap[b.ptr])

SlotSound(m, slot) ==
  /\ NodeAt(m, slot.value)
  /\ slot.key # NULL => StringAt(m, slot.key)

Apart(m) ==
  /\ \A a \in Addr(m) : a + m.heap[a].size <= m.next
  /\ \A a, b \in Addr(m) : a < b => a + m.heap[a].size <= b

InArena(m) == ~m.oom => m.next <= ARENA_SIZE

ArraysSound(m) == \A a \in Addr(m) : IsContainer(m.heap[a]) => FitsArray(m, m.heap[a])

ArraysOwned(m) ==
  \A a, b \in Addr(m) :
    IsContainer(m.heap[a]) /\ IsContainer(m.heap[b]) /\ m.heap[a].ptr = m.heap[b].ptr
      => a = b

StringsSound(m) ==
  \A a \in Addr(m) : m.heap[a].type = "STRING" => StringAt(m, m.heap[a].ptr)

SlotsSound(m) ==
  \A a \in Addr(m) : \A i \in DOMAIN m.heap[a].slots : SlotSound(m, m.heap[a].slots[i])

HeapSound(m) ==
  /\ m \in MemSet
  /\ Apart(m)
  /\ InArena(m)
  /\ ArraysSound(m)
  /\ ArraysOwned(m)
  /\ StringsSound(m)
  /\ SlotsSound(m)

(* Every block of m is in m1 too, and is of the same kind there, with the *)
(* same text if it has one.                                                *)
KindsKept(m, m1) ==
  \A a \in Addr(m) :
    /\ a \in Addr(m1)
    /\ m1.heap[a].type = m.heap[a].type
    /\ m1.heap[a].text = m.heap[a].text
    /\ m.heap[a].type = "STRING" => m1.heap[a].ptr = m.heap[a].ptr

(* m1 has no node that m has not. *)
NoNewNodes(m, m1) == \A a : NodeAt(m1, a) => NodeAt(m, a)

(* Container a holds in m1 what it holds in m. *)
SameItems(m, m1, a) ==
  m1.heap[a].count = m.heap[a].count /\ ItemsOf(m1, a) = ItemsOf(m, a)

(* Container a holds in m1 what it holds in m and one more behind it. *)
OneMore(m, m1, a) ==
  /\ m1.heap[a].count = m.heap[a].count + 1
  /\ \A i \in 1..m.heap[a].count : ItemsOf(m1, a)[i] = ItemsOf(m, a)[i]

ItemsKept(m, m1) == \A a : ContainerAt(m, a) => SameItems(m, m1, a)

(* m1 is m with value added to what node holds, and to nothing else. *)
ItemAdded(m, m1, node, value) ==
  /\ \A a : ContainerAt(m, a) /\ a # node => SameItems(m, m1, a)
  /\ OneMore(m, m1, node)
  /\ ItemsOf(m1, node)[m1.heap[node].count].value = value

(* The last item of node has a key with this text, or no key and NoText. *)
LastUnder(m, node, text) ==
  KeyText(m, ItemsOf(m, node)[m.heap[node].count]) = text

LEMMA KindsKeptAt ==
  ASSUME NEW m, NEW m1, KindsKept(m, m1), NEW a
  PROVE  /\ NodeAt(m, a) => NodeAt(m1, a)
         /\ StringAt(m, a) => StringAt(m1, a)
         /\ ArrayAt(m, a) => ArrayAt(m1, a)
         /\ ContainerAt(m, a) => ContainerAt(m1, a)
BY DEF KindsKept, NodeAt, StringAt, ArrayAt, ContainerAt, IsContainer

LEMMA KindsKeptSlot ==
  ASSUME NEW m, NEW m1, KindsKept(m, m1), NEW slot, SlotSound(m, slot)
  PROVE  SlotSound(m1, slot)
BY KindsKeptAt DEF SlotSound

LEMMA MemFields ==
  ASSUME NEW m \in MemSet
  PROVE  /\ m.next \in Nat
         /\ m.heap \in HeapMaps
         /\ m.oom \in BOOLEAN
         /\ \A a \in Addr(m) :
              /\ a \in Nat
              /\ m.heap[a] \in BlockSet
              /\ m.heap[a].size \in Nat \ {0}
              /\ m.heap[a].ptr \in Int
              /\ m.heap[a].count \in Nat
              /\ m.heap[a].capacity \in Nat
<1>1. m.next \in Nat /\ m.heap \in HeapMaps /\ m.oom \in BOOLEAN  BY DEF MemSet
<1>2. \A a \in Addr(m) : a \in Nat /\ m.heap[a] \in BlockSet
  BY <1>1, HeapBlock DEF Addr
<1> QED  BY <1>1, <1>2 DEF BlockSet

(* A block b may join m when what it points to is there. *)
Joins(m, b) ==
  /\ IsContainer(b) =>
       /\ FitsArray(m, b)
       /\ \A c \in Addr(m) : IsContainer(m.heap[c]) => m.heap[c].ptr # b.ptr
  /\ b.type = "STRING" => StringAt(m, b.ptr)
  /\ \A i \in DOMAIN b.slots : SlotSound(m, b.slots[i])

(* The bytes from a on are free for size bytes. *)
Free(m, a, size) ==
  \A c \in Addr(m) : c + m.heap[c].size <= a \/ a + size <= c

LEMMA InsertKeeps ==
  ASSUME NEW m \in MemSet, NEW m1, NEW a \in Nat, NEW b \in BlockSet,
         Free(m, a, b.size), m1.heap = Put(m.heap, a, b)
  PROVE  /\ a \notin Addr(m)
         /\ Addr(m1) = Addr(m) \union {a}
         /\ m1.heap[a] = b
         /\ \A c \in Addr(m) : m1.heap[c] = m.heap[c]
         /\ KindsKept(m, m1)
<1>1. b.size \in Nat \ {0}  BY DEF BlockSet
<1>2. a \notin Addr(m)  BY <1>1, MemFields DEF Free
<1>3. /\ Addr(m1) = Addr(m) \union {a}
      /\ m1.heap[a] = b
      /\ \A c \in Addr(m) : m1.heap[c] = m.heap[c]
  <2>1. /\ DOMAIN Put(m.heap, a, b) = DOMAIN m.heap \union {a}
        /\ Put(m.heap, a, b)[a] = b
        /\ \A j \in DOMAIN m.heap : j # a => Put(m.heap, a, b)[j] = m.heap[j]
    BY DEF Put
  <2> QED  BY <1>2, <2>1 DEF Addr
<1> QED  BY <1>2, <1>3 DEF KindsKept

LEMMA InsertSound ==
  ASSUME NEW m, HeapSound(m), NEW m1 \in MemSet, NEW a \in Nat, NEW b \in BlockSet,
         Free(m, a, b.size), Joins(m, b),
         m1.heap = Put(m.heap, a, b),
         m.next <= m1.next, a + b.size <= m1.next, InArena(m1)
  PROVE  HeapSound(m1)
<1>1. m \in MemSet  BY DEF HeapSound
<1>2. /\ a \notin Addr(m)
      /\ Addr(m1) = Addr(m) \union {a}
      /\ m1.heap[a] = b
      /\ \A c \in Addr(m) : m1.heap[c] = m.heap[c]
      /\ KindsKept(m, m1)
  BY <1>1, InsertKeeps
<1>3. b.size \in Nat \ {0}  BY DEF BlockSet
<1>4. Apart(m1)
  <2>1. m.next \in Nat /\ m1.next \in Nat  BY <1>1, MemFields
  <2>2. \A c \in Addr(m) : c \in Nat /\ m.heap[c].size \in Nat \ {0}
    BY <1>1, MemFields
  <2>3. \A c \in Addr(m1) : c + m1.heap[c].size <= m1.next
    BY <1>2, <1>3, <2>1, <2>2 DEF HeapSound, Apart
  <2>4. \A c, d \in Addr(m1) : c < d => c + m1.heap[c].size <= d
    BY <1>2, <1>3, <2>2 DEF HeapSound, Apart, Free
  <2> QED  BY <2>3, <2>4 DEF Apart
<1>5. ASSUME NEW c, FitsArray(m, c)
      PROVE  FitsArray(m1, c)
  BY <1>2, <1>5 DEF FitsArray, ArrayAt, Addr
<1>6. ArraysSound(m1)
  BY <1>2, <1>5 DEF HeapSound, ArraysSound, Joins
<1>7. ArraysOwned(m1)
  BY <1>2 DEF HeapSound, ArraysOwned, Joins
<1>8. StringsSound(m1)
  BY <1>2, KindsKeptAt DEF HeapSound, StringsSound, Joins
<1>9. SlotsSound(m1)
  BY <1>2, KindsKeptSlot DEF HeapSound, SlotsSound, Joins
<1> QED  BY <1>4, <1>6, <1>7, <1>8, <1>9 DEF HeapSound

-------------------------------------------------------------------------------
(* The operations that allocate: what they add, and that the memory stays  *)
(* sound.                                                                  *)

(* The blocks of m are in m1 unchanged. *)
BlocksKept(m, m1) == \A a \in Addr(m) : a \in Addr(m1) /\ m1.heap[a] = m.heap[a]

LEMMA BlocksKeptItems ==
  ASSUME NEW m, HeapSound(m), NEW m1, BlocksKept(m, m1)
  PROVE  ItemsKept(m, m1)
<1> SUFFICES ASSUME NEW a, ContainerAt(m, a) PROVE SameItems(m, m1, a)
  BY DEF ItemsKept
<1>1. m.heap[a].ptr \in Addr(m)
  BY DEF HeapSound, ArraysSound, FitsArray, ArrayAt, ContainerAt
<1>2. m1.heap[a] = m.heap[a] /\ m1.heap[m.heap[a].ptr] = m.heap[m.heap[a].ptr]
  BY <1>1 DEF BlocksKept, ContainerAt
<1> QED  BY <1>2 DEF SameItems, ItemsOf

(* m1 is m with block b added behind all others. *)
Appended(m, m1, b) ==
  /\ m1 \in MemSet
  /\ m1.next = m.next + b.size
  /\ m1.heap = Put(m.heap, m.next, b)
  /\ ~m1.oom => ~m.oom /\ m1.next <= ARENA_SIZE

StringBlock(text) == [ZeroBlock(StrSize[text]) EXCEPT !.text = text]

NodeBlock(type) == [ZeroBlock(SizeofNode) EXCEPT !.type = type]

NumberBlock(type, text) == [NodeBlock(type) EXCEPT !.text = text]

LEMMA PutAgain ==
  ASSUME NEW f, NEW i, NEW x, NEW y
  PROVE  [Put(f, i, x) EXCEPT ![i] = y] = Put(f, i, y)
BY DEF Put

LEMMA FreeAtNext ==
  ASSUME NEW m, HeapSound(m), NEW size
  PROVE  Free(m, m.next, size)
BY DEF HeapSound, Apart, Free

LEMMA AllocAppends ==
  ASSUME NEW m \in MemSet, NEW size \in Nat \ {0}
  PROVE  Appended(m, arena_alloc(m, size), ZeroBlock(size))
<1>1. ZeroBlock(size).size = size  BY DEF ZeroBlock
<1> QED  BY <1>1, AllocValue DEF Appended

(* Filling the block just allocated is allocating it filled. *)
LEMMA FillAppends ==
  ASSUME NEW m \in MemSet, NEW m1, NEW b, Appended(m, m1, b),
         NEW c \in BlockSet, c.size = b.size
  PROVE  Appended(m, [m1 EXCEPT !.heap = [m1.heap EXCEPT ![m.next] = c]], c)
<1> DEFINE m2 == [m1 EXCEPT !.heap = [m1.heap EXCEPT ![m.next] = c]]
<1>1. m.next \in Nat /\ m.heap \in HeapMaps  BY MemFields
<1>2. m1 = [next |-> m1.next, heap |-> m1.heap, oom |-> m1.oom]
  BY DEF Appended, MemSet
<1>3. [m1.heap EXCEPT ![m.next] = c] = Put(m.heap, m.next, c)
  BY PutAgain DEF Appended
<1>4. m2 = [next |-> m1.next, heap |-> Put(m.heap, m.next, c), oom |-> m1.oom]
  BY <1>2, <1>3
<1>5. Put(m.heap, m.next, c) \in HeapMaps  BY <1>1, PutBlock
<1>6. m2 \in MemSet  BY <1>4, <1>5 DEF Appended, MemSet
<1> HIDE DEF m2
<1>7. Appended(m, m2, c)  BY <1>4, <1>6 DEF Appended
<1> QED  BY <1>7 DEF m2

LEMMA AppendSound ==
  ASSUME NEW m, HeapSound(m), NEW b \in BlockSet, Joins(m, b),
         NEW m1, Appended(m, m1, b)
  PROVE  /\ HeapSound(m1)
         /\ BlocksKept(m, m1)
         /\ KindsKept(m, m1)
         /\ Addr(m1) = Addr(m) \union {m.next}
         /\ m1.heap[m.next] = b
         /\ m.next \notin Addr(m)
<1>1. m \in MemSet /\ m.next \in Nat /\ b.size \in Nat \ {0}
  BY MemFields DEF HeapSound, BlockSet
<1>2. Free(m, m.next, b.size)  BY FreeAtNext
<1>3. InArena(m1) /\ m.next <= m1.next /\ m.next + b.size <= m1.next
  BY <1>1 DEF Appended, InArena
<1>4. m1 \in MemSet /\ m1.heap = Put(m.heap, m.next, b)  BY DEF Appended
<1>5. HeapSound(m1)  BY <1>1, <1>2, <1>3, <1>4, InsertSound
<1>6. /\ m.next \notin Addr(m)
      /\ Addr(m1) = Addr(m) \union {m.next}
      /\ m1.heap[m.next] = b
      /\ \A c \in Addr(m) : m1.heap[c] = m.heap[c]
      /\ KindsKept(m, m1)
  BY <1>1, <1>2, <1>4, InsertKeeps
<1> QED  BY <1>5, <1>6 DEF BlocksKept

(* A block that points to nothing may join any memory. *)
LEMMA PlainJoins ==
  ASSUME NEW m, NEW b, ~IsContainer(b), b.type # "STRING", DOMAIN b.slots = {}
  PROVE  Joins(m, b)
BY DEF Joins

LEMMA ZeroBlockFields ==
  ASSUME NEW size
  PROVE  /\ ZeroBlock(size).size = size
         /\ ZeroBlock(size).type = "NULL"
         /\ ZeroBlock(size).text = NoText
         /\ DOMAIN ZeroBlock(size).slots = {}
BY DEF ZeroBlock, EmptySlots

LEMMA StringBlockFields ==
  ASSUME NEW text \in Texts
  PROVE  /\ StringBlock(text) \in BlockSet
         /\ StringBlock(text).size = StrSize[text]
         /\ StringBlock(text).type = "NULL"
         /\ StringBlock(text).text = text
         /\ DOMAIN StringBlock(text).slots = {}
<1>1. StrSize[text] \in Nat \ {0}  BY HeapAssumption
<1>2. ZeroBlock(StrSize[text]) \in BlockSet  BY <1>1, ZeroBlockType
<1> QED  BY <1>2, ZeroBlockFields DEF StringBlock, BlockSet

LEMMA StrdupAppends ==
  ASSUME NEW m \in MemSet, NEW text \in Texts
  PROVE  Appended(m, arena_strdup(m, text), StringBlock(text))
<1> DEFINE m1 == arena_alloc(m, StrSize[text])
           z  == ZeroBlock(StrSize[text])
<1>1. StrSize[text] \in Nat \ {0}  BY HeapAssumption
<1>2. Appended(m, m1, z)  BY <1>1, AllocAppends
<1>3. m1.heap[m.next] = z  BY <1>2 DEF Appended, Put
<1>4. arena_strdup(m, text) =
        [m1 EXCEPT !.heap =
          [m1.heap EXCEPT ![m.next] = [m1.heap[m.next] EXCEPT !.text = text]]]
  BY DEF arena_strdup
<1>5. arena_strdup(m, text) =
        [m1 EXCEPT !.heap = [m1.heap EXCEPT ![m.next] = StringBlock(text)]]
  BY <1>3, <1>4 DEF StringBlock
<1>6. StringBlock(text) \in BlockSet /\ StringBlock(text).size = z.size
  BY StringBlockFields, ZeroBlockFields
<1> HIDE DEF m1, z
<1> QED  BY <1>2, <1>5, <1>6, FillAppends

LEMMA StrdupSound ==
  ASSUME NEW m, HeapSound(m), NEW text \in Texts
  PROVE  LET m1 == arena_strdup(m, text)
         IN  /\ HeapSound(m1)
             /\ BlocksKept(m, m1)
             /\ KindsKept(m, m1)
             /\ NoNewNodes(m, m1)
             /\ StringAt(m1, m.next)
             /\ m1.heap[m.next].text = text
             /\ m.next \notin Addr(m)
<1> DEFINE m1 == arena_strdup(m, text)
<1>1. Appended(m, m1, StringBlock(text))  BY StrdupAppends DEF HeapSound
<1>2. Joins(m, StringBlock(text))
  BY StringBlockFields, PlainJoins DEF IsContainer
<1> HIDE DEF m1
<1>3. /\ HeapSound(m1) /\ BlocksKept(m, m1) /\ KindsKept(m, m1)
      /\ Addr(m1) = Addr(m) \union {m.next} /\ m1.heap[m.next] = StringBlock(text)
      /\ m.next \notin Addr(m)
  BY <1>1, <1>2, StringBlockFields, AppendSound
<1>4. StringAt(m1, m.next) /\ m1.heap[m.next].text = text
  BY <1>3, StringBlockFields DEF StringAt
<1>5. NoNewNodes(m, m1)
  BY <1>3, StringBlockFields DEF NoNewNodes, NodeAt, NodeTypes, KindsKept
<1> QED  BY <1>3, <1>4, <1>5 DEF m1

LEMMA NodeBlockFields ==
  ASSUME NEW type \in NodeTypes
  PROVE  /\ NodeBlock(type) \in BlockSet
         /\ NodeBlock(type).size = SizeofNode
         /\ NodeBlock(type).type = type
         /\ DOMAIN NodeBlock(type).slots = {}
<1>1. ZeroBlock(SizeofNode) \in BlockSet  BY HeapAssumption, ZeroBlockType
<1> QED  BY <1>1, ZeroBlockFields DEF NodeBlock, BlockSet

LEMMA NumberBlockFields ==
  ASSUME NEW type \in NodeTypes, NEW text \in Texts
  PROVE  /\ NumberBlock(type, text) \in BlockSet
         /\ NumberBlock(type, text).size = SizeofNode
         /\ NumberBlock(type, text).type = type
         /\ NumberBlock(type, text).text = text
         /\ DOMAIN NumberBlock(type, text).slots = {}
BY NodeBlockFields DEF NumberBlock, BlockSet

LEMMA NodeAppends ==
  ASSUME NEW m \in MemSet, NEW type \in NodeTypes
  PROVE  Appended(m, create_node(m, type), NodeBlock(type))
<1> DEFINE m1 == arena_alloc(m, SizeofNode)
           z  == ZeroBlock(SizeofNode)
<1>1. Appended(m, m1, z)  BY HeapAssumption, AllocAppends
<1>2. m1.heap[m.next] = z  BY <1>1 DEF Appended, Put
<1>3. create_node(m, type) =
        [m1 EXCEPT !.heap =
          [m1.heap EXCEPT ![m.next] = [m1.heap[m.next] EXCEPT !.type = type]]]
  BY DEF create_node
<1>4. create_node(m, type) =
        [m1 EXCEPT !.heap = [m1.heap EXCEPT ![m.next] = NodeBlock(type)]]
  BY <1>2, <1>3 DEF NodeBlock
<1>5. NodeBlock(type) \in BlockSet /\ NodeBlock(type).size = z.size
  BY NodeBlockFields, ZeroBlockFields
<1> HIDE DEF m1, z
<1> QED  BY <1>1, <1>4, <1>5, FillAppends

LEMMA NumberAppends ==
  ASSUME NEW m \in MemSet, NEW type \in NodeTypes, NEW text \in Texts
  PROVE  Appended(m, create_number_node(m, type, text), NumberBlock(type, text))
<1> DEFINE m1 == create_node(m, type)
           b  == NumberBlock(type, text)
<1>1. Appended(m, m1, NodeBlock(type))  BY NodeAppends
<1>2. m1.heap[m.next] = NodeBlock(type)  BY <1>1 DEF Appended, Put
<1>3. create_number_node(m, type, text) =
        [m1 EXCEPT !.heap =
          [m1.heap EXCEPT ![m.next] = [m1.heap[m.next] EXCEPT !.text = text]]]
  BY DEF create_number_node
<1>4. create_number_node(m, type, text) =
        [m1 EXCEPT !.heap = [m1.heap EXCEPT ![m.next] = b]]
  BY <1>2, <1>3 DEF NumberBlock
<1>5. b \in BlockSet /\ b.size = NodeBlock(type).size
  BY NodeBlockFields, NumberBlockFields
<1> HIDE DEF m1, b
<1>6. Appended(m, [m1 EXCEPT !.heap = [m1.heap EXCEPT ![m.next] = b]], b)
  BY <1>1, <1>5, FillAppends
<1> QED  BY <1>4, <1>6 DEF b

(* A node joins m together with the block behind it that it points to. *)
PairFits(n, b1, b2) ==
  /\ b1.ptr = n + b1.size
  /\ DOMAIN b1.slots = {} /\ DOMAIN b2.slots = {}
  /\ b2.type = "NULL"
  /\ b1.type = "STRING" => b2.text \in Texts
  /\ IsContainer(b1) =>
       /\ b2.text = NoText
       /\ b1.count = 0 /\ b1.capacity # 0
       /\ b2.size = ElemOf(b1) * b1.capacity

LEMMA PairSound ==
  ASSUME NEW m, HeapSound(m), NEW b1 \in BlockSet, NEW b2 \in BlockSet,
         PairFits(m.next, b1, b2),
         NEW m1 \in MemSet,
         m1.heap = Put(Put(m.heap, m.next + b1.size, b2), m.next, b1),
         m1.next = m.next + b1.size + b2.size,
         InArena(m1)
  PROVE  /\ HeapSound(m1)
         /\ BlocksKept(m, m1)
         /\ KindsKept(m, m1)
         /\ m.next \in Addr(m1)
         /\ m1.heap[m.next] = b1
         /\ m1.heap[b1.ptr] = b2
         /\ m.next \notin Addr(m)
         /\ \A c \in Addr(m1) : c \in Addr(m) \/ c = m.next \/ m1.heap[c].type = "NULL"
<1> DEFINE n   == m.next
           a   == m.next + b1.size
           mid == [next |-> m1.next, heap |-> Put(m.heap, a, b2), oom |-> m1.oom]
<1>1. /\ m \in MemSet /\ n \in Nat /\ m1.next \in Nat /\ m.heap \in HeapMaps
      /\ b1.size \in Nat \ {0} /\ b2.size \in Nat \ {0} /\ m1.oom \in BOOLEAN
  BY MemFields DEF HeapSound, BlockSet
<1>2. a \in Nat /\ n < a /\ n <= m1.next /\ a + b2.size <= m1.next  BY <1>1
<1>3. mid \in MemSet  BY <1>1, <1>2, PutBlock DEF MemSet
<1>4. mid.heap = Put(m.heap, a, b2) /\ mid.next = m1.next /\ InArena(mid)
  BY DEF InArena
<1>5. \A c \in Addr(m) : c + m.heap[c].size <= n  BY DEF HeapSound, Apart
<1>6. Free(m, a, b2.size)
  BY <1>1, <1>2, <1>5, MemFields DEF Free
<1>7. Joins(m, b2)  BY PlainJoins DEF PairFits, IsContainer
<1> HIDE DEF mid, n, a
<1>8. HeapSound(mid)
  BY <1>2, <1>3, <1>4, <1>6, <1>7, InsertSound DEF n
<1>9. /\ a \notin Addr(m)
      /\ Addr(mid) = Addr(m) \union {a}
      /\ mid.heap[a] = b2
      /\ \A c \in Addr(m) : mid.heap[c] = m.heap[c]
      /\ KindsKept(m, mid)
  BY <1>1, <1>2, <1>4, <1>6, InsertKeeps
<1>10. Free(mid, n, b1.size)
  BY <1>1, <1>2, <1>5, <1>9 DEF Free, a, n
<1>11. b1.ptr = a  BY DEF PairFits, a
<1>12. Joins(mid, b1)
  <2>1. b1.type = "STRING" => StringAt(mid, b1.ptr)
    BY <1>9, <1>11 DEF PairFits, StringAt
  <2>2. ASSUME IsContainer(b1) PROVE FitsArray(mid, b1)
    <3>1. /\ b2.text = NoText /\ b1.count = 0 /\ b1.capacity # 0
          /\ b2.size = ElemOf(b1) * b1.capacity
          /\ b2.type = "NULL" /\ DOMAIN b2.slots = {}
      BY <2>2 DEF PairFits
    <3>2. b1.capacity \in Nat  BY DEF BlockSet
    <3>3. 0..(b1.count - 1) = {}  BY <3>1
    <3>4. ArrayAt(mid, a)  BY <1>9, <3>1 DEF ArrayAt
    <3>5. b1.count <= b1.capacity  BY <3>1, <3>2
    <3>6. Keyed(b2)  BY <3>1 DEF Keyed
    <3> QED  BY <1>9, <1>11, <3>1, <3>3, <3>4, <3>5, <3>6 DEF FitsArray
  <2>3. \A c \in Addr(m) : IsContainer(m.heap[c]) => m.heap[c].ptr \in Addr(m)
    BY DEF HeapSound, ArraysSound, FitsArray, ArrayAt
  <2>4. \A c \in Addr(mid) : IsContainer(mid.heap[c]) => mid.heap[c].ptr # b1.ptr
    BY <1>9, <1>11, <2>3 DEF PairFits, IsContainer
  <2>5. DOMAIN b1.slots = {}  BY DEF PairFits
  <2> QED  BY <2>1, <2>2, <2>4, <2>5 DEF Joins
<1>13. m1.heap = Put(mid.heap, n, b1)  BY <1>4 DEF a, n
<1>14. n + b1.size <= m1.next  BY <1>1, <1>2 DEF a, n
<1>15. HeapSound(m1)
  BY <1>1, <1>2, <1>4, <1>8, <1>10, <1>12, <1>13, <1>14, InsertSound
<1>16. /\ n \notin Addr(mid)
       /\ Addr(m1) = Addr(mid) \union {n}
       /\ m1.heap[n] = b1
       /\ \A c \in Addr(mid) : m1.heap[c] = mid.heap[c]
       /\ KindsKept(mid, m1)
  BY <1>1, <1>3, <1>10, <1>13, InsertKeeps
<1>17. BlocksKept(m, m1)  BY <1>9, <1>16 DEF BlocksKept
<1>18. KindsKept(m, m1)  BY <1>17 DEF BlocksKept, KindsKept
<1>19. \A c \in Addr(m1) : c \in Addr(m) \/ c = n \/ m1.heap[c].type = "NULL"
  BY <1>9, <1>16 DEF PairFits
<1>20. m1.heap[b1.ptr] = b2  BY <1>9, <1>11, <1>16
<1> QED  BY <1>9, <1>15, <1>16, <1>17, <1>18, <1>19, <1>20 DEF n

(* Memory m with block b in place of the one at a. *)
Replace(m, a, b) == [m EXCEPT !.heap = [m.heap EXCEPT ![a] = b]]

LEMMA PutIs ==
  ASSUME NEW f, NEW i, NEW x, NEW j \in DOMAIN f, i # j
  PROVE  /\ i \in DOMAIN Put(f, i, x) /\ Put(f, i, x)[i] = x
         /\ j \in DOMAIN Put(f, i, x) /\ Put(f, i, x)[j] = f[j]
BY DEF Put

LEMMA MemIs ==
  ASSUME NEW m \in MemSet
  PROVE  m = [next |-> m.next, heap |-> m.heap, oom |-> m.oom]
BY DEF MemSet

LEMMA ReplacedIs ==
  ASSUME NEW x, NEW h, NEW y, NEW a, NEW b
  PROVE  Replace([next |-> x, heap |-> h, oom |-> y], a, b) =
           [next |-> x, heap |-> [h EXCEPT ![a] = b], oom |-> y]
BY DEF Replace

(* Memory m with the slots of the block at a changed and that at c replaced. *)
Both(m, a, s, c, v) == [m EXCEPT !.heap[a].slots = s, !.heap[c] = v]

(* At once or one after the other. *)
LEMMA BothReplaced ==
  ASSUME NEW m \in MemSet, NEW a, NEW c, NEW s, NEW v,
         NEW b, b = [m.heap[a] EXCEPT !.slots = s]
  PROVE  Both(m, a, s, c, v) = Replace(Replace(m, a, b), c, v)
<1>1. ASSUME NEW x, NEW h, NEW y
      PROVE  LET t == [next |-> x, heap |-> h, oom |-> y]
             IN  Both(t, a, s, c, v) = Replace(Replace(t, a, [h[a] EXCEPT !.slots = s]), c, v)
  <2> DEFINE t == [next |-> x, heap |-> h, oom |-> y]
             r == [h[a] EXCEPT !.slots = s]
             g == [h EXCEPT ![a] = r]
  <2>1. Replace(t, a, r) = [next |-> x, heap |-> g, oom |-> y]
    <3> HIDE DEF r
    <3> QED  BY ReplacedIs
  <2>2. Replace(Replace(t, a, r), c, v) = [next |-> x, heap |-> [g EXCEPT ![c] = v], oom |-> y]
    <3> HIDE DEF r, g, t
    <3> QED  BY <2>1, ReplacedIs
  <2>3. [t EXCEPT !.heap[a].slots = s] = [next |-> x, heap |-> g, oom |-> y]
    OBVIOUS
  <2>4. [t EXCEPT !.heap[a].slots = s, !.heap[c] = v] =
          [[t EXCEPT !.heap[a].slots = s] EXCEPT !.heap[c] = v]
    OBVIOUS
  <2>5. [[next |-> x, heap |-> g, oom |-> y] EXCEPT !.heap[c] = v] =
          [next |-> x, heap |-> [g EXCEPT ![c] = v], oom |-> y]
    <3> HIDE DEF g, r
    <3> QED  OBVIOUS
  <2>6. [t EXCEPT !.heap[a].slots = s, !.heap[c] = v] = Replace(Replace(t, a, r), c, v)
    <3> HIDE DEF t, g, r
    <3> QED  BY <2>2, <2>3, <2>4, <2>5
  <2> QED  BY <2>6, Zenon DEF Both
<1>2. PICK x, h, y : m = [next |-> x, heap |-> h, oom |-> y]
  BY MemIs
<1>3. Both(m, a, s, c, v) = Replace(Replace(m, a, [h[a] EXCEPT !.slots = s]), c, v)
  BY <1>1, <1>2, Zenon
<1>4. m.heap = h
  BY <1>2
<1> QED  BY <1>3, <1>4, Zenon

(* Making a node of two blocks: the node at m.next and the block behind it, *)
(* both appended, then the node rewritten.                                  *)
LEMMA PairMade ==
  ASSUME NEW m, HeapSound(m), NEW b \in BlockSet, NEW b1 \in BlockSet, NEW b2 \in BlockSet,
         b1.size = b.size,
         PairFits(m.next, b1, b2),
         NEW m1, Appended(m, m1, b),
         NEW m2, Appended(m1, m2, b2),
         NEW m3, m3 = Replace(m2, m.next, b1)
  PROVE  /\ HeapSound(m3)
         /\ BlocksKept(m, m3)
         /\ KindsKept(m, m3)
         /\ m.next \in Addr(m3)
         /\ m3.heap[m.next] = b1
         /\ m3.heap[b1.ptr] = b2
         /\ m.next \notin Addr(m)
         /\ \A c \in Addr(m3) : c \in Addr(m) \/ c = m.next \/ m3.heap[c].type = "NULL"
         /\ ~m3.oom => ~m.oom
<1> DEFINE a == m.next + b1.size
<1>1. /\ m \in MemSet /\ m.next \in Nat /\ m.heap \in HeapMaps
      /\ b1.size \in Nat \ {0} /\ b2.size \in Nat \ {0}
  BY MemFields DEF HeapSound, BlockSet
<1>2. a \in Nat /\ a # m.next  BY <1>1
<1>3. m2.heap = Put(Put(m.heap, m.next, b), a, b2)  BY DEF Appended
<1>4. [m2.heap EXCEPT ![m.next] = b1] = Put(Put(m.heap, a, b2), m.next, b1)
  <2> DEFINE f == Put(Put(m.heap, m.next, b), a, b2)
  <2>1. [f EXCEPT ![m.next] = b1] = Put(Put(m.heap, a, b2), m.next, b1)
    <3> HIDE DEF a
    <3> QED  BY <1>2 DEF Put
  <2>2. m2.heap = f  BY <1>3
  <2> HIDE DEF f
  <2> QED  BY <2>1, <2>2
<1>5. m2 = [next |-> m2.next, heap |-> m2.heap, oom |-> m2.oom] /\ m2.oom \in BOOLEAN
  BY DEF Appended, MemSet
<1>6. m3 = [next |-> m2.next, heap |-> Put(Put(m.heap, a, b2), m.next, b1), oom |-> m2.oom]
  BY <1>4, <1>5 DEF Replace
<1>7. Put(Put(m.heap, a, b2), m.next, b1) \in HeapMaps
  <2>1. Put(m.heap, a, b2) \in HeapMaps  BY <1>1, <1>2, PutBlock
  <2> QED  BY <1>1, <2>1, PutBlock
<1>8. m3 \in MemSet  BY <1>5, <1>6, <1>7 DEF Appended, MemSet
<1>9. m3.next = m.next + b1.size + b2.size  BY <1>6 DEF Appended
<1>10. InArena(m3)  BY <1>6 DEF InArena, Appended
<1>11. ~m3.oom => ~m.oom  BY <1>6 DEF Appended
<1>12. m3.heap = Put(Put(m.heap, m.next + b1.size, b2), m.next, b1)  BY <1>6
<1> HIDE DEF a
<1>13. /\ HeapSound(m3) /\ BlocksKept(m, m3) /\ KindsKept(m, m3)
       /\ m.next \in Addr(m3) /\ m3.heap[m.next] = b1 /\ m3.heap[b1.ptr] = b2
       /\ m.next \notin Addr(m)
       /\ \A c \in Addr(m3) : c \in Addr(m) \/ c = m.next \/ m3.heap[c].type = "NULL"
  BY <1>8, <1>9, <1>10, <1>12, PairSound
<1> QED  BY <1>11, <1>13

(* What making a node of the given type leaves behind. *)
NodeMade(m, m1, type) ==
  /\ HeapSound(m1)
  /\ BlocksKept(m, m1)
  /\ KindsKept(m, m1)
  /\ m.next \in Addr(m1)
  /\ m1.heap[m.next].type = type
  /\ m.next \notin Addr(m)
  /\ \A a \in Addr(m1) : a \in Addr(m) \/ a = m.next \/ m1.heap[a].type = "NULL"
  /\ IsContainer(m1.heap[m.next]) => m1.heap[m.next].count = 0

LEMMA NumberMade ==
  ASSUME NEW m, HeapSound(m), NEW type \in {"INT", "FLOAT", "BOOL"}, NEW text \in Texts
  PROVE  /\ NodeMade(m, create_number_node(m, type, text), type)
         /\ TextOf(create_number_node(m, type, text), m.next) = text
<1> DEFINE m1 == create_number_node(m, type, text)
           b  == NumberBlock(type, text)
<1>1. type \in NodeTypes  BY DEF NodeTypes
<1>2. Appended(m, m1, b)  BY <1>1, NumberAppends DEF HeapSound
<1>3. b \in BlockSet /\ b.type = type /\ b.text = text /\ DOMAIN b.slots = {}
  BY <1>1, NumberBlockFields
<1> HIDE DEF m1, b
<1>4. Joins(m, b)  BY <1>3, PlainJoins DEF IsContainer
<1>5. NodeMade(m, m1, type)
  BY <1>2, <1>3, <1>4, AppendSound DEF NodeMade, IsContainer
<1>6. TextOf(m1, m.next) = text
  BY <1>2, <1>3, <1>4, AppendSound DEF TextOf
<1> QED  BY <1>5, <1>6 DEF m1

LEMMA StringMade ==
  ASSUME NEW m, HeapSound(m), NEW text \in Texts
  PROVE  /\ NodeMade(m, create_string_node(m, text), "STRING")
         /\ TextOf(create_string_node(m, text), m.next) = text
<1> DEFINE b  == NodeBlock("STRING")
           m1 == create_node(m, "STRING")
           m2 == arena_strdup(m1, text)
           b1 == [b EXCEPT !.ptr = m1.next]
           m3 == [m2 EXCEPT !.heap = [m2.heap EXCEPT ![m.next] = b1]]
<1>1. m \in MemSet /\ m.next \in Nat /\ "STRING" \in NodeTypes
  BY MemFields DEF HeapSound, NodeTypes
<1>2. Appended(m, m1, b)  BY <1>1, NodeAppends
<1>3. m1 \in MemSet  BY <1>2 DEF Appended
<1>4. Appended(m1, m2, StringBlock(text))  BY <1>3, StrdupAppends
<1>5. b \in BlockSet /\ b.size = SizeofNode /\ b.type = "STRING" /\ DOMAIN b.slots = {}
  BY <1>1, NodeBlockFields
<1>6. m1.next = m.next + b.size /\ m1.next \in Int
  BY <1>2, <1>3, MemFields DEF Appended
<1>7. /\ b1 \in BlockSet /\ b1.size = b.size /\ b1.type = "STRING"
      /\ DOMAIN b1.slots = {} /\ b1.ptr = m.next + b1.size
  BY <1>5, <1>6 DEF BlockSet
<1>8. m2.heap[m.next] = b
  <2>1. m2.heap = Put(Put(m.heap, m.next, b), m1.next, StringBlock(text))
    BY <1>2, <1>4 DEF Appended
  <2>2. m1.next # m.next  BY <1>1, <1>5, <1>6, HeapAssumption
  <2> QED  BY <2>1, <2>2 DEF Put
<1>9. create_string_node(m, text) =
        [m2 EXCEPT !.heap =
          [m2.heap EXCEPT ![m.next] = [m2.heap[m.next] EXCEPT !.ptr = m1.next]]]
  BY DEF create_string_node
<1>10. create_string_node(m, text) = m3  BY <1>8, <1>9
<1>11. PairFits(m.next, b1, StringBlock(text))
  BY <1>7, StringBlockFields DEF PairFits, IsContainer
<1>12. StringBlock(text) \in BlockSet /\ StringBlock(text).text = text
  BY StringBlockFields
<1>15. m3 = Replace(m2, m.next, b1)
  BY DEF Replace
<1> HIDE DEF m1, m2, b, b1, m3
<1>13. /\ HeapSound(m3) /\ BlocksKept(m, m3) /\ KindsKept(m, m3)
       /\ m.next \in Addr(m3) /\ m3.heap[m.next] = b1 /\ m3.heap[b1.ptr] = StringBlock(text)
       /\ m.next \notin Addr(m)
       /\ \A c \in Addr(m3) : c \in Addr(m) \/ c = m.next \/ m3.heap[c].type = "NULL"
  <2>1. /\ b \in BlockSet /\ b1 \in BlockSet /\ StringBlock(text) \in BlockSet
        /\ b1.size = b.size
    BY <1>5, <1>7, <1>12
  <2> QED  BY <1>2, <1>4, <1>11, <1>15, <2>1, PairMade
<1>14. TextOf(m3, m.next) = text  BY <1>7, <1>12, <1>13 DEF TextOf
<1> QED  BY <1>7, <1>10, <1>13, <1>14 DEF NodeMade, IsContainer

LEMMA TimesPositive ==
  ASSUME NEW i \in Nat \ {0}, NEW j \in Nat \ {0}
  PROVE  i * j \in Nat \ {0}
OBVIOUS

LEMMA ElemPositive ==
  ASSUME NEW b
  PROVE  ElemOf(b) \in Nat \ {0}
BY HeapAssumption DEF ElemOf

LEMMA ContainerMade ==
  ASSUME NEW m, HeapSound(m), NEW type \in {"MAP", "SEQUENCE"}, NEW elem,
         elem = IF type = "MAP" THEN SizeofEntry ELSE SizeofPtr
  PROVE  /\ NodeMade(m, create_container(m, type, elem), type)
         /\ TextOf(create_container(m, type, elem), m.next) = NoText
<1> DEFINE b  == NodeBlock(type)
           m1 == create_node(m, type)
           m2 == arena_alloc(m1, elem * InitialCapacity)
           b1 == [b EXCEPT !.capacity = InitialCapacity, !.ptr = m1.next]
           b2 == ZeroBlock(elem * InitialCapacity)
           m3 == [m2 EXCEPT !.heap = [m2.heap EXCEPT ![m.next] = b1]]
<1>1. m \in MemSet /\ m.next \in Nat /\ type \in NodeTypes
  BY MemFields DEF HeapSound, NodeTypes
<1>2. Appended(m, m1, b)  BY <1>1, NodeAppends
<1>3. m1 \in MemSet  BY <1>2 DEF Appended
<1>4. elem \in Nat \ {0} /\ InitialCapacity \in Nat \ {0}  BY HeapAssumption
<1>5. elem * InitialCapacity \in Nat \ {0}  BY <1>4, TimesPositive
<1>6. Appended(m1, m2, b2)  BY <1>3, <1>5, AllocAppends
<1>7. /\ b \in BlockSet /\ b.size = SizeofNode /\ b.type = type
      /\ DOMAIN b.slots = {} /\ b.count = 0 /\ b.text = NoText
  BY <1>1, NodeBlockFields DEF NodeBlock, ZeroBlock
<1>8. m1.next = m.next + b.size /\ m1.next \in Int
  BY <1>2, <1>3, MemFields DEF Appended
<1>9. /\ b1 \in BlockSet /\ b1.size = b.size /\ b1.type = type
      /\ DOMAIN b1.slots = {} /\ b1.ptr = m.next + b1.size
      /\ b1.count = 0 /\ b1.capacity = InitialCapacity /\ b1.text = NoText
  BY <1>4, <1>7, <1>8 DEF BlockSet
<1>10. m2.heap[m.next] = b
  <2>1. m2.heap = Put(Put(m.heap, m.next, b), m1.next, b2)
    BY <1>2, <1>6 DEF Appended
  <2>2. m1.next # m.next  BY <1>1, <1>7, <1>8, HeapAssumption
  <2> QED  BY <2>1, <2>2 DEF Put
<1>11. create_container(m, type, elem) =
        [m2 EXCEPT !.heap[m.next].capacity = InitialCapacity,
                   !.heap[m.next].ptr = m1.next]
  BY DEF create_container
<1>12. create_container(m, type, elem) = m3
  <2>1. m.next \in DOMAIN m2.heap  BY <1>2, <1>6 DEF Appended, Put
  <2>2. /\ m2 = [next |-> m2.next, heap |-> m2.heap, oom |-> m2.oom]
        /\ m2.heap = [j \in DOMAIN m2.heap |-> m2.heap[j]]
    BY <1>6 DEF Appended, MemSet, HeapMaps
  <2> HIDE DEF m2
  <2>3. [m2 EXCEPT !.heap[m.next].capacity = InitialCapacity,
                   !.heap[m.next].ptr = m1.next] = m3
    BY <1>10, <2>1, <2>2
  <2> QED  BY <1>11, <2>3 DEF m2
<1>13. /\ b2 \in BlockSet /\ b2.size = elem * InitialCapacity /\ b2.type = "NULL"
       /\ b2.text = NoText /\ DOMAIN b2.slots = {}
  BY <1>5, ZeroBlockType, ZeroBlockFields
<1>14. ElemOf(b1) = elem  BY <1>9 DEF ElemOf
<1>15. PairFits(m.next, b1, b2)
  BY <1>4, <1>9, <1>13, <1>14 DEF PairFits
<1>18. m3 = Replace(m2, m.next, b1)
  BY DEF Replace
<1> HIDE DEF m1, m2, b, b1, b2, m3
<1>16. /\ HeapSound(m3) /\ BlocksKept(m, m3) /\ KindsKept(m, m3)
       /\ m.next \in Addr(m3) /\ m3.heap[m.next] = b1 /\ m.next \notin Addr(m)
       /\ \A c \in Addr(m3) : c \in Addr(m) \/ c = m.next \/ m3.heap[c].type = "NULL"
  <2>1. b \in BlockSet /\ b1 \in BlockSet /\ b2 \in BlockSet /\ b1.size = b.size
    BY <1>7, <1>9, <1>13
  <2> QED  BY <1>2, <1>6, <1>15, <1>18, <2>1, PairMade
<1>17. TextOf(m3, m.next) = NoText  BY <1>9, <1>16 DEF TextOf
<1> QED  BY <1>9, <1>12, <1>16, <1>17 DEF NodeMade

LEMMA MapMade ==
  ASSUME NEW m, HeapSound(m)
  PROVE  /\ NodeMade(m, create_map_node(m), "MAP")
         /\ TextOf(create_map_node(m), m.next) = NoText
BY ContainerMade DEF create_map_node

LEMMA SequenceMade ==
  ASSUME NEW m, HeapSound(m)
  PROVE  /\ NodeMade(m, create_sequence_node(m), "SEQUENCE")
         /\ TextOf(create_sequence_node(m), m.next) = NoText
BY ContainerMade DEF create_sequence_node

LEMMA ScalarMade ==
  ASSUME NEW m, HeapSound(m), NEW text \in Texts
  PROVE  /\ NodeMade(m, parse_scalar(m, text), ScalarType[text])
         /\ TextOf(parse_scalar(m, text), m.next) = text
<1>1. ScalarType[text] \in {"INT", "FLOAT", "BOOL", "STRING"}  BY HeapAssumption
<1>2. CASE ScalarType[text] = "STRING"  BY <1>2, StringMade DEF parse_scalar
<1>3. CASE ScalarType[text] # "STRING"
  BY <1>1, <1>3, NumberMade DEF parse_scalar
<1> QED  BY <1>2, <1>3

-------------------------------------------------------------------------------
(* Growing a container and storing in it. *)

LEMMA ReplaceValue ==
  ASSUME NEW m \in MemSet, NEW a \in Addr(m), NEW b \in BlockSet
  PROVE  /\ Replace(m, a, b) \in MemSet
         /\ Replace(m, a, b).next = m.next
         /\ Replace(m, a, b).oom = m.oom
         /\ Addr(Replace(m, a, b)) = Addr(m)
         /\ Replace(m, a, b).heap[a] = b
         /\ \A c \in Addr(m) : c # a => Replace(m, a, b).heap[c] = m.heap[c]
<1>1. m = [next |-> m.next, heap |-> m.heap, oom |-> m.oom]  BY DEF MemSet
<1>2. Replace(m, a, b) =
        [next |-> m.next, heap |-> [m.heap EXCEPT ![a] = b], oom |-> m.oom]
  BY <1>1 DEF Replace
<1>3. PICK D \in SUBSET Nat : m.heap \in [D -> BlockSet]  BY DEF MemSet, HeapMaps
<1>4. [m.heap EXCEPT ![a] = b] \in [D -> BlockSet]  BY <1>3
<1>5. [m.heap EXCEPT ![a] = b] \in HeapMaps  BY <1>3, <1>4 DEF HeapMaps
<1>6. Replace(m, a, b) \in MemSet  BY <1>2, <1>5, MemFields DEF MemSet
<1>7. /\ DOMAIN [m.heap EXCEPT ![a] = b] = DOMAIN m.heap
      /\ [m.heap EXCEPT ![a] = b][a] = b
      /\ \A c \in DOMAIN m.heap : c # a => [m.heap EXCEPT ![a] = b][c] = m.heap[c]
  BY <1>3 DEF Addr
<1> QED  BY <1>2, <1>6, <1>7 DEF Addr

(* A container may be given another array that fits it and is no one's. *)
LEMMA RedirectSound ==
  ASSUME NEW m, HeapSound(m), NEW node, ContainerAt(m, node),
         NEW b \in BlockSet,
         b.type = m.heap[node].type, b.text = m.heap[node].text,
         b.size = m.heap[node].size, b.slots = m.heap[node].slots,
         FitsArray(m, b),
         \A c \in Addr(m) : IsContainer(m.heap[c]) /\ c # node => m.heap[c].ptr # b.ptr
  PROVE  /\ HeapSound(Replace(m, node, b))
         /\ KindsKept(m, Replace(m, node, b))
<1> DEFINE m1 == Replace(m, node, b)
<1>1. m \in MemSet /\ node \in Addr(m) /\ IsContainer(m.heap[node]) /\ IsContainer(b)
  BY DEF HeapSound, ContainerAt, IsContainer
<1>2. /\ m1 \in MemSet /\ m1.next = m.next /\ m1.oom = m.oom /\ Addr(m1) = Addr(m)
      /\ m1.heap[node] = b
      /\ \A c \in Addr(m) : c # node => m1.heap[c] = m.heap[c]
  BY <1>1, ReplaceValue
<1> HIDE DEF m1
<1>3. \A c \in Addr(m) :
        /\ m1.heap[c].type = m.heap[c].type /\ m1.heap[c].text = m.heap[c].text
        /\ m1.heap[c].size = m.heap[c].size /\ m1.heap[c].slots = m.heap[c].slots
  BY <1>2
<1>4. KindsKept(m, m1)  BY <1>1, <1>2, <1>3 DEF KindsKept, IsContainer
<1>5. Apart(m1)  BY <1>2, <1>3 DEF HeapSound, Apart
<1>6. InArena(m1)  BY <1>2 DEF HeapSound, InArena
<1>7. ASSUME NEW c, FitsArray(m, c)
      PROVE  FitsArray(m1, c)
  BY <1>2, <1>3, <1>7 DEF FitsArray, ArrayAt, Keyed
<1>8. ArraysSound(m1)
  BY <1>2, <1>7 DEF HeapSound, ArraysSound
<1>9. ArraysOwned(m1)
  BY <1>2, <1>3 DEF HeapSound, ArraysOwned, IsContainer
<1>10. StringsSound(m1)
  BY <1>1, <1>2, KindsKeptAt, <1>4 DEF HeapSound, StringsSound, IsContainer
<1>11. SlotsSound(m1)
  BY <1>2, <1>3, <1>4, KindsKeptSlot DEF HeapSound, SlotsSound
<1>12. HeapSound(m1)
  BY <1>2, <1>5, <1>6, <1>8, <1>9, <1>10, <1>11 DEF HeapSound
<1> QED  BY <1>4, <1>12 DEF m1

Redirected(b, p, k) == [b EXCEPT !.ptr = p, !.capacity = k]

LEMMA RedirectedFields ==
  ASSUME NEW b \in BlockSet, NEW p \in Int, NEW k \in Nat
  PROVE  /\ Redirected(b, p, k) \in BlockSet
         /\ Redirected(b, p, k).type = b.type
         /\ Redirected(b, p, k).text = b.text
         /\ Redirected(b, p, k).size = b.size
         /\ Redirected(b, p, k).slots = b.slots
         /\ Redirected(b, p, k).ptr = p
         /\ Redirected(b, p, k).capacity = k
         /\ Redirected(b, p, k).count = b.count
BY DEF BlockSet, Redirected

(* What growing leaves of a container. *)
Grown(m, m1, node) ==
  /\ HeapSound(m1)
  /\ KindsKept(m, m1)
  /\ ItemsKept(m, m1)
  /\ NoNewNodes(m, m1)
  /\ m1.heap[node].count < m1.heap[node].capacity

LEMMA GrowSound ==
  ASSUME NEW m, HeapSound(m), NEW node, ContainerAt(m, node),
         NEW elem, elem = ElemOf(m.heap[node])
  PROVE  Grown(m, Grow(m, node, elem), node)
<1> DEFINE n    == m.heap[node]
           old  == m.heap[n.ptr].slots
           size == elem * (2 * n.capacity)
           copy == [i \in 0..(n.count - 1) |-> old[i]]
           b    == [ZeroBlock(size) EXCEPT !.slots = copy]
           m1   == arena_alloc(m, size)
           m2   == [m1 EXCEPT !.heap = [m1.heap EXCEPT ![m.next] = b]]
           n1   == Redirected(n, m.next, 2 * n.capacity)
<1>1. /\ m \in MemSet /\ m.next \in Nat /\ node \in Addr(m) /\ n \in BlockSet
      /\ n.count \in Nat /\ n.capacity \in Nat /\ IsContainer(n)
  BY MemFields DEF HeapSound, ContainerAt
<1>2. FitsArray(m, n)  BY <1>1 DEF HeapSound, ArraysSound
<1>3. n.capacity \in Nat \ {0} /\ n.count <= n.capacity
  BY <1>1, <1>2 DEF FitsArray
<1>4. 2 * n.capacity \in Nat \ {0} /\ n.count < 2 * n.capacity  BY <1>1, <1>3
<1>5. size \in Nat \ {0}  BY <1>4, ElemPositive, TimesPositive
<1>6. /\ n.ptr \in Addr(m) /\ DOMAIN old = 0..(n.count - 1)
      /\ old \in SlotMaps
  BY <1>1, <1>2, MemFields DEF FitsArray, ArrayAt, BlockSet
<1>7. copy \in SlotMaps
  <2>1. PICK D \in SUBSET Nat : old \in [D -> Slot]  BY <1>6 DEF SlotMaps
  <2>2. copy \in [D -> Slot]  BY <1>6, <2>1
  <2> QED  BY <2>1, <2>2 DEF SlotMaps
<1>8. ZeroBlock(size) \in BlockSet  BY <1>5, ZeroBlockType
<1>9. /\ b \in BlockSet /\ b.size = size /\ b.type = "NULL" /\ b.text = NoText
      /\ b.slots = copy
  BY <1>7, <1>8, ZeroBlockFields DEF BlockSet
<1>10. Joins(m, b)
  <2>1. \A i \in DOMAIN old : SlotSound(m, old[i])
    BY <1>6 DEF HeapSound, SlotsSound
  <2>2. \A i \in DOMAIN b.slots : SlotSound(m, b.slots[i])
    BY <1>6, <1>9, <2>1
  <2> QED  BY <1>9, <2>2 DEF Joins, IsContainer
<1>11. Appended(m, m1, ZeroBlock(size))  BY <1>1, <1>5, AllocAppends
<1>12. Appended(m, m2, b)
  <2>1. ZeroBlock(size).size = b.size  BY <1>9, ZeroBlockFields
  <2> HIDE DEF m1, b, size
  <2> QED  BY <1>1, <1>9, <1>11, <2>1, FillAppends
<1>13. /\ HeapSound(m2) /\ BlocksKept(m, m2) /\ KindsKept(m, m2)
       /\ Addr(m2) = Addr(m) \union {m.next} /\ m2.heap[m.next] = b
       /\ m.next \notin Addr(m)
  <2> HIDE DEF m2, b
  <2> QED  BY <1>9, <1>10, <1>12, AppendSound
<1>14. /\ n1 \in BlockSet /\ n1.type = n.type /\ n1.text = n.text /\ n1.size = n.size
       /\ n1.slots = n.slots /\ n1.ptr = m.next /\ n1.capacity = 2 * n.capacity
       /\ n1.count = n.count
  BY <1>1, <1>4, RedirectedFields
<1>15. Grow(m, node, elem) = Replace(m2, node, n1)
  <2>1. m1.heap = Put(m.heap, m.next, ZeroBlock(size)) /\ m1 \in MemSet
    <3> HIDE DEF n, old, size, copy, b, m1, m2, n1
    <3> QED  BY <1>11 DEF Appended
  <2>2. /\ m.next # node /\ m.next \in DOMAIN m1.heap /\ node \in DOMAIN m1.heap
        /\ m1.heap[m.next] = ZeroBlock(size) /\ m1.heap[node] = n
    <3>1. node \in DOMAIN m.heap /\ m.next # node
      BY <1>1, <1>13 DEF Addr
    <3>2. m1.heap = Put(m.heap, m.next, ZeroBlock(size))
      BY <2>1
    <3> HIDE DEF n, old, size, copy, b, m1, m2, n1
    <3> QED  BY <3>1, <3>2, PutIs, SMTT(60) DEF n
  <2>3. Grow(m, node, elem) = Both(m1, m.next, copy, node, n1)
    BY Zenon DEF Grow, Redirected, Both
  <2>4. b = [m1.heap[m.next] EXCEPT !.slots = copy] /\ m2 = Replace(m1, m.next, b)
    BY <2>2 DEF Replace
  <2> HIDE DEF n, old, size, copy, b, m1, m2, n1
  <2>5. Both(m1, m.next, copy, node, n1) = Replace(m2, node, n1)
    BY <2>1, <2>4, BothReplaced
  <2> QED  BY <2>3, <2>5
<1>16. ContainerAt(m2, node) /\ m2.heap[node] = n
  <2> HIDE DEF m2, b
  <2> QED  BY <1>1, <1>13 DEF BlocksKept, ContainerAt
<1>18. FitsArray(m2, n1)
  <2>1. ArrayAt(m2, m.next)  BY <1>9, <1>13 DEF ArrayAt
  <2>2. ElemOf(n1) = elem  BY <1>14 DEF ElemOf
  <2>3. DOMAIN b.slots = 0..(n1.count - 1)  BY <1>9, <1>14
  <2>6. n1.type = "MAP" => Keyed(b)
    <3>1. n.type = "MAP" => \A i \in DOMAIN old : old[i].key # NULL
      BY <1>2, SMTT(40) DEF FitsArray, Keyed
    <3>2. DOMAIN b.slots = DOMAIN old /\ \A i \in DOMAIN old : b.slots[i] = old[i]
      BY <1>6, <1>9
    <3>3. n1.type = n.type  BY <1>14
    <3> HIDE DEF n, n1, b, old
    <3> QED  BY <3>1, <3>2, <3>3 DEF Keyed
  <2> HIDE DEF n1, n, m2, b
  <2>4. b.size = ElemOf(n1) * n1.capacity  BY <1>9, <1>14, <2>2
  <2>5. n1.count <= n1.capacity /\ n1.capacity # 0  BY <1>1, <1>4, <1>14
  <2>7. n1.ptr = m.next /\ m2.heap[m.next] = b  BY <1>13, <1>14
  <2> QED  BY <2>1, <2>3, <2>4, <2>5, <2>6, <2>7, Zenon DEF FitsArray
<1>19. \A c \in Addr(m2) :
         IsContainer(m2.heap[c]) /\ c # node => m2.heap[c].ptr # n1.ptr
  <2>1. \A c \in Addr(m) : IsContainer(m.heap[c]) => m.heap[c].ptr \in Addr(m)
    BY DEF HeapSound, ArraysSound, FitsArray, ArrayAt
  <2>2. ~IsContainer(b)  BY <1>9 DEF IsContainer
  <2> HIDE DEF n1, m2, b
  <2> QED  BY <1>13, <1>14, <2>1, <2>2 DEF BlocksKept
<1> HIDE DEF n1, n, m2
<1>20. HeapSound(Replace(m2, node, n1)) /\ KindsKept(m2, Replace(m2, node, n1))
  BY <1>13, <1>14, <1>16, <1>18, <1>19, RedirectSound
<1>21. Replace(m2, node, n1).heap[node] = n1
  BY <1>13, <1>14, <1>16, ReplaceValue DEF HeapSound, ContainerAt
<1>22. KindsKept(m, Replace(m2, node, n1))
  BY <1>13, <1>20 DEF KindsKept
<1>23. \A c \in Addr(m) : c # node => Replace(m2, node, n1).heap[c] = m.heap[c]
  BY <1>13, <1>14, <1>16, ReplaceValue DEF HeapSound, ContainerAt, BlocksKept
<1>24. Replace(m2, node, n1).heap[m.next] = b /\ Addr(Replace(m2, node, n1)) = Addr(m2)
  BY <1>1, <1>13, <1>14, <1>16, ReplaceValue DEF HeapSound, ContainerAt
<1>25. ItemsKept(m, Replace(m2, node, n1))
  <2> DEFINE m3 == Replace(m2, node, n1)
  <2> SUFFICES ASSUME NEW c, ContainerAt(m, c) PROVE SameItems(m, m3, c)
    BY DEF ItemsKept
  <2>1. CASE c = node
    <3>1. m3.heap[m.next].slots = copy  BY <1>9, <1>24
    <3>2. m3.heap[node].count = n.count /\ m3.heap[node].ptr = m.next
      BY <1>14, <1>21
    <3> HIDE DEF m3, copy
    <3>3. ItemsOf(m3, node) = [i \in 1..n.count |-> copy[i - 1]]
      BY <3>1, <3>2 DEF ItemsOf
    <3>4. \A i \in 1..n.count : copy[i - 1] = old[i - 1]
      BY <1>1 DEF copy, n
    <3>5. ItemsOf(m, node) = [i \in 1..n.count |-> old[i - 1]]
      BY DEF ItemsOf, n
    <3> QED  BY <2>1, <3>2, <3>3, <3>4, <3>5 DEF SameItems, n
  <2>2. CASE c # node
    <3>1. c \in Addr(m) /\ m.heap[c].ptr \in Addr(m) /\ m.heap[c].ptr # node
      BY <1>1
      DEF HeapSound, ArraysSound, FitsArray, ArrayAt, ContainerAt, IsContainer, n
    <3> HIDE DEF m3
    <3>2. m3.heap[c] = m.heap[c] /\ m3.heap[m.heap[c].ptr] = m.heap[m.heap[c].ptr]
      BY <1>23, <2>2, <3>1 DEF m3
    <3> QED  BY <3>2 DEF SameItems, ItemsOf
  <2> QED  BY <2>1, <2>2
<1>26. NoNewNodes(m, Replace(m2, node, n1))
  <2> DEFINE m3 == Replace(m2, node, n1)
  <2>1. Addr(m3) = Addr(m) \union {m.next} /\ m3.heap[m.next].type = "NULL"
    BY <1>9, <1>13, <1>24
  <2>2. KindsKept(m, m3)  BY <1>22
  <2> HIDE DEF m3
  <2>3. NoNewNodes(m, m3)
    BY <2>1, <2>2 DEF NoNewNodes, NodeAt, NodeTypes, KindsKept
  <2> QED  BY <2>3 DEF m3
<1> QED
  BY <1>1, <1>4, <1>14, <1>15, <1>20, <1>21, <1>22, <1>25, <1>26 DEF Grown, n

WithSlot(b, i, slot) == [b EXCEPT !.slots = Put(b.slots, i, slot)]

WithCount(b, k) == [b EXCEPT !.count = k]

LEMMA WithSlotFields ==
  ASSUME NEW b \in BlockSet, NEW i \in Nat, NEW slot \in Slot
  PROVE  /\ WithSlot(b, i, slot) \in BlockSet
         /\ WithSlot(b, i, slot).type = b.type
         /\ WithSlot(b, i, slot).text = b.text
         /\ WithSlot(b, i, slot).size = b.size
         /\ WithSlot(b, i, slot).ptr = b.ptr
         /\ WithSlot(b, i, slot).capacity = b.capacity
         /\ WithSlot(b, i, slot).count = b.count
         /\ WithSlot(b, i, slot).slots = Put(b.slots, i, slot)
<1>1. b.slots \in SlotMaps  BY DEF BlockSet
<1>2. Put(b.slots, i, slot) \in SlotMaps  BY <1>1, PutSlot
<1> QED  BY <1>2 DEF BlockSet, WithSlot

LEMMA WithCountFields ==
  ASSUME NEW b \in BlockSet, NEW k \in Nat
  PROVE  /\ WithCount(b, k) \in BlockSet
         /\ WithCount(b, k).type = b.type
         /\ WithCount(b, k).text = b.text
         /\ WithCount(b, k).size = b.size
         /\ WithCount(b, k).ptr = b.ptr
         /\ WithCount(b, k).capacity = b.capacity
         /\ WithCount(b, k).count = k
         /\ WithCount(b, k).slots = b.slots
BY DEF BlockSet, WithCount

LEMMA StoreSound ==
  ASSUME NEW m, HeapSound(m), NEW node, ContainerAt(m, node),
         m.heap[node].count < m.heap[node].capacity,
         NEW slot \in Slot, SlotSound(m, slot),
         m.heap[node].type = "MAP" => slot.key # NULL
  PROVE  /\ HeapSound(StoreSlot(m, node, slot))
         /\ KindsKept(m, StoreSlot(m, node, slot))
         /\ NoNewNodes(m, StoreSlot(m, node, slot))
         /\ ItemAdded(m, StoreSlot(m, node, slot), node, slot.value)
         /\ LastUnder(StoreSlot(m, node, slot), node, KeyText(m, slot))
<1> DEFINE n   == m.heap[node]
           p   == n.ptr
           arr == m.heap[p]
           a1  == WithSlot(arr, n.count, slot)
           n1  == WithCount(n, n.count + 1)
           mid == Replace(m, p, a1)
           m1  == Replace(mid, node, n1)
<1>1. /\ m \in MemSet /\ node \in Addr(m) /\ n \in BlockSet
      /\ n.count \in Nat /\ n.capacity \in Nat /\ IsContainer(n)
  BY MemFields DEF HeapSound, ContainerAt
<1>2. FitsArray(m, n)  BY <1>1 DEF HeapSound, ArraysSound
<1>3. /\ p \in Addr(m) /\ arr \in BlockSet /\ p # node
      /\ arr.type = "NULL"
  BY <1>1, <1>2, MemFields DEF FitsArray, ArrayAt, IsContainer
<1>4. /\ a1 \in BlockSet /\ a1.type = arr.type /\ a1.text = arr.text
      /\ a1.size = arr.size /\ a1.ptr = arr.ptr /\ a1.capacity = arr.capacity
      /\ a1.count = arr.count /\ a1.slots = Put(arr.slots, n.count, slot)
  BY <1>1, <1>3, WithSlotFields
<1>5. /\ n1 \in BlockSet /\ n1.type = n.type /\ n1.text = n.text
      /\ n1.size = n.size /\ n1.ptr = p /\ n1.capacity = n.capacity
      /\ n1.count = n.count + 1 /\ n1.slots = n.slots
  <2>1. n.count + 1 \in Nat  BY <1>1
  <2> HIDE DEF n
  <2> QED  BY <1>1, <2>1, WithCountFields
<1>6. StoreSlot(m, node, slot) = m1
  <2>1. /\ m = [next |-> m.next, heap |-> m.heap, oom |-> m.oom]
        /\ m.heap = [j \in DOMAIN m.heap |-> m.heap[j]]
    BY <1>1 DEF MemSet, HeapMaps
  <2>2. node \in DOMAIN m.heap /\ p \in DOMAIN m.heap  BY <1>1, <1>3 DEF Addr
  <2>3. StoreSlot(m, node, slot) =
          [m EXCEPT !.heap[p].slots = Put(@, n.count, slot),
                    !.heap[node].count = @ + 1]
    BY DEF StoreSlot
  <2>4. n = m.heap[node] /\ arr = m.heap[p]  OBVIOUS
  <2> HIDE DEF p, n, arr
  <2>5. [m EXCEPT !.heap[p].slots = Put(@, n.count, slot),
                  !.heap[node].count = @ + 1] =
        [mid EXCEPT !.heap = [mid.heap EXCEPT ![node] = n1]]
    BY <1>3, <2>1, <2>2, <2>4 DEF Replace, WithSlot, WithCount
  <2> QED  BY <2>3, <2>5 DEF Replace
<1> HIDE DEF a1, n1
<1>7. /\ mid \in MemSet /\ mid.next = m.next /\ mid.oom = m.oom
      /\ Addr(mid) = Addr(m) /\ mid.heap[p] = a1
      /\ \A c \in Addr(m) : c # p => mid.heap[c] = m.heap[c]
  BY <1>1, <1>3, <1>4, ReplaceValue
<1> HIDE DEF mid
<1>8. /\ m1 \in MemSet /\ m1.next = m.next /\ m1.oom = m.oom
      /\ Addr(m1) = Addr(m) /\ m1.heap[p] = a1 /\ m1.heap[node] = n1
      /\ \A c \in Addr(m) : c # p /\ c # node => m1.heap[c] = m.heap[c]
  <2>1. node \in Addr(mid)  BY <1>1, <1>7
  <2>2. /\ m1 \in MemSet /\ m1.next = mid.next /\ m1.oom = mid.oom
        /\ Addr(m1) = Addr(mid) /\ m1.heap[node] = n1
        /\ \A c \in Addr(mid) : c # node => m1.heap[c] = mid.heap[c]
    BY <1>5, <1>7, <2>1, ReplaceValue
  <2> HIDE DEF m1, p
  <2> QED  BY <1>3, <1>7, <2>2
<1> HIDE DEF m1
<1>9. \A c \in Addr(m) :
        /\ m1.heap[c].type = m.heap[c].type /\ m1.heap[c].text = m.heap[c].text
        /\ m1.heap[c].size = m.heap[c].size /\ m1.heap[c].ptr = m.heap[c].ptr
        /\ m1.heap[c].capacity = m.heap[c].capacity
        /\ c # p => m1.heap[c].slots = m.heap[c].slots
        /\ c # node => m1.heap[c].count = m.heap[c].count
  BY <1>4, <1>5, <1>8
<1>10. KindsKept(m, m1)  BY <1>8, <1>9 DEF KindsKept
<1>11. Apart(m1)  BY <1>8, <1>9 DEF HeapSound, Apart
<1>12. InArena(m1)  BY <1>8 DEF HeapSound, InArena
<1>13. ArraysSound(m1)
  <2>1. SUFFICES ASSUME NEW c \in Addr(m), IsContainer(m.heap[c])
                 PROVE  FitsArray(m1, m1.heap[c])
    BY <1>8, <1>9 DEF ArraysSound, IsContainer
  <2>2. FitsArray(m, m.heap[c])  BY <2>1 DEF HeapSound, ArraysSound
  <2>3. ArrayAt(m1, m1.heap[c].ptr)
    BY <1>8, <1>9, <2>2 DEF FitsArray, ArrayAt
  <2>4. ElemOf(m1.heap[c]) = ElemOf(m.heap[c])  BY <1>9 DEF ElemOf
  <2>5. /\ m1.heap[c].capacity # 0
        /\ m1.heap[m1.heap[c].ptr].size = ElemOf(m1.heap[c]) * m1.heap[c].capacity
    BY <1>9, <2>2, <2>4 DEF FitsArray, ArrayAt
  <2>6. CASE c = node
    <3>1. DOMAIN a1.slots = 0..n.count
      BY <1>1, <1>2, <1>4 DEF FitsArray, Put
    <3>2. DOMAIN m1.heap[m1.heap[c].ptr].slots = 0..(m1.heap[c].count - 1)
      BY <1>1, <1>5, <1>8, <2>6, <3>1
    <3>3. m1.heap[c].count <= m1.heap[c].capacity
      BY <1>1, <1>5, <1>8, <2>6
    <3>4. m1.heap[c].type = "MAP" => Keyed(a1)
      <4>1. n.type = "MAP" => Keyed(arr) /\ slot.key # NULL  BY <1>2 DEF FitsArray
      <4> HIDE DEF arr, n
      <4>2. n.type = "MAP" => Keyed(a1)  BY <1>4, <4>1 DEF Keyed, Put
      <4> QED  BY <1>9, <2>1, <2>6, <4>2 DEF n
    <3>5. m1.heap[m1.heap[c].ptr] = a1  BY <1>5, <1>8, <2>6
    <3> QED  BY <2>3, <2>5, <3>2, <3>3, <3>4, <3>5, SMTT(40) DEF FitsArray
  <2>7. CASE c # node
    <3>1. m.heap[c].ptr # p
      BY <1>1, <2>1, <2>7 DEF HeapSound, ArraysOwned
    <3>2. m1.heap[m1.heap[c].ptr].slots = m.heap[m.heap[c].ptr].slots
      BY <1>9, <2>2, <3>1 DEF FitsArray, ArrayAt
    <3>3. m1.heap[c].type = "MAP" => Keyed(m1.heap[m1.heap[c].ptr])
      BY <1>9, <2>1, <2>2, <3>2 DEF FitsArray, Keyed
    <3> QED  BY <1>9, <2>2, <2>3, <2>5, <2>7, <3>2, <3>3 DEF FitsArray
  <2> QED  BY <2>6, <2>7
<1>14. ArraysOwned(m1)  BY <1>8, <1>9 DEF HeapSound, ArraysOwned, IsContainer
<1>15. StringsSound(m1)
  BY <1>8, <1>9, <1>10, KindsKeptAt DEF HeapSound, StringsSound
<1>16. SlotsSound(m1)
  <2>1. \A i \in DOMAIN a1.slots : SlotSound(m, a1.slots[i])
    BY <1>3, <1>4 DEF HeapSound, SlotsSound, Put
  <2>2. \A c \in Addr(m) : \A i \in DOMAIN m1.heap[c].slots :
          SlotSound(m, m1.heap[c].slots[i])
    BY <1>8, <1>9, <2>1 DEF HeapSound, SlotsSound
  <2> QED  BY <1>8, <1>10, <2>2, KindsKeptSlot, SMTT(40) DEF SlotsSound
<1>17. HeapSound(m1)
  BY <1>8, <1>11, <1>12, <1>13, <1>14, <1>15, <1>16 DEF HeapSound
<1>18. NoNewNodes(m, m1)  BY <1>8, <1>9 DEF NoNewNodes, NodeAt
<1>19. ItemAdded(m, m1, node, slot.value) /\ LastUnder(m1, node, KeyText(m, slot))
  <2>1. ASSUME NEW c, ContainerAt(m, c), c # node
        PROVE  SameItems(m, m1, c)
    <3>1. c \in Addr(m) /\ m.heap[c].ptr \in Addr(m) /\ m.heap[c].ptr # p
      BY <1>1, <2>1
      DEF HeapSound, ArraysSound, ArraysOwned, FitsArray, ArrayAt, ContainerAt
    <3>2. /\ m1.heap[c].count = m.heap[c].count /\ m1.heap[c].ptr = m.heap[c].ptr
          /\ m1.heap[m.heap[c].ptr].slots = m.heap[m.heap[c].ptr].slots
      BY <1>9, <2>1, <3>1
    <3> QED  BY <3>2 DEF SameItems, ItemsOf
  <2>2. /\ m1.heap[node].count = n.count + 1
        /\ ItemsOf(m1, node) = [i \in 1..(n.count + 1) |-> a1.slots[i - 1]]
    BY <1>5, <1>8 DEF ItemsOf
  <2>3. ItemsOf(m, node) = [i \in 1..n.count |-> arr.slots[i - 1]]
    BY DEF ItemsOf
  <2>4. DOMAIN arr.slots = 0..(n.count - 1)  BY <1>2 DEF FitsArray
  <2>5. a1.slots = Put(arr.slots, n.count, slot)  BY <1>4
  <2> HIDE DEF n, arr, p
  <2>6. /\ a1.slots[n.count] = slot
        /\ \A i \in 0..(n.count - 1) : a1.slots[i] = arr.slots[i]
    BY <1>1, <2>4, <2>5 DEF Put
  <2>7. \A i \in 1..n.count : ItemsOf(m1, node)[i] = ItemsOf(m, node)[i]
    BY <1>1, <2>2, <2>3, <2>6
  <2>8. ItemsOf(m1, node)[n.count + 1] = slot  BY <1>1, <2>2, <2>6
  <2>9. KeyText(m1, slot) = KeyText(m, slot)
    BY <1>10 DEF KeyText, SlotSound, StringAt, KindsKept
  <2>10. LastUnder(m1, node, KeyText(m, slot))  BY <2>2, <2>8, <2>9 DEF LastUnder
  <2> QED  BY <2>1, <2>2, <2>7, <2>8, <2>10 DEF ItemAdded, OneMore, n
<1> QED  BY <1>6, <1>10, <1>17, <1>18, <1>19

LEMMA KindsKeptTwice ==
  ASSUME NEW m, NEW m1, NEW m2, KindsKept(m, m1), KindsKept(m1, m2)
  PROVE  KindsKept(m, m2)
BY DEF KindsKept

LEMMA MakeRoomSound ==
  ASSUME NEW m, HeapSound(m), NEW node, ContainerAt(m, node),
         NEW elem, elem = ElemOf(m.heap[node])
  PROVE  Grown(m, MakeRoom(m, node, elem), node)
<1>1. CASE Full(m, node)  BY <1>1, GrowSound DEF MakeRoom
<1>2. CASE ~Full(m, node)
  <2>1. MakeRoom(m, node, elem) = m  BY <1>2 DEF MakeRoom
  <2>2. m.heap[node].count \in Nat /\ m.heap[node].capacity \in Nat
    BY MemFields DEF HeapSound, ContainerAt
  <2>3. m.heap[node].count < m.heap[node].capacity  BY <1>2, <2>2 DEF Full
  <2>4. KindsKept(m, m) /\ ItemsKept(m, m) /\ NoNewNodes(m, m)
    BY DEF KindsKept, ItemsKept, SameItems, NoNewNodes
  <2> QED  BY <2>1, <2>3, <2>4 DEF Grown
<1> QED  BY <1>1, <1>2

LEMMA ItemsKeptTwice ==
  ASSUME NEW m, NEW m1, NEW m2, KindsKept(m, m1), ItemsKept(m, m1), ItemsKept(m1, m2)
  PROVE  ItemsKept(m, m2)
BY KindsKeptAt DEF ItemsKept, SameItems

LEMMA ItemAddedAfter ==
  ASSUME NEW m, NEW m1, NEW m2, KindsKept(m, m1), ItemsKept(m, m1),
         NEW node, ContainerAt(m, node), NEW value, ItemAdded(m1, m2, node, value)
  PROVE  ItemAdded(m, m2, node, value)
<1>1. \A a : ContainerAt(m, a) /\ a # node => SameItems(m, m2, a)
  BY KindsKeptAt DEF ItemsKept, ItemAdded, SameItems
<1>2. OneMore(m, m2, node)  BY DEF ItemsKept, ItemAdded, SameItems, OneMore
<1> QED  BY <1>1, <1>2 DEF ItemAdded

(* sequence_add keeps the memory sound, whether or not the array has to grow. *)
LEMMA SequenceAddSound ==
  ASSUME NEW m, HeapSound(m), NEW seq, seq \in Addr(m), m.heap[seq].type = "SEQUENCE",
         NEW value, NodeAt(m, value)
  PROVE  /\ HeapSound(sequence_add(m, seq, value))
         /\ KindsKept(m, sequence_add(m, seq, value))
         /\ NoNewNodes(m, sequence_add(m, seq, value))
         /\ ItemAdded(m, sequence_add(m, seq, value), seq, value)
         /\ LastUnder(sequence_add(m, seq, value), seq, NoText)
<1> DEFINE m1   == MakeRoom(m, seq, SizeofPtr)
           slot == [key |-> NULL, value |-> value]
<1>1. ContainerAt(m, seq) /\ SizeofPtr = ElemOf(m.heap[seq])
  BY DEF ContainerAt, IsContainer, ElemOf
<1>2. Grown(m, m1, seq)  BY <1>1, MakeRoomSound
<1> HIDE DEF m1
<1>3. ContainerAt(m1, seq) /\ NodeAt(m1, value)
  BY <1>1, <1>2, KindsKeptAt DEF Grown
<1>4. slot \in Slot
  <2>1. value \in Nat  BY MemFields DEF HeapSound, NodeAt
  <2> QED  BY <2>1 DEF Slot, NULL
<1>5. SlotSound(m1, slot)  BY <1>3 DEF SlotSound
<1>6. sequence_add(m, seq, value) = StoreSlot(m1, seq, slot)
  BY DEF sequence_add, m1
<1>7. /\ slot.value = value /\ KeyText(m1, slot) = NoText
      /\ m1.heap[seq].type # "MAP"
  BY <1>2 DEF Grown, KindsKept, KeyText
<1> HIDE DEF slot
<1>8. /\ HeapSound(StoreSlot(m1, seq, slot)) /\ KindsKept(m1, StoreSlot(m1, seq, slot))
      /\ NoNewNodes(m1, StoreSlot(m1, seq, slot))
      /\ ItemAdded(m1, StoreSlot(m1, seq, slot), seq, value)
      /\ LastUnder(StoreSlot(m1, seq, slot), seq, NoText)
  BY <1>2, <1>3, <1>4, <1>5, <1>7, StoreSound DEF Grown
<1>9. KindsKept(m, m1) /\ ItemsKept(m, m1) /\ NoNewNodes(m, m1)  BY <1>2 DEF Grown
<1>10. ItemAdded(m, StoreSlot(m1, seq, slot), seq, value)
  BY <1>1, <1>8, <1>9, ItemAddedAfter
<1>11. NoNewNodes(m, StoreSlot(m1, seq, slot))  BY <1>8, <1>9 DEF NoNewNodes
<1> QED  BY <1>6, <1>8, <1>9, <1>10, <1>11, KindsKeptTwice

(* map_add keeps the memory sound, whether or not the array has to grow. *)
LEMMA MapAddSound ==
  ASSUME NEW m, HeapSound(m), NEW map, map \in Addr(m), m.heap[map].type = "MAP",
         NEW key, StringAt(m, key), NEW value, NodeAt(m, value)
  PROVE  /\ HeapSound(map_add(m, map, key, value))
         /\ KindsKept(m, map_add(m, map, key, value))
         /\ NoNewNodes(m, map_add(m, map, key, value))
         /\ ItemAdded(m, map_add(m, map, key, value), map, value)
         /\ LastUnder(map_add(m, map, key, value), map, m.heap[key].text)
<1> DEFINE text == m.heap[key].text
           m1   == MakeRoom(m, map, SizeofEntry)
           m2   == arena_strdup(m1, text)
           slot == [key |-> m1.next, value |-> value]
<1>1. ContainerAt(m, map) /\ SizeofEntry = ElemOf(m.heap[map])
  BY DEF ContainerAt, IsContainer, ElemOf
<1>2. Grown(m, m1, map)  BY <1>1, MakeRoomSound
<1>3. text \in Texts  BY DEF StringAt
<1> HIDE DEF m1, text
<1>4. ContainerAt(m1, map) /\ NodeAt(m1, value)
  BY <1>1, <1>2, KindsKeptAt DEF Grown
<1>5. /\ HeapSound(m2) /\ BlocksKept(m1, m2) /\ KindsKept(m1, m2)
      /\ StringAt(m2, m1.next) /\ NoNewNodes(m1, m2)
      /\ m2.heap[m1.next].text = text
  BY <1>2, <1>3, StrdupSound DEF Grown
<1>6. map_add(m, map, key, value) = StoreSlot(m2, map, slot)
  BY DEF map_add, m1, text
<1> HIDE DEF m2
<1>7. ContainerAt(m2, map) /\ NodeAt(m2, value)  BY <1>4, <1>5, KindsKeptAt
<1>8. m2.heap[map] = m1.heap[map]  BY <1>4, <1>5 DEF BlocksKept, ContainerAt
<1>9. slot \in Slot /\ SlotSound(m2, slot)
  <2>1. value \in Nat  BY MemFields DEF HeapSound, NodeAt
  <2>2. m1.next \in Nat  BY <1>2, MemFields DEF Grown, HeapSound
  <2> QED  BY <1>5, <1>7, <2>1, <2>2 DEF Slot, SlotSound
<1>10. slot.value = value /\ slot.key # NULL /\ KeyText(m2, slot) = text
  <2>1. m1.next \in Nat  BY <1>2, MemFields DEF Grown, HeapSound
  <2> QED  BY <1>5, <2>1 DEF NULL, KeyText
<1> HIDE DEF slot
<1>11. /\ HeapSound(StoreSlot(m2, map, slot)) /\ KindsKept(m2, StoreSlot(m2, map, slot))
       /\ NoNewNodes(m2, StoreSlot(m2, map, slot))
       /\ ItemAdded(m2, StoreSlot(m2, map, slot), map, value)
       /\ LastUnder(StoreSlot(m2, map, slot), map, text)
  BY <1>2, <1>5, <1>7, <1>8, <1>9, <1>10, StoreSound DEF Grown
<1>12. KindsKept(m, m1) /\ ItemsKept(m, m1) /\ NoNewNodes(m, m1)  BY <1>2 DEF Grown
<1>13. ItemsKept(m1, m2)  BY <1>2, <1>5, BlocksKeptItems DEF Grown
<1>14. KindsKept(m, m2) /\ ItemsKept(m, m2)
  BY <1>5, <1>12, <1>13, KindsKeptTwice, ItemsKeptTwice
<1>15. ItemAdded(m, StoreSlot(m2, map, slot), map, value)
  BY <1>1, <1>11, <1>14, ItemAddedAfter
<1>16. NoNewNodes(m, StoreSlot(m2, map, slot))
  BY <1>5, <1>11, <1>12 DEF NoNewNodes
<1> QED  BY <1>6, <1>11, <1>14, <1>15, <1>16, KindsKeptTwice DEF text

LEMMA EmptyMemSound ==
  HeapSound(EmptyMem) /\ EmptyMem.oom = FALSE /\ Addr(EmptyMem) = {}
<1>1. EmptyMem.heap \in [{} -> BlockSet]  BY DEF EmptyMem
<1>2. EmptyMem.heap \in HeapMaps  BY <1>1 DEF HeapMaps
<1>3. EmptyMem \in MemSet  BY <1>2 DEF EmptyMem, MemSet
<1>4. EmptyMem.next = 0 /\ EmptyMem.oom = FALSE /\ Addr(EmptyMem) = {}
  BY DEF EmptyMem, Addr
<1>5. InArena(EmptyMem)  BY <1>4, HeapAssumption DEF InArena
<1> QED
  BY <1>3, <1>4, <1>5 DEF HeapSound, Apart, ArraysSound, ArraysOwned, StringsSound, SlotsSound

-------------------------------------------------------------------------------
(* The nodes as a table: what each operation does to it. *)

Node(type, text) == [type |-> type, text |-> text, items |-> <<>>]

LEMMA ItemSound ==
  ASSUME NEW m, HeapSound(m), NEW a, ContainerAt(m, a), NEW i \in 1..m.heap[a].count
  PROVE  SlotSound(m, ItemsOf(m, a)[i])
<1> DEFINE p == m.heap[a].ptr
<1>1. /\ p \in Addr(m) /\ DOMAIN m.heap[p].slots = 0..(m.heap[a].count - 1)
      /\ m.heap[a].count \in Nat
  BY MemFields DEF HeapSound, ArraysSound, FitsArray, ArrayAt, ContainerAt
<1>2. i - 1 \in DOMAIN m.heap[p].slots  BY <1>1
<1>3. ItemsOf(m, a)[i] = m.heap[p].slots[i - 1]  BY DEF ItemsOf
<1> QED  BY <1>1, <1>2, <1>3 DEF HeapSound, SlotsSound

LEMMA TextKept ==
  ASSUME NEW m, HeapSound(m), NEW m1, KindsKept(m, m1), NEW a, NodeAt(m, a)
  PROVE  m1.heap[a].type = m.heap[a].type /\ TextOf(m1, a) = TextOf(m, a)
<1>1. a \in Addr(m) /\ m1.heap[a].type = m.heap[a].type /\ m1.heap[a].text = m.heap[a].text
  BY DEF NodeAt, KindsKept
<1>2. CASE m.heap[a].type = "STRING"
  <2>1. m.heap[a].ptr \in Addr(m)  BY <1>1, <1>2 DEF HeapSound, StringsSound, StringAt
  <2>2. m1.heap[a].ptr = m.heap[a].ptr  BY <1>1, <1>2 DEF KindsKept
  <2> QED  BY <1>1, <1>2, <2>1, <2>2 DEF TextOf, KindsKept
<1>3. CASE m.heap[a].type # "STRING"  BY <1>1, <1>3 DEF TextOf
<1> QED  BY <1>1, <1>2, <1>3

LEMMA ItemKept ==
  ASSUME NEW m, NEW m1, KindsKept(m, m1), NEW slot, SlotSound(m, slot)
  PROVE  ItemOf(m1, slot) = ItemOf(m, slot)
BY DEF ItemOf, KeyText, SlotSound, StringAt, KindsKept

(* A node that holds what it held is what it was. *)
LEMMA NodeKept ==
  ASSUME NEW m, HeapSound(m), NEW m1, KindsKept(m, m1), NEW a, NodeAt(m, a),
         ContainerAt(m, a) => SameItems(m, m1, a)
  PROVE  NodeOf(m1, a) = NodeOf(m, a)
<1>1. m1.heap[a].type = m.heap[a].type /\ TextOf(m1, a) = TextOf(m, a)  BY TextKept
<1>2. CASE ContainerAt(m, a)
  <2> DEFINE n == m.heap[a].count
  <2>1. m1.heap[a].count = n /\ ItemsOf(m1, a) = ItemsOf(m, a)
    BY <1>2 DEF SameItems
  <2>2. \A i \in 1..n : SlotSound(m, ItemsOf(m, a)[i])  BY <1>2, ItemSound
  <2>3. \A i \in 1..n : ItemOf(m1, ItemsOf(m1, a)[i]) = ItemOf(m, ItemsOf(m, a)[i])
    BY <2>1, <2>2, ItemKept
  <2> HIDE DEF n
  <2>4. [i \in 1..n |-> ItemOf(m1, ItemsOf(m1, a)[i])] =
        [i \in 1..n |-> ItemOf(m, ItemsOf(m, a)[i])]
    BY <2>3
  <2> QED  BY <1>1, <1>2, <2>1, <2>4 DEF NodeOf, ContainerAt, IsContainer, n
<1>3. CASE ~ContainerAt(m, a)
  BY <1>1, <1>3 DEF NodeOf, ContainerAt, NodeAt, IsContainer
<1> QED  BY <1>2, <1>3

(* A container that is given an item is what it was with the item behind. *)
LEMMA NodeLonger ==
  ASSUME NEW m, HeapSound(m), NEW m1, KindsKept(m, m1), NEW node, ContainerAt(m, node),
         NEW value, ItemAdded(m, m1, node, value), NEW text, LastUnder(m1, node, text)
  PROVE  NodeOf(m1, node) =
           [NodeOf(m, node) EXCEPT !.items = Append(@, [key |-> text, value |-> value])]
<1> DEFINE n == m.heap[node].count
           x == [key |-> text, value |-> value]
           s == [i \in 1..n |-> ItemOf(m, ItemsOf(m, node)[i])]
           t == [i \in 1..(n + 1) |-> ItemOf(m1, ItemsOf(m1, node)[i])]
           S == {s[i] : i \in 1..n} \union {x}
<1>1. n \in Nat /\ NodeAt(m, node) /\ IsContainer(m.heap[node])
  BY MemFields DEF HeapSound, ContainerAt, NodeAt, NodeTypes, IsContainer
<1>2. m1.heap[node].type = m.heap[node].type /\ TextOf(m1, node) = TextOf(m, node)
  BY <1>1, TextKept
<1>3. /\ m1.heap[node].count = n + 1
      /\ \A i \in 1..n : ItemsOf(m1, node)[i] = ItemsOf(m, node)[i]
      /\ ItemsOf(m1, node)[n + 1].value = value
  BY DEF ItemAdded, OneMore
<1>4. NodeOf(m, node) = [type |-> m.heap[node].type, text |-> TextOf(m, node), items |-> s]
  BY <1>1 DEF NodeOf
<1>5. NodeOf(m1, node) = [type |-> m.heap[node].type, text |-> TextOf(m, node), items |-> t]
  BY <1>1, <1>2, <1>3 DEF NodeOf, IsContainer
<1>6. \A i \in 1..n : t[i] = s[i]
  <2> SUFFICES ASSUME NEW i \in 1..n PROVE t[i] = s[i]  OBVIOUS
  <2>1. i \in 1..(n + 1)  BY <1>1
  <2>2. SlotSound(m, ItemsOf(m, node)[i])  BY ItemSound
  <2>3. ItemOf(m1, ItemsOf(m1, node)[i]) = ItemOf(m, ItemsOf(m, node)[i])
    BY <1>3, <2>2, ItemKept
  <2> QED  BY <2>1, <2>3
<1>7. t[n + 1] = x
  <2>1. n + 1 \in 1..(n + 1)  BY <1>1
  <2>2. KeyText(m1, ItemsOf(m1, node)[n + 1]) = text  BY <1>3 DEF LastUnder
  <2> HIDE DEF n
  <2> QED  BY <1>3, <2>1, <2>2 DEF ItemOf
<1>8. DOMAIN s = 1..n /\ DOMAIN t = 1..(n + 1) /\ t = [i \in 1..(n + 1) |-> t[i]]
      /\ s \in [1..n -> S]
  OBVIOUS
<1>9. x \in S  OBVIOUS
<1> HIDE DEF n, s, t, S, x
<1>10. s \in Seq(S) /\ Len(s) = n  BY <1>1, <1>8
<1> DEFINE u == Append(s, x)
<1>11. /\ u \in Seq(S) /\ Len(u) = n + 1
       /\ \A i \in 1..n : u[i] = s[i]
       /\ u[n + 1] = x
  BY <1>9, <1>10, AppendProperties
<1> HIDE DEF u
<1>12. DOMAIN u = 1..(n + 1) /\ u = [i \in 1..(n + 1) |-> u[i]]
  BY <1>1, <1>11
<1>13. \A i \in 1..(n + 1) : i \in 1..n \/ i = n + 1  BY <1>1
<1>14. \A i \in 1..(n + 1) : t[i] = u[i]
  BY <1>6, <1>7, <1>11, <1>13
<1>15. t = u  BY <1>8, <1>12, <1>14
<1>16. NodeOf(m, node).items = s  BY <1>4
<1>17. [NodeOf(m, node) EXCEPT !.items = u] =
         [type |-> m.heap[node].type, text |-> TextOf(m, node), items |-> u]
  BY ONLY <1>4
<1>18. [NodeOf(m, node) EXCEPT !.items = u] = NodeOf(m1, node)
  BY <1>5, <1>15, <1>17
<1> QED  BY <1>16, <1>18 DEF u, x

LEMMA NodeNew ==
  ASSUME NEW m, NEW m1, NEW type \in NodeTypes, NodeMade(m, m1, type),
         NEW text, TextOf(m1, m.next) = text
  PROVE  NodeOf(m1, m.next) = Node(type, text)
<1>1. m1.heap[m.next].type = type  BY DEF NodeMade
<1>2. CASE IsContainer(m1.heap[m.next])
  <2>1. m1.heap[m.next].count = 0  BY <1>2 DEF NodeMade
  <2>2. [i \in 1..m1.heap[m.next].count |-> ItemOf(m1, ItemsOf(m1, m.next)[i])] = <<>>
    BY <2>1
  <2> QED  BY <1>1, <1>2, <2>2 DEF NodeOf, Node
<1>3. CASE ~IsContainer(m1.heap[m.next])  BY <1>1, <1>3 DEF NodeOf, Node
<1> QED  BY <1>2, <1>3

LEMMA TableAt ==
  ASSUME NEW m
  PROVE  /\ \A a : a \in DOMAIN NodesOf(m) <=> NodeAt(m, a)
         /\ \A a : NodeAt(m, a) => NodesOf(m)[a] = NodeOf(m, a)
BY DEF NodesOf, NodeAt, Addr

LEMMA TableIs ==
  ASSUME NEW m, NEW f, f = [a \in DOMAIN f |-> f[a]],
         \A a : a \in DOMAIN f <=> NodeAt(m, a),
         \A a : NodeAt(m, a) => f[a] = NodeOf(m, a)
  PROVE  NodesOf(m) = f
<1>1. NodesOf(m) = [a \in DOMAIN NodesOf(m) |-> NodesOf(m)[a]]  BY DEF NodesOf
<1>2. DOMAIN NodesOf(m) = DOMAIN f  BY TableAt
<1>3. \A a \in DOMAIN f : NodesOf(m)[a] = f[a]  BY TableAt
<1> QED  BY <1>1, <1>2, <1>3

LEMMA TableKept ==
  ASSUME NEW m, HeapSound(m), NEW m1,
         KindsKept(m, m1), ItemsKept(m, m1), NoNewNodes(m, m1)
  PROVE  NodesOf(m1) = NodesOf(m)
<1> DEFINE f == NodesOf(m)
<1>1. f = [a \in DOMAIN f |-> f[a]]  BY DEF NodesOf
<1>2. \A a : NodeAt(m1, a) <=> NodeAt(m, a)  BY KindsKeptAt DEF NoNewNodes
<1>3. \A a : NodeAt(m, a) => NodeOf(m1, a) = NodeOf(m, a)
  BY NodeKept DEF ItemsKept
<1>4. \A a : NodeAt(m, a) => f[a] = NodeOf(m, a)  BY TableAt
<1>5. \A a : a \in DOMAIN f <=> NodeAt(m, a)  BY TableAt
<1> HIDE DEF f
<1>6. NodesOf(m1) = f  BY <1>1, <1>2, <1>3, <1>4, <1>5, TableIs
<1> QED  BY <1>6 DEF f

(* The table with a node more, which container node, if it is there, holds *)
(* under key.                                                              *)
Extended(m, new, id, node, key) ==
  [a \in DOMAIN NodesOf(m) \union {id} |->
    IF a = id THEN new
    ELSE IF a = node
    THEN [NodesOf(m)[a] EXCEPT !.items = Append(@, [key |-> key, value |-> id])]
    ELSE NodesOf(m)[a]]

LEMMA TableExtended ==
  ASSUME NEW m, HeapSound(m), NEW type \in NodeTypes, NEW m1, NodeMade(m, m1, type),
         NEW text, TextOf(m1, m.next) = text, NEW node, ContainerAt(m, node), NEW key,
         NEW m2, KindsKept(m1, m2), NoNewNodes(m1, m2),
         ItemAdded(m1, m2, node, m.next), LastUnder(m2, node, key)
  PROVE  NodesOf(m2) = Extended(m, Node(type, text), m.next, node, key)
<1> DEFINE f == Extended(m, Node(type, text), m.next, node, key)
<1>1. /\ HeapSound(m1) /\ BlocksKept(m, m1) /\ KindsKept(m, m1) /\ ItemsKept(m, m1)
      /\ m.next \notin Addr(m) /\ NodeAt(m1, m.next)
  BY BlocksKeptItems DEF NodeMade, NodeAt
<1>2. KindsKept(m, m2) /\ ItemAdded(m, m2, node, m.next)
  BY <1>1, KindsKeptTwice, ItemAddedAfter
<1>3. \A a : NodeAt(m2, a) <=> NodeAt(m, a) \/ a = m.next
  <2>1. \A a : NodeAt(m2, a) => NodeAt(m1, a)  BY DEF NoNewNodes
  <2>2. \A a : NodeAt(m1, a) => a \in Addr(m) \/ a = m.next
    BY DEF NodeMade, NodeAt, NodeTypes
  <2>3. \A a : NodeAt(m1, a) /\ a \in Addr(m) => NodeAt(m, a)
    BY <1>1 DEF NodeAt, KindsKept
  <2>4. \A a : NodeAt(m, a) \/ a = m.next => NodeAt(m2, a)
    BY <1>1, <1>2, KindsKeptAt
  <2> QED  BY <2>1, <2>2, <2>3, <2>4
<1>4. node # m.next  BY <1>1 DEF ContainerAt
<1>5. NodeOf(m2, m.next) = Node(type, text)
  <2>1. ContainerAt(m1, m.next) => SameItems(m1, m2, m.next)
    BY <1>4 DEF ItemAdded
  <2> QED  BY <1>1, <2>1, NodeKept, NodeNew
<1>6. \A a : NodeAt(m, a) /\ a # node => NodeOf(m2, a) = NodeOf(m, a)
  BY <1>2, NodeKept DEF ItemAdded
<1>7. NodeAt(m, node) /\ NodeOf(m2, node) =
        [NodeOf(m, node) EXCEPT !.items = Append(@, [key |-> key, value |-> m.next])]
  BY <1>2, NodeLonger DEF NodeAt, NodeTypes, ContainerAt, IsContainer
<1>8. \A a : a \in DOMAIN f <=> NodeAt(m2, a)  BY <1>3, TableAt DEF Extended
<1>9. f = [a \in DOMAIN f |-> f[a]]  BY DEF Extended
<1>10. ASSUME NEW a, NodeAt(m2, a) PROVE f[a] = NodeOf(m2, a)
  <2>1. a \in DOMAIN NodesOf(m) \union {m.next}  BY <1>3, <1>10, TableAt
  <2>2. CASE a = m.next  BY <1>5, <2>1, <2>2 DEF Extended
  <2>3. CASE a = node
    <3>1. NodesOf(m)[a] = NodeOf(m, node)  BY <1>7, <2>3, TableAt
    <3> QED  BY <1>4, <1>7, <2>1, <2>3, <3>1 DEF Extended
  <2>4. CASE a # m.next /\ a # node
    <3>1. NodeAt(m, a) /\ NodesOf(m)[a] = NodeOf(m, a)  BY <1>3, <1>10, <2>4, TableAt
    <3>2. f[a] = NodesOf(m)[a]  BY <2>1, <2>4 DEF Extended
    <3> QED  BY <1>6, <2>4, <3>1, <3>2
  <2> QED  BY <2>2, <2>3, <2>4
<1> HIDE DEF f
<1>11. NodesOf(m2) = f  BY <1>8, <1>9, <1>10, TableIs
<1> QED  BY <1>11 DEF f

(* The first node of a memory makes a table of one. *)
LEMMA TableStarted ==
  ASSUME NEW m, NEW type \in NodeTypes, NodeMade(EmptyMem, m, type),
         NEW text, TextOf(m, EmptyMem.next) = text
  PROVE  NodesOf(m) = [a \in {EmptyMem.next} |-> Node(type, text)]
<1> DEFINE f == [a \in {EmptyMem.next} |-> Node(type, text)]
<1>1. Addr(EmptyMem) = {}  BY EmptyMemSound
<1>2. \A a : NodeAt(m, a) <=> a = EmptyMem.next
  BY <1>1 DEF NodeMade, NodeAt, NodeTypes
<1>3. NodeOf(m, EmptyMem.next) = Node(type, text)  BY NodeNew
<1>4. f = [a \in DOMAIN f |-> f[a]] /\ DOMAIN f = {EmptyMem.next}
      /\ f[EmptyMem.next] = Node(type, text)
  OBVIOUS
<1> HIDE DEF f
<1>5. NodesOf(m) = f  BY <1>2, <1>3, <1>4, TableIs
<1> QED  BY <1>5 DEF f

-------------------------------------------------------------------------------
(* The parser over the arena. *)


(* A context of the parser's stack points into the memory m: its node is a  *)
(* container, its key a string, and a map's key is pending exactly when the *)
(* next node is not a key.                                                  *)
ContextSound(m, c) ==
  /\ ContainerAt(m, c.node)
  /\ c.key # NULL => StringAt(m, c.key)
  /\ m.heap[c.node].type = "MAP" => (c.is_key_next <=> c.key = NULL)

StackSound(m, s) ==
  /\ s \in Seq(Context)
  /\ Len(s) <= MAX_DEPTH
  /\ \A i \in DOMAIN s : ContextSound(m, s[i])

RootSound(m, r) ==
  r \in Nat \union {NULL} /\ (r # NULL => r \in Addr(m) /\ m.heap[r].type = "MAP")

Statuses ==
  {"cold", "ready", "parsing", "parsed", "failed", "aborted", "undefined"}

(* The inductive invariant: the memory is sound, and all that the parser   *)
(* holds points into it.                                                   *)
IInv ==
  /\ HeapSound(mem)
  /\ mem.oom = FALSE
  /\ RootSound(mem, root)
  /\ StackSound(mem, stack)
  /\ arena \in BOOLEAN
  /\ status \in Statuses
  /\ status # "parsing" => stack = <<>>
  /\ Yaml!TypeOK

LEMMA StackKept ==
  ASSUME NEW m, NEW m1, KindsKept(m, m1), NEW s, StackSound(m, s)
  PROVE  StackSound(m1, s)
<1>1. \A c : ContextSound(m, c) => ContextSound(m1, c)
  BY KindsKeptAt DEF ContextSound, ContainerAt, KindsKept
<1> QED  BY <1>1 DEF StackSound

LEMMA RootKept ==
  ASSUME NEW m, NEW m1, KindsKept(m, m1), NEW r, RootSound(m, r)
  PROVE  RootSound(m1, r)
BY DEF RootSound, KindsKept

LEMMA NothingReached ==
  ASSUME NEW m
  PROVE  StackSound(m, <<>>)
<1>1. <<>> \in Seq(Context) /\ Len(<<>>) <= MAX_DEPTH  BY ParseAssumption
<1> QED  BY <1>1 DEF StackSound

(* With nothing pointing into it, a memory may be dropped for an empty one. *)
LEMMA NothingHeld ==
  /\ RootSound(EmptyMem, NULL)
  /\ StackSound(EmptyMem, <<>>)
BY NothingReached DEF RootSound, NULL

LEMMA HaltKeeps ==
  ASSUME IInv, NEW how \in {"aborted", "undefined"}, Halt(how), Yaml!TypeOK'
  PROVE  IInv'
BY EmptyMemSound, NothingHeld DEF IInv, Halt, Statuses

LEMMA InitSound == Init => IInv
<1> SUFFICES ASSUME Init PROVE IInv  OBVIOUS
<1>1. Yaml!TypeOK  BY DEF Init, Yaml!Init, Yaml!TypeOK, Yaml!NoEvent
<1> QED  BY <1>1, EmptyMemSound, NothingHeld DEF Init, IInv, Statuses

-------------------------------------------------------------------------------
(* libyaml's own state keeps its types, whatever the event. *)

YamlEvent ==
  \/ Yaml!StreamStart \/ Yaml!DocumentStart \/ Yaml!MappingStart \/ Yaml!SequenceStart
  \/ \E text \in Texts : Yaml!Scalar(text)
  \/ Yaml!Alias \/ Yaml!MappingEnd \/ Yaml!SequenceEnd
  \/ Yaml!DocumentEnd \/ Yaml!StreamEnd \/ Yaml!SyntaxError

Positions == {"key", "value", "item"}

LEMMA PlacedType ==
  ASSUME open \in Seq(Positions)
  PROVE  Yaml!Placed \in Seq(Positions) /\ Len(Yaml!Placed) = Len(open)
<1>1. CASE open = <<>>  BY <1>1 DEF Yaml!Placed, Yaml!Inside
<1>2. CASE open # <<>>
  <2>1. Len(open) \in 1..Len(open)  BY <1>2
  <2>2. open[Len(open)] \in Positions  BY <2>1
  <2>3. Yaml!NextPosition[open[Len(open)]] \in Positions
    BY <2>2 DEF Yaml!NextPosition, Positions
  <2> QED  BY <1>2, <2>1, <2>3 DEF Yaml!Placed, Yaml!Inside
<1> QED  BY <1>1, <1>2

LEMMA YamlTyped ==
  ASSUME Yaml!TypeOK, YamlEvent \/ Yaml!Restart \/ UNCHANGED yamlVars
  PROVE  Yaml!TypeOK'
<1>1. open \in Seq(Positions)  BY DEF Yaml!TypeOK, Positions
<1>2. open' \in Seq(Positions)
  <2>1. CASE Yaml!MappingStart \/ Yaml!SequenceStart
    BY <1>1, <2>1, PlacedType DEF Yaml!MappingStart, Yaml!SequenceStart, Positions
  <2>2. CASE Yaml!Alias \/ \E text \in Texts : Yaml!Scalar(text)
    BY <1>1, <2>2, PlacedType DEF Yaml!Alias, Yaml!Scalar
  <2>3. CASE Yaml!MappingEnd \/ Yaml!SequenceEnd
    <3>1. open' = SubSeq(open, 1, Len(open) - 1)
      BY <2>3 DEF Yaml!MappingEnd, Yaml!SequenceEnd, Yaml!ContainerEnd
    <3> QED  BY <1>1, <3>1
  <2>4. CASE Yaml!Restart  BY <2>4 DEF Yaml!Restart
  <2>5. CASE UNCHANGED open  BY <1>1, <2>5
  <2> QED
    BY <2>1, <2>2, <2>3, <2>4, <2>5
    DEF YamlEvent, Yaml!StreamStart, Yaml!DocumentStart, Yaml!DocumentEnd,
        Yaml!StreamEnd, Yaml!SyntaxError, yamlVars
<1>3. stage' \in {"stream", "document", "root", "content", "closed", "end"}
  BY DEF YamlEvent, Yaml!TypeOK, Yaml!StreamStart, Yaml!DocumentStart, Yaml!MappingStart,
         Yaml!SequenceStart, Yaml!Scalar, Yaml!Alias, Yaml!MappingEnd, Yaml!SequenceEnd,
         Yaml!ContainerEnd, Yaml!DocumentEnd, Yaml!StreamEnd, Yaml!SyntaxError,
         Yaml!Restart, yamlVars
<1>4. event'.text \in Texts \union {NoText}
  BY DEF YamlEvent, Yaml!TypeOK, Yaml!StreamStart, Yaml!DocumentStart, Yaml!MappingStart,
         Yaml!SequenceStart, Yaml!Scalar, Yaml!Alias, Yaml!MappingEnd, Yaml!SequenceEnd,
         Yaml!ContainerEnd, Yaml!DocumentEnd, Yaml!StreamEnd, Yaml!SyntaxError,
         Yaml!Restart, yamlVars, Yaml!Emit, Yaml!NoEvent
<1> QED  BY <1>2, <1>3, <1>4 DEF Yaml!TypeOK, Positions

-------------------------------------------------------------------------------
(* The parser's stack. *)

LEMMA TopSound ==
  ASSUME NEW m, StackSound(m, stack), ~AtRoot
  PROVE  Top \in Context /\ ContextSound(m, Top)
<1>1. stack \in Seq(Context) /\ stack # <<>>  BY DEF StackSound, AtRoot
<1>2. Len(stack) \in DOMAIN stack  BY <1>1
<1> QED  BY <1>1, <1>2 DEF StackSound, Top

LEMMA TopReplaced ==
  ASSUME NEW m, StackSound(m, stack), ~AtRoot, NEW c \in Context, ContextSound(m, c)
  PROVE  /\ StackSound(m, [stack EXCEPT ![Len(stack)] = c])
         /\ Len([stack EXCEPT ![Len(stack)] = c]) = Len(stack)
<1> DEFINE s == [stack EXCEPT ![Len(stack)] = c]
<1>1. stack \in Seq(Context) /\ Len(stack) \in DOMAIN stack
  BY DEF StackSound, AtRoot
<1>2. /\ s \in Seq(Context) /\ Len(s) = Len(stack) /\ DOMAIN s = DOMAIN stack
      /\ s[Len(stack)] = c
      /\ \A i \in DOMAIN stack : i # Len(stack) => s[i] = stack[i]
  BY <1>1
<1> HIDE DEF s
<1>3. StackSound(m, s)  BY <1>2 DEF StackSound
<1> QED  BY <1>2, <1>3 DEF s

LEMMA Pushed ==
  ASSUME NEW m, NEW s, StackSound(m, s), Len(s) < MAX_DEPTH,
         NEW c \in Context, ContextSound(m, c)
  PROVE  StackSound(m, Append(s, c))
<1>1. s \in Seq(Context)  BY DEF StackSound
<1>2. /\ Append(s, c) \in Seq(Context) /\ Len(Append(s, c)) = Len(s) + 1
      /\ \A i \in DOMAIN Append(s, c) :
           (i \in DOMAIN s /\ Append(s, c)[i] = s[i]) \/ Append(s, c)[i] = c
  BY <1>1
<1>3. Len(s) + 1 <= MAX_DEPTH  BY <1>1, ParseAssumption
<1> QED  BY <1>2, <1>3 DEF StackSound

LEMMA Popped ==
  ASSUME NEW m, NEW s, StackSound(m, s)
  PROVE  StackSound(m, SubSeq(s, 1, Len(s) - 1))
<1> DEFINE t == SubSeq(s, 1, Len(s) - 1)
<1>1. s \in Seq(Context)  BY DEF StackSound
<1>2. /\ t \in Seq(Context) /\ Len(t) <= Len(s)
      /\ \A i \in DOMAIN t : i \in DOMAIN s /\ t[i] = s[i]
  BY <1>1
<1> HIDE DEF t
<1>3. Len(t) <= MAX_DEPTH  BY <1>1, <1>2, ParseAssumption DEF StackSound
<1>4. StackSound(m, t)  BY <1>2, <1>3 DEF StackSound
<1> QED  BY <1>4 DEF t

LEMMA KeyConsumedSound ==
  ASSUME NEW m, StackSound(m, stack)
  PROVE  StackSound(m, KeyConsumed) /\ Len(KeyConsumed) = Len(stack)
<1> DEFINE c == [node |-> Top.node, key |-> NULL, is_key_next |-> TRUE]
<1>1. CASE InMap
  <2>1. ~AtRoot  BY <1>1 DEF InMap
  <2>2. Top \in Context /\ ContextSound(m, Top)  BY <2>1, TopSound
  <2>3. c \in Context /\ c.node = Top.node /\ c.key = NULL /\ c.is_key_next
    BY <2>2 DEF Context, NULL
  <2>4. ContextSound(m, c)  BY <2>2, <2>3 DEF ContextSound
  <2>5. KeyConsumed = [stack EXCEPT ![Len(stack)] = c]  BY <1>1 DEF KeyConsumed, SetTop
  <2> HIDE DEF c
  <2> QED  BY <2>1, <2>3, <2>4, <2>5, TopReplaced
<1>2. CASE ~InMap  BY <1>2 DEF KeyConsumed
<1> QED  BY <1>1, <1>2

(* Adding a node to the container on top of the stack. *)
LEMMA AddToTopSound ==
  ASSUME IInv, ~AtRoot, ~KeyMissing,
         NEW m, HeapSound(m), KindsKept(mem, m), NEW child, NodeAt(m, child)
  PROVE  /\ HeapSound(AddToTop(m, child)) /\ KindsKept(m, AddToTop(m, child))
         /\ NoNewNodes(m, AddToTop(m, child))
         /\ ItemAdded(m, AddToTop(m, child), Top.node, child)
         /\ LastUnder(AddToTop(m, child), Top.node,
                      IF InMap THEN mem.heap[Top.key].text ELSE NoText)
<1>1. Top \in Context /\ ContextSound(mem, Top)  BY TopSound DEF IInv
<1>2. /\ Top.node \in Addr(mem) /\ mem.heap[Top.node].type \in {"MAP", "SEQUENCE"}
      /\ Top.key # NULL => StringAt(mem, Top.key)
  BY <1>1 DEF ContextSound, ContainerAt, IsContainer
<1>3. Top.node \in Addr(m) /\ m.heap[Top.node].type = mem.heap[Top.node].type
  BY <1>2 DEF KindsKept
<1>4. CASE InMap
  <2>1. Top.key # NULL  BY <1>4 DEF KeyMissing
  <2>2. StringAt(m, Top.key) /\ m.heap[Top.key].text = mem.heap[Top.key].text
    BY <1>2, <2>1, KindsKeptAt DEF StringAt, KindsKept
  <2>3. m.heap[Top.node].type = "MAP"  BY <1>3, <1>4 DEF InMap
  <2> QED  BY <1>3, <1>4, <2>2, <2>3, MapAddSound DEF AddToTop
<1>5. CASE ~InMap
  <2>1. m.heap[Top.node].type = "SEQUENCE"  BY <1>2, <1>3, <1>5 DEF InMap
  <2> QED  BY <1>3, <1>5, <2>1, SequenceAddSound DEF AddToTop
<1> QED  BY <1>4, <1>5

LEMMA CommitKeeps ==
  ASSUME IInv, status = "parsing", Yaml!TypeOK',
         NEW m, HeapSound(m), NEW s, StackSound(m, s), NEW r, RootSound(m, r),
         Commit(m, s, r)
  PROVE  IInv'
<1>1. CASE Halt("aborted")  BY <1>1, HaltKeeps
<1>2. CASE /\ ~m.oom
           /\ mem' = m
           /\ stack' = s
           /\ root' = r
           /\ UNCHANGED <<arena, status>>
  <2>1. m.oom = FALSE  BY <1>2, MemFields DEF HeapSound
  <2> QED  BY <1>2, <2>1 DEF IInv
<1> QED  BY <1>1, <1>2 DEF Commit

-------------------------------------------------------------------------------
(* One lemma for each thing the parser does with an event. *)

(* The memory once the container made at mem.next has been added. *)
Opened(m) == IF AtRoot THEN m ELSE AddToTop(m, mem.next)

OpenedContext(m) ==
  [node |-> mem.next, key |-> NULL, is_key_next |-> m.heap[mem.next].type = "MAP"]

LEMMA OpenedSound ==
  ASSUME IInv, ~KeyMissing,
         NEW type \in {"MAP", "SEQUENCE"}, NEW m, NodeMade(mem, m, type)
  PROVE  /\ HeapSound(Opened(m))
         /\ KindsKept(m, Opened(m))
         /\ KindsKept(mem, Opened(m))
         /\ OpenedContext(m) \in Context
         /\ OpenedContext(m).node = mem.next
         /\ OpenedContext(m).key = NULL
         /\ OpenedContext(m).is_key_next <=> type = "MAP"
         /\ mem.next \in Addr(Opened(m))
         /\ Opened(m).heap[mem.next].type = type
<1> DEFINE node == mem.next
           k    == m.heap[node].type = "MAP"
<1>1. /\ HeapSound(m) /\ KindsKept(mem, m) /\ node \in Addr(m)
      /\ m.heap[node].type = type
  BY DEF NodeMade
<1>2. NodeAt(m, node)  BY <1>1 DEF NodeAt, NodeTypes
<1>3. HeapSound(Opened(m)) /\ KindsKept(m, Opened(m))
  <2>1. CASE AtRoot  BY <1>1, <2>1 DEF KindsKept, Opened
  <2>2. CASE ~AtRoot  BY <1>1, <1>2, <2>2, AddToTopSound DEF Opened
  <2> QED  BY <2>1, <2>2
<1>4. KindsKept(mem, Opened(m))  BY <1>1, <1>3, KindsKeptTwice
<1>5. node \in Addr(Opened(m)) /\ Opened(m).heap[node].type = type
  BY <1>1, <1>3 DEF KindsKept
<1>6. node \in Nat  BY MemFields DEF IInv, HeapSound
<1>7. k \in BOOLEAN /\ (k <=> type = "MAP")  BY <1>1
<1>8. OpenedContext(m) = [node |-> node, key |-> NULL, is_key_next |-> k]
  BY DEF OpenedContext
<1> HIDE DEF k, node
<1>9. OpenedContext(m) \in Context  BY <1>6, <1>7, <1>8 DEF Context, NULL
<1>10. /\ OpenedContext(m).node = node /\ OpenedContext(m).key = NULL
       /\ OpenedContext(m).is_key_next = k
  BY <1>8
<1> QED  BY <1>3, <1>4, <1>5, <1>7, <1>9, <1>10 DEF node

LEMMA OpenContainerKeeps ==
  ASSUME IInv, status = "parsing", Yaml!TypeOK',
         NEW type \in {"MAP", "SEQUENCE"}, NEW m, NodeMade(mem, m, type),
         NEW r, RootSound(m, r), OpenContainer(m, r)
  PROVE  IInv'
<1>1. CASE Halt("aborted") \/ Halt("undefined")  BY <1>1, HaltKeeps
<1>2. CASE /\ ~KeyMissing
           /\ Len(stack) < MAX_DEPTH
           /\ Commit(Opened(m), Append(KeyConsumed, OpenedContext(m)), r)
  <2>1. /\ HeapSound(Opened(m)) /\ KindsKept(m, Opened(m)) /\ KindsKept(mem, Opened(m))
        /\ OpenedContext(m) \in Context
    BY <1>2, OpenedSound
  <2>2. StackSound(Opened(m), KeyConsumed) /\ Len(KeyConsumed) = Len(stack)
    BY <2>1, StackKept, KeyConsumedSound DEF IInv
  <2>3. ContextSound(Opened(m), OpenedContext(m))
    BY <1>2, OpenedSound DEF ContextSound, ContainerAt, IsContainer
  <2>4. RootSound(Opened(m), r)  BY <2>1, RootKept
  <2>5. StackSound(Opened(m), Append(KeyConsumed, OpenedContext(m)))
    BY <1>2, <2>1, <2>2, <2>3, Pushed
  <2> QED  BY <1>2, <2>1, <2>4, <2>5, CommitKeeps
<1> QED  BY <1>1, <1>2 DEF OpenContainer, Opened, OpenedContext

LEMMA MappingStartKeeps ==
  ASSUME IInv, MappingStart
  PROVE  IInv'
<1> DEFINE m == create_map_node(mem)
           r == IF AtRoot THEN mem.next ELSE root
<1>1. /\ status = "parsing" /\ Yaml!MappingStart /\ OpenContainer(m, r)
  BY DEF MappingStart
<1>2. Yaml!TypeOK'  BY <1>1, YamlTyped DEF IInv, YamlEvent
<1>3. NodeMade(mem, m, "MAP")  BY MapMade DEF IInv
<1> HIDE DEF m
<1>4. RootSound(m, r)
  <2>1. mem.next \in Nat  BY MemFields DEF IInv, HeapSound
  <2>2. RootSound(m, mem.next)  BY <1>3, <2>1 DEF NodeMade, RootSound
  <2>3. RootSound(m, root)  BY <1>3, RootKept DEF IInv, NodeMade
  <2> QED  BY <2>2, <2>3
<1> HIDE DEF r
<1> QED  BY <1>1, <1>2, <1>3, <1>4, OpenContainerKeeps

LEMMA SequenceStartKeeps ==
  ASSUME IInv, SequenceStart
  PROVE  IInv'
<1> DEFINE m == create_sequence_node(mem)
<1>1. /\ status = "parsing" /\ Yaml!SequenceStart /\ OpenContainer(m, root)
  BY DEF SequenceStart
<1>2. Yaml!TypeOK'  BY <1>1, YamlTyped DEF IInv, YamlEvent
<1>3. NodeMade(mem, m, "SEQUENCE")  BY SequenceMade DEF IInv
<1> HIDE DEF m
<1>4. RootSound(m, root)  BY <1>3, RootKept DEF IInv, NodeMade
<1> QED  BY <1>1, <1>2, <1>3, <1>4, OpenContainerKeeps

LEMMA ScalarIsKeyKeeps ==
  ASSUME IInv, status = "parsing", Yaml!TypeOK', NEW text \in Texts, ScalarIsKey(text)
  PROVE  IInv'
<1> DEFINE m == arena_strdup(mem, text)
           c == [node |-> Top.node, key |-> mem.next, is_key_next |-> FALSE]
           s == [stack EXCEPT ![Len(stack)] = c]
<1>1. ~AtRoot /\ Commit(m, s, root)  BY DEF ScalarIsKey, InMap, SetTop
<1>2. HeapSound(m) /\ KindsKept(mem, m) /\ StringAt(m, mem.next)
  BY StrdupSound DEF IInv
<1> HIDE DEF m
<1>3. StackSound(m, stack) /\ RootSound(m, root)
  BY <1>2, StackKept, RootKept DEF IInv
<1>4. Top \in Context /\ ContextSound(m, Top)  BY <1>1, <1>3, TopSound
<1>5. mem.next \in Nat  BY MemFields DEF IInv, HeapSound
<1>6. /\ c \in Context /\ c.node = Top.node /\ c.key = mem.next /\ c.key # NULL
      /\ ~c.is_key_next
  BY <1>4, <1>5 DEF Context, NULL
<1> HIDE DEF c
<1>7. ContextSound(m, c)  BY <1>2, <1>4, <1>6 DEF ContextSound
<1>8. StackSound(m, s)  BY <1>1, <1>3, <1>6, <1>7, TopReplaced
<1> QED  BY <1>1, <1>2, <1>3, <1>8, CommitKeeps

LEMMA KeyPending ==
  ASSUME IInv, ~AtRoot, InMap => ~Top.is_key_next
  PROVE  ~KeyMissing
<1>1. ContextSound(mem, Top)  BY TopSound DEF IInv
<1> QED  BY <1>1 DEF KeyMissing, InMap, ContextSound

LEMMA ScalarIsValueKeeps ==
  ASSUME IInv, status = "parsing", Yaml!TypeOK', NEW text \in Texts, ScalarIsValue(text)
  PROVE  IInv'
<1> DEFINE m  == parse_scalar(mem, text)
           m1 == AddToTop(m, mem.next)
<1>1. ~AtRoot /\ (InMap => ~Top.is_key_next) /\ Commit(m1, KeyConsumed, root)
  BY DEF ScalarIsValue
<1>2. NodeMade(mem, m, ScalarType[text])  BY ScalarMade DEF IInv
<1> HIDE DEF m
<1>3. HeapSound(m) /\ KindsKept(mem, m) /\ NodeAt(m, mem.next)
  <2>1. ScalarType[text] \in NodeTypes  BY HeapAssumption DEF NodeTypes
  <2> QED  BY <1>2, <2>1 DEF NodeMade, NodeAt
<1>4. HeapSound(m1) /\ KindsKept(m, m1)
  BY <1>1, <1>3, KeyPending, AddToTopSound
<1> HIDE DEF m1
<1>5. KindsKept(mem, m1)  BY <1>3, <1>4, KindsKeptTwice
<1>6. StackSound(m1, KeyConsumed) /\ RootSound(m1, root)
  BY <1>5, StackKept, RootKept, KeyConsumedSound DEF IInv
<1> QED  BY <1>1, <1>4, <1>6, CommitKeeps

LEMMA ScalarKeeps ==
  ASSUME IInv, NEW text \in Texts, Scalar(text)
  PROVE  IInv'
<1>1. status = "parsing" /\ Yaml!Scalar(text)  BY DEF Scalar
<1>2. Yaml!TypeOK'  BY <1>1, YamlTyped DEF IInv, YamlEvent
<1>3. CASE ScalarAtRoot  BY <1>2, <1>3, HaltKeeps DEF ScalarAtRoot
<1>4. CASE ScalarIsKey(text)  BY <1>1, <1>2, <1>4, ScalarIsKeyKeeps
<1>5. CASE ScalarIsValue(text)  BY <1>1, <1>2, <1>5, ScalarIsValueKeeps
<1> QED  BY <1>3, <1>4, <1>5 DEF Scalar

LEMMA StepSound == IInv /\ [Next]_vars => IInv'
<1> SUFFICES ASSUME IInv, [Next]_vars PROVE IInv'  OBVIOUS
<1> USE DEF Statuses
<1>1. CASE partfx_init
  <2>1. Yaml!TypeOK'  BY <1>1, YamlTyped DEF IInv, partfx_init
  <2>2. CASE Halt("aborted")  BY <2>1, <2>2, HaltKeeps
  <2>3. CASE /\ status' = "ready" /\ arena' = TRUE /\ mem' = EmptyMem /\ root' = NULL
             /\ UNCHANGED stack
    <3>1. stack = <<>>  BY <1>1 DEF IInv, partfx_init
    <3> QED  BY <2>1, <2>3, <3>1, EmptyMemSound, NothingHeld DEF IInv
  <2> QED  BY <1>1, <2>2, <2>3 DEF partfx_init
<1>2. CASE partfx_reset
  <2>1. Yaml!TypeOK'  BY <1>2, YamlTyped DEF IInv, partfx_reset
  <2>2. stack = <<>>  BY <1>2 DEF IInv, partfx_reset, Returned
  <2> QED  BY <1>2, <2>1, <2>2, EmptyMemSound, NothingHeld DEF IInv, partfx_reset
<1>3. CASE partfx_delete
  <2>1. Yaml!TypeOK'  BY <1>3, YamlTyped DEF IInv, partfx_delete
  <2>2. stack = <<>>  BY <1>3 DEF IInv, partfx_delete, Returned
  <2> QED  BY <1>3, <2>1, <2>2, EmptyMemSound, NothingHeld DEF IInv, partfx_delete
<1>4. CASE Begin
  <2>1. Yaml!TypeOK'  BY <1>4, YamlTyped DEF IInv, Begin
  <2> QED  BY <1>4, <2>1 DEF IInv, Begin
<1>5. CASE BeginFails
  <2>1. Yaml!TypeOK'  BY <1>5, YamlTyped DEF IInv, BeginFails
  <2> QED  BY <1>5, <2>1 DEF IInv, BeginFails
<1>6. CASE MappingStart  BY <1>6, MappingStartKeeps
<1>7. CASE SequenceStart  BY <1>7, SequenceStartKeeps
<1>8. CASE \E text \in Texts : Scalar(text)  BY <1>8, ScalarKeeps
<1>9. CASE ContainerEnd
  <2>1. Yaml!TypeOK'  BY <1>9, YamlTyped DEF IInv, ContainerEnd, YamlEvent
  <2>2. StackSound(mem, SubSeq(stack, 1, Len(stack) - 1))  BY Popped DEF IInv
  <2> QED  BY <1>9, <2>1, <2>2 DEF IInv, ContainerEnd
<1>10. CASE Ignored
  <2>1. Yaml!TypeOK'  BY <1>10, YamlTyped DEF IInv, Ignored, YamlEvent
  <2> QED  BY <1>10, <2>1 DEF IInv, Ignored
<1>11. CASE Finish
  <2>1. Yaml!TypeOK'  BY <1>11, YamlTyped DEF IInv, Finish, YamlEvent
  <2> QED  BY <1>11, <2>1, NothingReached DEF IInv, Finish
<1>12. CASE Fail
  <2>1. Yaml!TypeOK'  BY <1>12, YamlTyped DEF IInv, Fail, YamlEvent
  <2> QED  BY <1>12, <2>1, NothingReached DEF IInv, Fail
<1>13. CASE UNCHANGED vars
  <2>1. Yaml!TypeOK'  BY <1>13, YamlTyped DEF IInv, vars, yamlVars
  <2> QED  BY <1>13, <2>1 DEF IInv, vars
<1> QED
  BY <1>1, <1>2, <1>3, <1>4, <1>5, <1>6, <1>7, <1>8, <1>9, <1>10, <1>11, <1>12, <1>13
  DEF Next, HandleEvent

LEMMA Inductive == Spec => []IInv
BY InitSound, StepSound, PTL DEF Spec

-------------------------------------------------------------------------------
(* The theorems. *)

(* Type correctness: the arena's offset, the root, the stack within        *)
(* MAX_DEPTH contexts, the session's status (partfx.c).                    *)
THEOREM TypeCorrect == Spec => []TypeOK
<1>1. IInv => TypeOK
  BY MemFields DEF IInv, TypeOK, HeapSound, RootSound, StackSound, Statuses
<1> QED  BY <1>1, Inductive, PTL

(* No block of the arena overlaps another or leaves the arena, and no      *)
(* container writes past its array, for every arena size, initial capacity *)
(* and document (arena_alloc, map_add, sequence_add).                      *)
THEOREM MemorySafe == Spec => []BlocksSound
<1>1. ASSUME IInv PROVE BlocksSound
  <2>1. mem.next <= ARENA_SIZE  BY <1>1 DEF IInv, HeapSound, InArena
  <2>2. \A a \in Blocks : 0 <= a /\ a + Block(a).size <= mem.next
    BY <1>1, MemFields DEF IInv, HeapSound, Apart, Blocks, Block, Addr
  <2>3. \A a, b \in Blocks : a < b => a + Block(a).size <= b
    BY <1>1 DEF IInv, HeapSound, Apart, Blocks, Block, Addr
  <2>4. \A a \in Blocks : IsContainer(Block(a)) =>
          /\ DOMAIN Block(Block(a).ptr).slots = 0..(Block(a).count - 1)
          /\ Block(a).count <= Block(a).capacity
          /\ Block(Block(a).ptr).size = ElemSize(Block(a)) * Block(a).capacity
    BY <1>1
    DEF IInv, HeapSound, ArraysSound, FitsArray, Blocks, Block, Addr, ElemSize, ElemOf
  <2> QED  BY <2>1, <2>2, <2>3, <2>4 DEF BlocksSound
<1> QED  BY <1>1, Inductive, PTL

(* Whatever pfx->root, the parser's stack and the arena point to is a live *)
(* block of the right kind, across growth, failed parses and resets        *)
(* (partfx_parse, partfx_reset).                                           *)
THEOREM PointersSafe == Spec => []PointersSound
<1>1. ASSUME IInv PROVE PointersSound
  <2> USE DEF Blocks, Block, Addr
  <2>1. root # NULL => IsNode(root) /\ Block(root).type = "MAP"
    BY <1>1 DEF IInv, RootSound, IsNode, NodeTypes
  <2>2. ASSUME NEW i \in DOMAIN stack
        PROVE  /\ IsNode(stack[i].node) /\ IsContainer(Block(stack[i].node))
               /\ stack[i].key # NULL => IsString(stack[i].key)
    BY <1>1, <2>2
    DEF IInv, StackSound, ContextSound, ContainerAt, StringAt, IsNode, IsString,
        IsContainer, NodeTypes
  <2>3. ASSUME NEW a \in Blocks, IsContainer(Block(a))
        PROVE  IsArray(Block(a).ptr)
    BY <1>1, <2>3 DEF IInv, HeapSound, ArraysSound, FitsArray, ArrayAt, IsArray
  <2>4. ASSUME NEW a \in Blocks, Block(a).type = "STRING"
        PROVE  IsString(Block(a).ptr)
    BY <1>1, <2>4 DEF IInv, HeapSound, StringsSound, StringAt, IsString
  <2>5. ASSUME NEW a \in Blocks, NEW i \in DOMAIN Block(a).slots
        PROVE  /\ IsNode(Block(a).slots[i].value)
               /\ Block(a).slots[i].key # NULL => IsString(Block(a).slots[i].key)
    BY <1>1, <2>5
    DEF IInv, HeapSound, SlotsSound, SlotSound, NodeAt, StringAt, IsNode, IsString
  <2> QED  BY <2>1, <2>2, <2>3, <2>4, <2>5 DEF PointersSound
<1> QED  BY <1>1, Inductive, PTL

-------------------------------------------------------------------------------
(* What an event does to the nodes that are there. *)

(* From m to m1 nothing of a node is lost, and only containers of held get *)
(* anything, one item each, behind what they have.                         *)
Grows(m, m1, held) ==
  /\ KindsKept(m, m1)
  /\ \A a : ContainerAt(m, a) =>
       SameItems(m, m1, a) \/ (a \in held /\ OneMore(m, m1, a))

LEMMA KeptGrows ==
  ASSUME NEW m, HeapSound(m), NEW m1, BlocksKept(m, m1), NEW held
  PROVE  Grows(m, m1, held)
<1>1. KindsKept(m, m1)  BY DEF BlocksKept, KindsKept
<1>2. ItemsKept(m, m1)  BY BlocksKeptItems
<1> QED  BY <1>1, <1>2 DEF Grows, ItemsKept

LEMMA TopHeld ==
  ASSUME IInv, ~AtRoot
  PROVE  ContainerAt(mem, Top.node) /\ Top.node \in OpenNodes
<1>1. ContainerAt(mem, Top.node)  BY TopSound DEF IInv, ContextSound
<1>2. Len(stack) \in DOMAIN stack  BY DEF IInv, StackSound, AtRoot
<1> QED  BY <1>1, <1>2 DEF OpenNodes, Top

LEMMA AddedGrows ==
  ASSUME IInv, ~AtRoot, NEW m, BlocksKept(mem, m),
         NEW m1, KindsKept(m, m1), NEW child, ItemAdded(m, m1, Top.node, child)
  PROVE  Grows(mem, m1, OpenNodes)
<1>1. ContainerAt(mem, Top.node) /\ Top.node \in OpenNodes  BY TopHeld
<1>2. KindsKept(mem, m) /\ ItemsKept(mem, m)
  BY BlocksKeptItems DEF IInv, BlocksKept, KindsKept
<1>3. KindsKept(mem, m1)  BY <1>2, KindsKeptTwice
<1>4. ItemAdded(mem, m1, Top.node, child)  BY <1>1, <1>2, ItemAddedAfter
<1> QED  BY <1>1, <1>3, <1>4 DEF Grows, ItemAdded

LEMMA OpenContainerGrows ==
  ASSUME IInv, status = "parsing", NEW type \in {"MAP", "SEQUENCE"},
         NEW m, NodeMade(mem, m, type), NEW r, OpenContainer(m, r),
         status' = "parsing"
  PROVE  Grows(mem, mem', OpenNodes)
<1>1. ~KeyMissing /\ mem' = Opened(m)
  BY DEF OpenContainer, Opened, Commit, Halt
<1>2. HeapSound(m) /\ KindsKept(mem, m) /\ BlocksKept(mem, m) /\ NodeAt(m, mem.next)
  BY DEF NodeMade, NodeAt, NodeTypes
<1>3. CASE AtRoot  BY <1>1, <1>2, <1>3, KeptGrows DEF Opened, IInv
<1>4. CASE ~AtRoot
  <2>1. /\ KindsKept(m, AddToTop(m, mem.next))
        /\ ItemAdded(m, AddToTop(m, mem.next), Top.node, mem.next)
    BY <1>1, <1>2, <1>4, AddToTopSound
  <2> QED  BY <1>1, <1>2, <1>4, <2>1, AddedGrows DEF Opened
<1> QED  BY <1>3, <1>4

LEMMA ScalarGrows ==
  ASSUME IInv, NEW text \in Texts, Scalar(text), status' = "parsing"
  PROVE  Grows(mem, mem', OpenNodes)
<1>1. CASE ScalarIsKey(text)
  <2> DEFINE m == arena_strdup(mem, text)
  <2>1. mem' = m  BY <1>1 DEF ScalarIsKey, Commit, Halt
  <2>2. BlocksKept(mem, m)  BY StrdupSound DEF IInv
  <2> HIDE DEF m
  <2> QED  BY <2>1, <2>2, KeptGrows DEF IInv
<1>2. CASE ScalarIsValue(text)
  <2> DEFINE m == parse_scalar(mem, text)
  <2>1. ~AtRoot /\ (InMap => ~Top.is_key_next) /\ mem' = AddToTop(m, mem.next)
    BY <1>2 DEF ScalarIsValue, Commit, Halt
  <2>2. NodeMade(mem, m, ScalarType[text])  BY ScalarMade DEF IInv
  <2> HIDE DEF m
  <2>3. /\ HeapSound(m) /\ KindsKept(mem, m) /\ BlocksKept(mem, m)
        /\ NodeAt(m, mem.next)
    <3>1. ScalarType[text] \in NodeTypes  BY HeapAssumption DEF NodeTypes
    <3> QED  BY <2>2, <3>1 DEF NodeMade, NodeAt
  <2>4. /\ KindsKept(m, AddToTop(m, mem.next))
        /\ ItemAdded(m, AddToTop(m, mem.next), Top.node, mem.next)
    BY <2>1, <2>3, KeyPending, AddToTopSound
  <2> QED  BY <2>1, <2>3, <2>4, AddedGrows
<1>3. ~ScalarAtRoot  BY DEF ScalarAtRoot, Halt
<1> QED  BY <1>1, <1>2, <1>3 DEF Scalar

(* A step of partfx_parse that does not end the process only adds. *)
LEMMA EventGrows ==
  ASSUME IInv, [Next]_vars, status = "parsing",
         status' \in {"parsing", "parsed", "failed"}
  PROVE  Grows(mem, mem', OpenNodes)
<1>1. CASE MappingStart
  <2>1. NodeMade(mem, create_map_node(mem), "MAP")  BY MapMade DEF IInv
  <2>2. /\ OpenContainer(create_map_node(mem), IF AtRoot THEN mem.next ELSE root)
        /\ status' = "parsing"
    BY <1>1 DEF MappingStart, OpenContainer, Commit, Halt
  <2> QED  BY <2>1, <2>2, OpenContainerGrows
<1>2. CASE SequenceStart
  <2>1. NodeMade(mem, create_sequence_node(mem), "SEQUENCE")
    BY SequenceMade DEF IInv
  <2>2. OpenContainer(create_sequence_node(mem), root) /\ status' = "parsing"
    BY <1>2 DEF SequenceStart, OpenContainer, Commit, Halt
  <2> QED  BY <2>1, <2>2, OpenContainerGrows
<1>3. ASSUME NEW text \in Texts, Scalar(text)
      PROVE  Grows(mem, mem', OpenNodes)
  <2>1. status' = "parsing"
    BY <1>3 DEF Scalar, ScalarAtRoot, ScalarIsKey, ScalarIsValue, Commit, Halt
  <2> QED  BY <1>3, <2>1, ScalarGrows
<1>4. CASE mem' = mem
  <2>1. BlocksKept(mem, mem')  BY <1>4 DEF BlocksKept
  <2> QED  BY <2>1, KeptGrows DEF IInv
<1> QED
  BY <1>1, <1>2, <1>3, <1>4
  DEF Next, HandleEvent, partfx_init, Begin, BeginFails, partfx_reset, partfx_delete,
      Returned, ContainerEnd, Ignored, Finish, Fail, vars

LEMMA OneMoreBehind ==
  ASSUME NEW m \in MemSet, NEW m1, NEW a \in Addr(m), OneMore(m, m1, a)
  PROVE  /\ Len(ItemsOf(m1, a)) = Len(ItemsOf(m, a)) + 1
         /\ SubSeq(ItemsOf(m1, a), 1, Len(ItemsOf(m, a))) = ItemsOf(m, a)
<1> DEFINE n == m.heap[a].count
           s == ItemsOf(m, a)
           t == ItemsOf(m1, a)
<1>1. n \in Nat  BY MemFields
<1>2. DOMAIN s = 1..n /\ s = [i \in 1..n |-> s[i]]  BY DEF ItemsOf
<1>3. DOMAIN t = 1..(n + 1) /\ t = [i \in 1..(n + 1) |-> t[i]]
  BY DEF ItemsOf, OneMore
<1>4. \A i \in 1..n : t[i] = s[i]  BY DEF OneMore
<1> HIDE DEF n, s, t
<1>5. Len(s) = n /\ Len(t) = n + 1  BY <1>1, <1>2, <1>3
<1>6. SubSeq(t, 1, n) = [i \in 1..n |-> t[i]]  BY <1>1, <1>3
<1>7. SubSeq(t, 1, n) = s  BY <1>2, <1>4, <1>6
<1> QED  BY <1>5, <1>7 DEF n, s, t

-------------------------------------------------------------------------------
(* The lookups. *)

LEMMA LeastExists ==
  ASSUME NEW S, S \subseteq Nat, S # {}
  PROVE  Min(S) \in S /\ \A y \in S : Min(S) <= y
<1>1. PICK x \in S : \A y \in S : <<y, x>> \notin OpToRel(<, Nat)
  BY NatLessThanWellFounded, WFMin
<1>2. \A y \in S : ~(y < x)  BY <1>1 DEF OpToRel
<1> DEFINE least == CHOOSE z \in S : \A y \in S : z =< y
<1>3. \A y \in S : x =< y  BY <1>2
<1>4. least \in S /\ \A y \in S : least =< y  BY <1>3
<1> QED  BY <1>4 DEF Min

LEMMA LeastIs ==
  ASSUME NEW S, S \subseteq Nat, NEW x \in S, \A y \in S : x <= y
  PROVE  Min(S) = x
<1> DEFINE least == Min(S)
<1>1. least \in S /\ least <= x  BY LeastExists
<1> HIDE DEF least
<1>2. x <= least /\ x \in Nat /\ least \in Nat  BY <1>1
<1>3. least = x  BY <1>1, <1>2
<1> QED  BY <1>3 DEF least

(* The items of a container at the positions it has are those it had. *)
LEMMA ItemsStay ==
  ASSUME NEW m \in MemSet, NEW m1, NEW held, Grows(m, m1, held), NEW a, ContainerAt(m, a)
  PROVE  /\ m.heap[a].count \in Nat
         /\ m1.heap[a].count = m.heap[a].count \/ m1.heap[a].count = m.heap[a].count + 1
         /\ \A i \in 1..m.heap[a].count : ItemsOf(m1, a)[i] = ItemsOf(m, a)[i]
<1>1. m.heap[a].count \in Nat  BY MemFields DEF ContainerAt
<1> QED  BY <1>1 DEF Grows, SameItems, OneMore

(* The key of an item of a map has its text for good. *)
LEMMA KeysStay ==
  ASSUME NEW m, HeapSound(m), NEW m1, NEW held, Grows(m, m1, held),
         NEW a, a \in Addr(m), m.heap[a].type = "MAP",
         NEW i \in 1..m.heap[a].count
  PROVE  m1.heap[ItemsOf(m1, a)[i].key].text = m.heap[ItemsOf(m, a)[i].key].text
<1> DEFINE p == m.heap[a].ptr
<1>1. ContainerAt(m, a) /\ m \in MemSet  BY DEF ContainerAt, IsContainer, HeapSound
<1>2. /\ p \in Addr(m) /\ DOMAIN m.heap[p].slots = 0..(m.heap[a].count - 1)
      /\ m.heap[a].count \in Nat
  BY <1>1, MemFields DEF HeapSound, ArraysSound, FitsArray, ArrayAt, ContainerAt
<1>3. i - 1 \in DOMAIN m.heap[p].slots  BY <1>2
<1>4. ItemsOf(m, a)[i] = m.heap[p].slots[i - 1]  BY DEF ItemsOf
<1>5. m.heap[p].slots[i - 1].key # NULL
  BY <1>1, <1>3 DEF HeapSound, ArraysSound, FitsArray, Keyed, ContainerAt
<1>6. StringAt(m, ItemsOf(m, a)[i].key)
  BY <1>2, <1>3, <1>4, <1>5 DEF HeapSound, SlotsSound, SlotSound
<1>7. ItemsOf(m1, a)[i] = ItemsOf(m, a)[i]  BY <1>1, ItemsStay
<1> QED  BY <1>6, <1>7 DEF Grows, KindsKept, StringAt

(* What is found under a key stays found. *)
LEMMA GetStays ==
  ASSUME NEW m, HeapSound(m), NEW m1, NEW held, Grows(m, m1, held),
         NEW a \in Addr(m), NEW key, a # NULL,
         m.heap[a].type = "MAP", Matches(m, a, key) # {}
  PROVE  partfx_get(m1, a, key) = partfx_get(m, a, key)
<1> DEFINE S == Matches(m, a, key)
           T == Matches(m1, a, key)
           n == m.heap[a].count
<1>1. ContainerAt(m, a) /\ m \in MemSet  BY DEF ContainerAt, IsContainer, HeapSound
<1>2. /\ n \in Nat /\ m1.heap[a].count \in {n, n + 1}
      /\ \A i \in 1..n : ItemsOf(m1, a)[i] = ItemsOf(m, a)[i]
  BY <1>1, ItemsStay
<1>3. S \subseteq 1..n /\ T \subseteq 1..(n + 1)  BY <1>2 DEF Matches
<1>4. \A i \in 1..n : i \in S <=> i \in T
  <2> SUFFICES ASSUME NEW i \in 1..n PROVE i \in S <=> i \in T  OBVIOUS
  <2>1. m1.heap[ItemsOf(m1, a)[i].key].text = m.heap[ItemsOf(m, a)[i].key].text
    BY KeysStay
  <2>2. i \in 1..m1.heap[a].count  BY <1>2
  <2> QED  BY <2>1, <2>2 DEF Matches
<1>5. m1.heap[a].type = "MAP"  BY DEF Grows, KindsKept
<1>6. /\ partfx_get(m, a, key) = ItemsOf(m, a)[Min(S)].value
      /\ T # {} => partfx_get(m1, a, key) = ItemsOf(m1, a)[Min(T)].value
  BY <1>5 DEF partfx_get, HasType
<1> HIDE DEF S, T, n
<1>7. S \subseteq Nat /\ T \subseteq Nat /\ S # {}  BY <1>2, <1>3 DEF S
<1>8. Min(S) \in S /\ \A y \in S : Min(S) <= y  BY <1>7, LeastExists
<1>9. Min(S) \in T /\ \A y \in T : Min(S) <= y
  <2>1. Min(S) \in 1..n  BY <1>3, <1>8
  <2> QED  BY <1>2, <1>3, <1>4, <1>8, <2>1
<1>10. Min(T) = Min(S)  BY <1>7, <1>9, LeastIs
<1> QED  BY <1>2, <1>3, <1>6, <1>8, <1>9, <1>10

-------------------------------------------------------------------------------
(* The shape of what is in the arena. *)

(* Container a of m holds c as its item i. *)
Holds(m, a, i, c) ==
  ContainerAt(m, a) /\ i \in 1..m.heap[a].count /\ ItemsOf(m, a)[i].value = c

TreeSound(m) ==
  /\ \A a, i, c : Holds(m, a, i, c) => c > a
  /\ \A a, b, i, j, c : Holds(m, a, i, c) /\ Holds(m, b, j, c) => a = b /\ i = j
  /\ \A c : NodeAt(m, c) /\ c # 0 => \E a, i : Holds(m, a, i, c)

LEMMA HeldIsNode ==
  ASSUME NEW m, HeapSound(m), NEW a, NEW i, NEW c, Holds(m, a, i, c)
  PROVE  NodeAt(m, c)
<1> DEFINE p == m.heap[a].ptr
<1>1. ContainerAt(m, a) /\ m \in MemSet /\ i \in 1..m.heap[a].count
  BY DEF Holds, HeapSound
<1>2. /\ p \in Addr(m) /\ DOMAIN m.heap[p].slots = 0..(m.heap[a].count - 1)
      /\ m.heap[a].count \in Nat
  BY <1>1, MemFields DEF HeapSound, ArraysSound, FitsArray, ArrayAt, ContainerAt
<1>3. i - 1 \in DOMAIN m.heap[p].slots  BY <1>1, <1>2
<1>4. c = m.heap[p].slots[i - 1].value  BY <1>1 DEF ItemsOf, Holds
<1> QED  BY <1>2, <1>3, <1>4 DEF HeapSound, SlotsSound, SlotSound

LEMMA SameHolds ==
  ASSUME NEW m, NEW m1, NEW a, ContainerAt(m, a), ContainerAt(m1, a), SameItems(m, m1, a)
  PROVE  \A i, c : Holds(m1, a, i, c) <=> Holds(m, a, i, c)
BY DEF Holds, SameItems

(* A memory that gets strings and arrays only, and no items, keeps its shape. *)
LEMMA TreeKept ==
  ASSUME NEW m, TreeSound(m), NEW m1,
         KindsKept(m, m1), ItemsKept(m, m1), NoNewNodes(m, m1)
  PROVE  TreeSound(m1)
<1>1. \A a : ContainerAt(m1, a) <=> ContainerAt(m, a)
  <2>1. \A a : ContainerAt(m, a) => ContainerAt(m1, a)  BY KindsKeptAt
  <2>2. \A a : ContainerAt(m1, a) => ContainerAt(m, a)
    BY DEF NoNewNodes, NodeAt, NodeTypes, ContainerAt, IsContainer, KindsKept
  <2> QED  BY <2>1, <2>2
<1>2. \A a, i, c : Holds(m1, a, i, c) <=> Holds(m, a, i, c)
  BY <1>1, SameHolds DEF ItemsKept, Holds
<1>3. \A c : NodeAt(m1, c) => NodeAt(m, c)  BY DEF NoNewNodes
<1> QED  BY <1>2, <1>3 DEF TreeSound

(* The first node: it stands alone, at the start of the arena. *)
LEMMA FirstNode ==
  ASSUME NEW m, NEW type, NodeMade(EmptyMem, m, type)
  PROVE  TreeSound(m)
<1>1. EmptyMem.next = 0 /\ Addr(EmptyMem) = {}  BY EmptyMemSound DEF EmptyMem
<1>2. \A c : NodeAt(m, c) => c = 0
  BY <1>1 DEF NodeMade, NodeAt, NodeTypes
<1>3. \A c : ContainerAt(m, c) => m.heap[c].count = 0
  BY <1>1, <1>2 DEF NodeMade, ContainerAt, IsContainer, NodeAt, NodeTypes
<1>4. \A a, i, c : ~Holds(m, a, i, c)  BY <1>3 DEF Holds
<1> QED  BY <1>2, <1>4 DEF TreeSound

(* A node that is made and added to a container becomes its last child. *)
LEMMA ChildHeld ==
  ASSUME NEW m, HeapSound(m), NEW m1, NEW type, NodeMade(m, m1, type),
         NEW node, ContainerAt(m, node),
         NEW m2, KindsKept(m1, m2), NoNewNodes(m1, m2), ItemAdded(m1, m2, node, m.next)
  PROVE  /\ \A c : NodeAt(m2, c) => NodeAt(m, c) \/ c = m.next
         /\ \A a, i, c :
              Holds(m2, a, i, c) <=>
                \/ Holds(m, a, i, c)
                \/ a = node /\ i = m.heap[node].count + 1 /\ c = m.next
<1> DEFINE n == m.heap[node].count
<1>1. /\ BlocksKept(m, m1) /\ KindsKept(m, m1) /\ ItemsKept(m, m1)
      /\ m \in MemSet /\ m.next \notin Addr(m)
  BY BlocksKeptItems DEF NodeMade, HeapSound
<1>2. n \in Nat  BY <1>1, MemFields DEF ContainerAt
<1>3. KindsKept(m, m2) /\ ItemAdded(m, m2, node, m.next)
  BY <1>1, KindsKeptTwice, ItemAddedAfter
<1>4. ASSUME NEW c, NodeAt(m2, c)
      PROVE  NodeAt(m1, c) /\ (NodeAt(m, c) \/ c = m.next)
  <2>1. NodeAt(m1, c)  BY <1>4 DEF NoNewNodes
  <2>2. c \in Addr(m) \/ c = m.next  BY <2>1 DEF NodeMade, NodeAt, NodeTypes
  <2>3. c \in Addr(m) => NodeAt(m, c)  BY <1>1, <2>1 DEF NodeAt, KindsKept
  <2> QED  BY <2>1, <2>2, <2>3
<1>5. ASSUME NEW a, ContainerAt(m2, a), a # m.next
      PROVE  ContainerAt(m, a)
  <2>1. NodeAt(m2, a)  BY <1>5 DEF ContainerAt, NodeAt, NodeTypes, IsContainer
  <2>2. NodeAt(m, a)  BY <1>4, <1>5, <2>1
  <2> QED  BY <1>3, <1>5, <2>2 DEF ContainerAt, NodeAt, KindsKept, IsContainer
<1>6. ASSUME NEW i, NEW c
      PROVE  ~Holds(m2, m.next, i, c)
  <2>1. SUFFICES ASSUME ContainerAt(m2, m.next) PROVE m2.heap[m.next].count = 0
    BY DEF Holds
  <2>2. m.next # node  BY <1>1 DEF ContainerAt
  <2>3. NodeAt(m2, m.next)  BY <2>1 DEF ContainerAt, NodeAt, NodeTypes, IsContainer
  <2>4. NodeAt(m1, m.next)  BY <1>4, <2>3
  <2>5. ContainerAt(m1, m.next)
    BY <2>1, <2>4 DEF KindsKept, ContainerAt, NodeAt, IsContainer
  <2>6. m2.heap[m.next].count = m1.heap[m.next].count
    BY <2>2, <2>5 DEF ItemAdded, SameItems
  <2> QED  BY <2>5, <2>6 DEF NodeMade, ContainerAt
<1>7. ASSUME NEW a, a # m.next, a # node, NEW i, NEW c
      PROVE  Holds(m2, a, i, c) <=> Holds(m, a, i, c)
  <2>1. ContainerAt(m, a) => ContainerAt(m2, a)  BY <1>3, KindsKeptAt
  <2>2. ContainerAt(m, a) => SameItems(m, m2, a)  BY <1>3, <1>7 DEF ItemAdded
  <2> QED  BY <1>5, <1>7, <2>1, <2>2, SameHolds DEF Holds
<1>8. ASSUME NEW i, NEW c
      PROVE  Holds(m2, node, i, c) <=>
               Holds(m, node, i, c) \/ (i = n + 1 /\ c = m.next)
  <2>1. ContainerAt(m2, node)  BY <1>3, KindsKeptAt
  <2>2. /\ m2.heap[node].count = n + 1
        /\ \A k \in 1..n : ItemsOf(m2, node)[k] = ItemsOf(m, node)[k]
        /\ ItemsOf(m2, node)[n + 1].value = m.next
    BY <1>3 DEF ItemAdded, OneMore
  <2>3. i \in 1..(n + 1) <=> i \in 1..n \/ i = n + 1  BY <1>2
  <2>4. ~(n + 1 \in 1..n)  BY <1>2
  <2> HIDE DEF n
  <2> QED  BY <2>1, <2>2, <2>3, <2>4 DEF Holds, n
<1>9. \A i, c : ~Holds(m, m.next, i, c)  BY <1>1 DEF Holds, ContainerAt
<1>10. node # m.next  BY <1>1 DEF ContainerAt
<1>11. \A a, i, c :
         Holds(m2, a, i, c) <=>
           Holds(m, a, i, c) \/ (a = node /\ i = n + 1 /\ c = m.next)
  BY <1>6, <1>7, <1>8, <1>9, <1>10
<1> QED  BY <1>4, <1>11

LEMMA ChildAdded ==
  ASSUME NEW m, HeapSound(m), TreeSound(m), NEW m1, NEW type, NodeMade(m, m1, type),
         NEW node, ContainerAt(m, node),
         NEW m2, KindsKept(m1, m2), NoNewNodes(m1, m2), ItemAdded(m1, m2, node, m.next)
  PROVE  TreeSound(m2)
<1> DEFINE n == m.heap[node].count
<1>1. /\ \A c : NodeAt(m2, c) => NodeAt(m, c) \/ c = m.next
      /\ \A a, i, c :
           Holds(m2, a, i, c) <=>
             Holds(m, a, i, c) \/ (a = node /\ i = n + 1 /\ c = m.next)
  BY ChildHeld
<1>2. m.next > node
  <2>1. /\ m.next \in Nat /\ node \in Nat /\ m.heap[node].size \in Nat \ {0}
        /\ node + m.heap[node].size <= m.next
    BY MemFields DEF HeapSound, Apart, ContainerAt
  <2> QED  BY <2>1
<1>3. \A a, i : ~Holds(m, a, i, m.next)  BY HeldIsNode DEF NodeMade, NodeAt
<1> HIDE DEF n
<1>4. \A a, i, c : Holds(m2, a, i, c) => c > a  BY <1>1, <1>2 DEF TreeSound
<1>5. \A a, b, i, j, c : Holds(m2, a, i, c) /\ Holds(m2, b, j, c) => a = b /\ i = j
  BY <1>1, <1>3 DEF TreeSound
<1>6. \A c : NodeAt(m2, c) /\ c # 0 => \E a, i : Holds(m2, a, i, c)
  BY <1>1 DEF TreeSound
<1> QED  BY <1>4, <1>5, <1>6 DEF TreeSound

LEMMA EmptyTree == TreeSound(EmptyMem)
BY EmptyMemSound DEF TreeSound, Holds, ContainerAt, NodeAt

(* The parser's stack is as deep as libyaml's, so that a node without a    *)
(* container to go to is the first one of the arena.                       *)
ShapeInv ==
  /\ TreeSound(mem)
  /\ status \in {"cold", "ready"} => mem = EmptyMem
  /\ status = "parsing" =>
       /\ Len(stack) = Len(open)
       /\ stage = "content" <=> open # <<>>
       /\ stage \in {"stream", "document", "root"} => mem = EmptyMem

LEMMA HaltShape ==
  ASSUME NEW how \in {"aborted", "undefined"}, Halt(how)
  PROVE  ShapeInv'
BY EmptyTree DEF Halt, ShapeInv

LEMMA CommitShape ==
  ASSUME status = "parsing", NEW m, TreeSound(m), NEW s, NEW r, Commit(m, s, r),
         Len(s) = Len(open'), stage' = "content", open' # <<>>
  PROVE  ShapeInv'
<1>1. CASE Halt("aborted")  BY <1>1, HaltShape
<1>2. CASE mem' = m /\ stack' = s /\ status' = status  BY <1>2 DEF ShapeInv
<1> QED  BY <1>1, <1>2 DEF Commit

LEMMA RootMeansEmpty ==
  ASSUME IInv, ShapeInv, status = "parsing", Yaml!ContainerAllowed
  PROVE  AtRoot => mem = EmptyMem
<1>1. stack \in Seq(Context) /\ open \in Seq(Positions) /\ Len(stack) = Len(open)
  BY DEF IInv, StackSound, Yaml!TypeOK, ShapeInv, Positions
<1>2. AtRoot => open = <<>>  BY <1>1 DEF AtRoot
<1> QED  BY <1>2 DEF ShapeInv, Yaml!ContainerAllowed

LEMMA OpenContainerShape ==
  ASSUME IInv, ShapeInv, status = "parsing", Yaml!ContainerAllowed,
         NEW type \in {"MAP", "SEQUENCE"}, NEW m, NodeMade(mem, m, type),
         NEW p \in Positions, stage' = "content", open' = Append(Yaml!Placed, p),
         NEW r, OpenContainer(m, r)
  PROVE  ShapeInv'
<1>1. CASE Halt("aborted") \/ Halt("undefined")  BY <1>1, HaltShape
<1>2. CASE /\ ~KeyMissing
           /\ Commit(Opened(m), Append(KeyConsumed, OpenedContext(m)), r)
  <2>1. TreeSound(Opened(m))
    <3>1. CASE AtRoot  BY <3>1, RootMeansEmpty, FirstNode DEF Opened
    <3>2. CASE ~AtRoot
      <4>1. HeapSound(m) /\ KindsKept(mem, m) /\ NodeAt(m, mem.next)
        BY DEF NodeMade, NodeAt, NodeTypes
      <4>2. /\ KindsKept(m, Opened(m)) /\ NoNewNodes(m, Opened(m))
            /\ ItemAdded(m, Opened(m), Top.node, mem.next)
        BY <1>2, <3>2, <4>1, AddToTopSound DEF Opened
      <4>3. ContainerAt(mem, Top.node)  BY <3>2, TopHeld
      <4> QED  BY <4>2, <4>3, ChildAdded DEF IInv, ShapeInv
    <3> QED  BY <3>1, <3>2
  <2>2. StackSound(mem, KeyConsumed) /\ Len(KeyConsumed) = Len(stack)
    BY KeyConsumedSound DEF IInv
  <2>3. Yaml!Placed \in Seq(Positions) /\ Len(Yaml!Placed) = Len(open)
    BY PlacedType DEF IInv, Yaml!TypeOK, Positions
  <2>4. OpenedContext(m) \in Context  BY <1>2, OpenedSound
  <2>5. Len(Append(KeyConsumed, OpenedContext(m))) = Len(stack) + 1
    BY <2>2, <2>4 DEF StackSound
  <2>6. Len(open') = Len(open) + 1 /\ open' # <<>>  BY <2>3
  <2>7. Len(stack) = Len(open)  BY DEF ShapeInv
  <2> QED  BY <1>2, <2>1, <2>5, <2>6, <2>7, CommitShape
<1> QED  BY <1>1, <1>2 DEF OpenContainer, Opened, OpenedContext

LEMMA ScalarShape ==
  ASSUME IInv, ShapeInv, NEW text \in Texts, Scalar(text)
  PROVE  ShapeInv'
<1>1. status = "parsing" /\ Yaml!Scalar(text)  BY DEF Scalar
<1>2. stack \in Seq(Context) /\ open \in Seq(Positions) /\ Len(stack) = Len(open)
  BY <1>1 DEF IInv, StackSound, Yaml!TypeOK, ShapeInv, Positions
<1>3. ASSUME ~AtRoot
      PROVE  stage' = "content" /\ Len(open') = Len(open) /\ open' # <<>>
  <2>1. open # <<>>  BY <1>2, <1>3 DEF AtRoot
  <2>2. stage' = "content" /\ open' = Yaml!Placed
    BY <1>1, <2>1 DEF ShapeInv, Yaml!Scalar
  <2>3. open' \in Seq(Positions) /\ Len(open') = Len(open)
    BY <1>2, <2>2, PlacedType
  <2> QED  BY <1>2, <2>1, <2>2, <2>3
<1>4. CASE ScalarAtRoot  BY <1>4, HaltShape DEF ScalarAtRoot
<1>5. CASE ScalarIsKey(text)
  <2> DEFINE m == arena_strdup(mem, text)
  <2>1. ~AtRoot /\ Commit(m, SetTop(mem.next, FALSE), root)
    BY <1>5 DEF ScalarIsKey, InMap
  <2>2. BlocksKept(mem, m) /\ KindsKept(mem, m) /\ NoNewNodes(mem, m)
    BY StrdupSound DEF IInv
  <2> HIDE DEF m
  <2>3. TreeSound(m)  BY <2>2, BlocksKeptItems, TreeKept DEF IInv, ShapeInv
  <2>4. Len(SetTop(mem.next, FALSE)) = Len(stack)  BY <1>2 DEF SetTop
  <2> QED  BY <1>1, <1>2, <1>3, <2>1, <2>3, <2>4, CommitShape
<1>6. CASE ScalarIsValue(text)
  <2> DEFINE m  == parse_scalar(mem, text)
             m1 == AddToTop(m, mem.next)
  <2>1. ~AtRoot /\ (InMap => ~Top.is_key_next) /\ Commit(m1, KeyConsumed, root)
    BY <1>6 DEF ScalarIsValue
  <2>2. NodeMade(mem, m, ScalarType[text])  BY ScalarMade DEF IInv
  <2> HIDE DEF m
  <2>3. HeapSound(m) /\ KindsKept(mem, m) /\ NodeAt(m, mem.next)
    <3>1. ScalarType[text] \in NodeTypes  BY HeapAssumption DEF NodeTypes
    <3> QED  BY <2>2, <3>1 DEF NodeMade, NodeAt
  <2>4. /\ KindsKept(m, m1) /\ NoNewNodes(m, m1)
        /\ ItemAdded(m, m1, Top.node, mem.next)
    BY <2>1, <2>3, KeyPending, AddToTopSound
  <2> HIDE DEF m1
  <2>5. ContainerAt(mem, Top.node)  BY <2>1, TopHeld
  <2>6. TreeSound(m1)  BY <2>2, <2>4, <2>5, ChildAdded DEF IInv, ShapeInv
  <2>7. Len(KeyConsumed) = Len(stack)  BY KeyConsumedSound DEF IInv
  <2> QED  BY <1>1, <1>2, <1>3, <2>1, <2>6, <2>7, CommitShape
<1> QED  BY <1>4, <1>5, <1>6 DEF Scalar

(* A sequence without its last element. *)
LEMMA ShortenedLen ==
  ASSUME NEW S, NEW s \in Seq(S), s # <<>>
  PROVE  /\ SubSeq(s, 1, Len(s) - 1) \in Seq(S)
         /\ Len(SubSeq(s, 1, Len(s) - 1)) = Len(s) - 1
<1> DEFINE n == Len(s) - 1
           t == SubSeq(s, 1, n)
<1>1. n \in Nat /\ n <= Len(s)
  <2>1. Len(s) \in Nat \ {0}  OBVIOUS
  <2> QED  BY <2>1
<1> HIDE DEF n
<1>2. t \in Seq(S)  BY <1>1
<1>3. DOMAIN t = 1..n  BY <1>1
<1>4. DOMAIN t = 1..Len(t) /\ Len(t) \in Nat  BY <1>2
<1> HIDE DEF t
<1>5. Len(t) = n  BY <1>1, <1>3, <1>4
<1> QED  BY <1>2, <1>5 DEF n, t

LEMMA EmptyLen ==
  ASSUME NEW S, NEW s \in Seq(S)
  PROVE  s = <<>> <=> Len(s) = 0
OBVIOUS

LEMMA ContainerEndShape ==
  ASSUME IInv, ShapeInv, ContainerEnd
  PROVE  ShapeInv'
<1>1. /\ status = "parsing" /\ stage = "content" /\ open # <<>>
      /\ open' = SubSeq(open, 1, Len(open) - 1)
      /\ stage' = IF Len(open) = 1 THEN "closed" ELSE "content"
      /\ stack' = SubSeq(stack, 1, Len(stack) - 1)
      /\ mem' = mem /\ status' = status /\ Len(stack) = Len(open)
  BY DEF ContainerEnd, Yaml!MappingEnd, Yaml!SequenceEnd, Yaml!ContainerEnd, ShapeInv
<1>2. open \in Seq(Positions) /\ stack \in Seq(Context)
  BY DEF IInv, Yaml!TypeOK, StackSound, Positions
<1>3. stack # <<>>  BY <1>1, <1>2
<1>4. open' \in Seq(Positions) /\ Len(open') = Len(open) - 1
  BY <1>1, <1>2, ShortenedLen
<1>5. Len(stack') = Len(stack) - 1  BY <1>1, <1>2, <1>3, ShortenedLen
<1>6. Len(open) \in Nat \ {0}  BY <1>1, <1>2
<1>7. open' = <<>> <=> Len(open') = 0  BY <1>4, EmptyLen
<1>8. open' = <<>> <=> Len(open) = 1  BY <1>4, <1>6, <1>7
<1> QED  BY <1>1, <1>4, <1>5, <1>8 DEF ShapeInv

LEMMA ShapeStep ==
  ASSUME IInv, ShapeInv, [Next]_vars
  PROVE  ShapeInv'
<1> USE DEF ShapeInv
<1>1. CASE partfx_init
  <2>1. CASE Halt("aborted")  BY <2>1, HaltShape
  <2>2. CASE status' = "ready" /\ mem' = EmptyMem  BY <2>2, EmptyTree
  <2> QED  BY <1>1, <2>1, <2>2 DEF partfx_init
<1>2. CASE partfx_reset \/ partfx_delete
  BY <1>2, EmptyTree DEF partfx_reset, partfx_delete
<1>3. CASE BeginFails  BY <1>3 DEF BeginFails
<1>4. CASE Begin
  <2>1. stack = <<>>  BY <1>4 DEF Begin, IInv
  <2> QED  BY <1>4, <2>1 DEF Begin, Yaml!Restart
<1>5. CASE MappingStart
  <2>1. /\ status = "parsing" /\ Yaml!ContainerAllowed
        /\ stage' = "content" /\ open' = Append(Yaml!Placed, "key")
        /\ OpenContainer(create_map_node(mem), IF AtRoot THEN mem.next ELSE root)
    BY <1>5 DEF MappingStart, Yaml!MappingStart
  <2>2. NodeMade(mem, create_map_node(mem), "MAP")  BY MapMade DEF IInv
  <2> QED  BY <2>1, <2>2, OpenContainerShape DEF Positions
<1>6. CASE SequenceStart
  <2>1. /\ status = "parsing" /\ Yaml!ContainerAllowed
        /\ stage' = "content" /\ open' = Append(Yaml!Placed, "item")
        /\ OpenContainer(create_sequence_node(mem), root)
    BY <1>6 DEF SequenceStart, Yaml!SequenceStart
  <2>2. NodeMade(mem, create_sequence_node(mem), "SEQUENCE")
    BY SequenceMade DEF IInv
  <2> QED  BY <2>1, <2>2, OpenContainerShape DEF Positions
<1>7. CASE \E text \in Texts : Scalar(text)  BY <1>7, ScalarShape
<1>8. CASE ContainerEnd  BY <1>8, ContainerEndShape
<1>9. CASE Ignored
  <2>1. CASE Yaml!StreamStart \/ Yaml!DocumentStart
    BY <1>9, <2>1 DEF Ignored, Yaml!StreamStart, Yaml!DocumentStart
  <2>2. CASE Yaml!Alias
    <3>1. /\ status = "parsing" /\ stage = "content" /\ stage' = stage
          /\ open' = Yaml!Placed
          /\ mem' = mem /\ status' = status /\ stack' = stack
      BY <1>9, <2>2 DEF Ignored, Yaml!Alias
    <3>2. open \in Seq(Positions) /\ open # <<>>
      BY <3>1 DEF IInv, Yaml!TypeOK, Positions
    <3>3. open' \in Seq(Positions) /\ Len(open') = Len(open)
      BY <3>1, <3>2, PlacedType
    <3>4. open' # <<>>  BY <3>2, <3>3
    <3> QED  BY <3>1, <3>3, <3>4
  <2> QED  BY <1>9, <2>1, <2>2 DEF Ignored
<1>10. CASE Finish \/ Fail  BY <1>10 DEF Finish, Fail
<1>11. CASE UNCHANGED vars  BY <1>11 DEF vars
<1> QED
  BY <1>1, <1>2, <1>3, <1>4, <1>5, <1>6, <1>7, <1>8, <1>9, <1>10, <1>11
  DEF Next, HandleEvent

LEMMA ShapeInductive == Spec => [](IInv /\ ShapeInv)
<1>1. Init => IInv /\ ShapeInv  BY InitSound, EmptyTree DEF Init, ShapeInv
<1>2. IInv /\ ShapeInv /\ [Next]_vars => (IInv /\ ShapeInv)'
  BY StepSound, ShapeStep
<1> QED  BY <1>1, <1>2, PTL DEF Spec

-------------------------------------------------------------------------------
(* The parser and libyaml in step, for documents without aliases, container *)
(* keys and scalar roots.                                                   *)

(* A context and the position of the next node in the container it is for. *)
InStep(m, c, position) ==
  /\ c.is_key_next <=> position = "key"
  /\ c.key # NULL <=> position = "value"
  /\ m.heap[c.node].type = "MAP" <=> position # "item"

Aligned(m, s, o) ==
  /\ Len(s) = Len(o)
  /\ \A i \in DOMAIN s : InStep(m, s[i], o[i])

PhaseInv ==
  /\ status = "parsing" =>
       /\ stage = "content" <=> open # <<>>
       /\ Aligned(mem, stack, open)
  /\ status # "undefined"

LEMMA AlignedKept ==
  ASSUME NEW m, NEW m1, KindsKept(m, m1), NEW s, StackSound(m, s), NEW o,
         Aligned(m, s, o)
  PROVE  Aligned(m1, s, o)
BY DEF Aligned, InStep, StackSound, ContextSound, ContainerAt, KindsKept

LEMMA AlignedTop ==
  ASSUME IInv, Aligned(mem, stack, open)
  PROVE  /\ AtRoot <=> open = <<>>
         /\ ~AtRoot => InStep(mem, Top, Yaml!Position) /\ Yaml!Position \in Positions
<1>1. /\ stack \in Seq(Context) /\ open \in Seq(Positions) /\ Len(stack) = Len(open)
  BY DEF IInv, StackSound, Yaml!TypeOK, Aligned, Positions
<1>2. AtRoot <=> open = <<>>  BY <1>1 DEF AtRoot
<1>3. ASSUME ~AtRoot
      PROVE  InStep(mem, Top, Yaml!Position) /\ Yaml!Position \in Positions
  <2>1. Len(stack) \in DOMAIN stack /\ Len(open) \in DOMAIN open
    BY <1>1, <1>3 DEF AtRoot
  <2> QED  BY <1>1, <2>1 DEF Aligned, Top, Yaml!Position
<1> QED  BY <1>2, <1>3

LEMMA AlignedPush ==
  ASSUME NEW m, NEW s \in Seq(Context), NEW o \in Seq(Positions), Aligned(m, s, o),
         NEW c \in Context, NEW p \in Positions, InStep(m, c, p)
  PROVE  Aligned(m, Append(s, c), Append(o, p))
<1>1. Len(s) = Len(o)  BY DEF Aligned
<1>2. Len(Append(s, c)) = Len(Append(o, p))  BY <1>1
<1>3. ASSUME NEW i \in DOMAIN Append(s, c)
      PROVE  InStep(m, Append(s, c)[i], Append(o, p)[i])
  <2>1. CASE i = Len(s) + 1
    <3>1. Append(s, c)[i] = c /\ Append(o, p)[i] = p  BY <1>1, <2>1
    <3> QED  BY <3>1
  <2>2. CASE i # Len(s) + 1
    <3>1. i \in DOMAIN s /\ Append(s, c)[i] = s[i] /\ Append(o, p)[i] = o[i]
      BY <1>1, <1>3, <2>2
    <3> QED  BY <3>1 DEF Aligned
  <2> QED  BY <2>1, <2>2
<1> QED  BY <1>2, <1>3 DEF Aligned

LEMMA AlignedPop ==
  ASSUME NEW m, NEW s \in Seq(Context), NEW o \in Seq(Positions), Aligned(m, s, o)
  PROVE  Aligned(m, SubSeq(s, 1, Len(s) - 1), SubSeq(o, 1, Len(o) - 1))
<1> DEFINE t == SubSeq(s, 1, Len(s) - 1)
           u == SubSeq(o, 1, Len(o) - 1)
<1>1. Len(s) = Len(o)  BY DEF Aligned
<1>2. Len(t) = Len(u)  BY <1>1
<1>3. \A i \in DOMAIN t : i \in DOMAIN s /\ t[i] = s[i] /\ u[i] = o[i]  BY <1>1
<1> HIDE DEF t, u
<1>4. Aligned(m, t, u)  BY <1>2, <1>3 DEF Aligned
<1> QED  BY <1>4 DEF t, u

LEMMA AlignedSetTop ==
  ASSUME NEW m, StackSound(m, stack), open \in Seq(Positions), Aligned(m, stack, open),
         ~AtRoot, NEW k \in Int, NEW b \in BOOLEAN, NEW p \in Positions,
         InStep(m, [node |-> Top.node, key |-> k, is_key_next |-> b], p)
  PROVE  Aligned(m, SetTop(k, b), [open EXCEPT ![Len(open)] = p])
<1> DEFINE c == [node |-> Top.node, key |-> k, is_key_next |-> b]
           s == [stack EXCEPT ![Len(stack)] = c]
           o == [open EXCEPT ![Len(open)] = p]
<1>1. stack \in Seq(Context) /\ Len(stack) = Len(open) /\ Len(stack) \in DOMAIN stack
  BY DEF StackSound, Aligned, AtRoot
<1>2. Top \in Context  BY TopSound
<1>3. c \in Context  BY <1>2 DEF Context
<1> HIDE DEF c
<1>4. /\ Len(s) = Len(stack) /\ DOMAIN s = DOMAIN stack
      /\ s[Len(stack)] = c
      /\ \A i \in DOMAIN stack : i # Len(stack) => s[i] = stack[i]
  BY <1>1, <1>3
<1>5. /\ Len(o) = Len(open) /\ o[Len(open)] = p
      /\ \A i \in DOMAIN stack : i # Len(stack) => o[i] = open[i]
  BY <1>1
<1> HIDE DEF s, o
<1>6. \A i \in DOMAIN s : InStep(m, s[i], o[i])
  BY <1>1, <1>4, <1>5 DEF Aligned, c
<1>7. Aligned(m, s, o)  BY <1>1, <1>4, <1>5, <1>6 DEF Aligned
<1> QED  BY <1>7 DEF s, o, c, SetTop

(* A node that is no key leaves the parser and libyaml in step. *)
LEMMA AlignedConsumed ==
  ASSUME IInv, Aligned(mem, stack, open), ~AtRoot => Yaml!Position # "key"
  PROVE  Aligned(mem, KeyConsumed, Yaml!Placed)
<1>1. open \in Seq(Positions) /\ StackSound(mem, stack)
  BY DEF IInv, Yaml!TypeOK, Positions
<1>2. CASE AtRoot
  <2>1. KeyConsumed = stack /\ Yaml!Placed = open
    BY <1>2, AlignedTop DEF KeyConsumed, InMap, Yaml!Placed, Yaml!Inside
  <2> QED  BY <2>1
<1>3. CASE ~AtRoot
  <2>1. /\ open # <<>> /\ InStep(mem, Top, Yaml!Position)
        /\ Yaml!Position \in {"value", "item"}
    BY <1>3, AlignedTop DEF Positions
  <2>2. Yaml!Placed = [open EXCEPT ![Len(open)] = Yaml!NextPosition[Yaml!Position]]
    BY <2>1 DEF Yaml!Placed, Yaml!Inside, Yaml!Position
  <2>3. CASE Yaml!Position = "value"
    <3>1. InMap  BY <1>3, <2>1, <2>3 DEF InMap, InStep
    <3>2. Yaml!Placed = [open EXCEPT ![Len(open)] = "key"]
      BY <2>2, <2>3 DEF Yaml!NextPosition
    <3>3. InStep(mem, [node |-> Top.node, key |-> NULL, is_key_next |-> TRUE], "key")
      BY <3>1 DEF InStep, InMap
    <3>4. Aligned(mem, SetTop(NULL, TRUE), [open EXCEPT ![Len(open)] = "key"])
      <4>1. NULL \in Int /\ TRUE \in BOOLEAN /\ "key" \in Positions
        BY DEF NULL, Positions
      <4> QED  BY <1>1, <1>3, <3>3, <4>1, AlignedSetTop, Zenon
    <3> QED  BY <3>1, <3>2, <3>4 DEF KeyConsumed
  <2>4. CASE Yaml!Position = "item"
    <3>1. ~InMap  BY <2>1, <2>4 DEF InMap, InStep
    <3>2. Yaml!Placed = open
      BY <1>1, <2>1, <2>2, <2>4 DEF Yaml!NextPosition, Yaml!Position
    <3> QED  BY <3>1, <3>2 DEF KeyConsumed
  <2> QED  BY <2>1, <2>3, <2>4
<1> QED  BY <1>2, <1>3

LEMMA CommitInStep ==
  ASSUME status = "parsing", NEW m, NEW s, NEW r, Commit(m, s, r),
         (stage = "content" <=> open # <<>>)', Aligned(m, s, open')
  PROVE  PhaseInv'
BY DEF Commit, Halt, PhaseInv

LEMMA OpenContainerInStep ==
  ASSUME IInv, PhaseInv, status = "parsing", Yaml!TypeOK',
         ~AtRoot => Yaml!Position # "key",
         NEW type \in {"MAP", "SEQUENCE"}, NEW m, NodeMade(mem, m, type),
         NEW p, p = IF type = "MAP" THEN "key" ELSE "item",
         stage' = "content", open' = Append(Yaml!Placed, p),
         NEW r, OpenContainer(m, r)
  PROVE  PhaseInv'
<1>1. Aligned(mem, stack, open)  BY DEF PhaseInv
<1>2. ~KeyMissing
  BY <1>1, AlignedTop DEF KeyMissing, InMap, InStep, Positions
<1>3. CASE Halt("aborted")  BY <1>3 DEF Halt, PhaseInv
<1>4. CASE Commit(Opened(m), Append(KeyConsumed, OpenedContext(m)), r)
  <2>1. /\ KindsKept(mem, Opened(m)) /\ OpenedContext(m) \in Context
    BY <1>2, OpenedSound
  <2>2. InStep(Opened(m), OpenedContext(m), p)
    BY <1>2, OpenedSound DEF InStep
  <2>3. StackSound(mem, KeyConsumed)  BY KeyConsumedSound DEF IInv
  <2>4. Aligned(Opened(m), KeyConsumed, Yaml!Placed)
    BY <1>1, <2>1, <2>3, AlignedConsumed, AlignedKept
  <2>5. Yaml!Placed \in Seq(Positions) /\ p \in Positions
    BY PlacedType DEF IInv, Yaml!TypeOK, Positions
  <2>6. Aligned(Opened(m), Append(KeyConsumed, OpenedContext(m)), open')
    BY <2>1, <2>2, <2>3, <2>4, <2>5, AlignedPush DEF StackSound
  <2>7. (stage = "content" <=> open # <<>>)'  BY <2>5
  <2> QED  BY <1>4, <2>6, <2>7, CommitInStep
<1> QED  BY <1>2, <1>3, <1>4 DEF OpenContainer, Opened, OpenedContext

LEMMA MappingStartInStep ==
  ASSUME Dialect = {}, IInv, PhaseInv, MappingStart
  PROVE  PhaseInv'
<1>1. /\ status = "parsing" /\ Yaml!MappingStart
      /\ OpenContainer(create_map_node(mem), IF AtRoot THEN mem.next ELSE root)
  BY DEF MappingStart
<1>2. Yaml!TypeOK'  BY <1>1, YamlTyped DEF IInv, YamlEvent
<1>3. stage' = "content" /\ open' = Append(Yaml!Placed, "key")
  BY <1>1 DEF Yaml!MappingStart
<1>4. ~AtRoot => Yaml!Position # "key"
  BY <1>1, AlignedTop DEF PhaseInv, Yaml!MappingStart, Yaml!ContainerAllowed
<1>5. NodeMade(mem, create_map_node(mem), "MAP")  BY MapMade DEF IInv
<1> QED  BY <1>1, <1>2, <1>3, <1>4, <1>5, OpenContainerInStep

LEMMA SequenceStartInStep ==
  ASSUME Dialect = {}, IInv, PhaseInv, SequenceStart
  PROVE  PhaseInv'
<1>1. /\ status = "parsing" /\ Yaml!SequenceStart
      /\ OpenContainer(create_sequence_node(mem), root)
  BY DEF SequenceStart
<1>2. Yaml!TypeOK'  BY <1>1, YamlTyped DEF IInv, YamlEvent
<1>3. stage' = "content" /\ open' = Append(Yaml!Placed, "item")
  BY <1>1 DEF Yaml!SequenceStart
<1>4. ~AtRoot => Yaml!Position # "key"
  BY <1>1, AlignedTop DEF PhaseInv, Yaml!SequenceStart, Yaml!ContainerAllowed
<1>5. NodeMade(mem, create_sequence_node(mem), "SEQUENCE")  BY SequenceMade DEF IInv
<1> QED  BY <1>1, <1>2, <1>3, <1>4, <1>5, OpenContainerInStep

LEMMA ScalarInStep ==
  ASSUME Dialect = {}, IInv, PhaseInv, NEW text \in Texts, Scalar(text)
  PROVE  PhaseInv'
<1>1. status = "parsing" /\ Yaml!Scalar(text)  BY DEF Scalar
<1>2. /\ stage = "content" /\ stage' = "content" /\ open' = Yaml!Placed /\ open # <<>>
      /\ Aligned(mem, stack, open)
  BY <1>1 DEF Yaml!Scalar, PhaseInv
<1>3. open \in Seq(Positions)  BY DEF IInv, Yaml!TypeOK, Positions
<1>4. Len(open') = Len(open) /\ open' \in Seq(Positions)  BY <1>2, <1>3, PlacedType
<1>5. (stage = "content" <=> open # <<>>)'  BY <1>2, <1>3, <1>4
<1>6. ~AtRoot /\ InStep(mem, Top, Yaml!Position) /\ Yaml!Position \in Positions
  BY <1>2, AlignedTop
<1>7. CASE ScalarIsKey(text)
  <2> DEFINE m == arena_strdup(mem, text)
  <2>1. InMap /\ Top.is_key_next /\ Commit(m, SetTop(mem.next, FALSE), root)
    BY <1>7 DEF ScalarIsKey
  <2>2. HeapSound(m) /\ KindsKept(mem, m)  BY StrdupSound DEF IInv
  <2> HIDE DEF m
  <2>3. StackSound(m, stack) /\ Aligned(m, stack, open)
    BY <1>2, <2>2, StackKept, AlignedKept DEF IInv
  <2>4. Yaml!Position = "key"  BY <1>6, <2>1 DEF InStep
  <2>5. open' = [open EXCEPT ![Len(open)] = "value"]
    BY <1>2, <2>4 DEF Yaml!Placed, Yaml!Inside, Yaml!Position, Yaml!NextPosition
  <2>6. mem.next \in Nat  BY MemFields DEF IInv, HeapSound
  <2>7. m.heap[Top.node].type = "MAP"
    BY <1>6, <2>1, <2>2, TopSound DEF IInv, InMap, ContextSound, ContainerAt, KindsKept
  <2>8. InStep(m, [node |-> Top.node, key |-> mem.next, is_key_next |-> FALSE], "value")
    BY <2>6, <2>7 DEF InStep, NULL
  <2>9. mem.next \in Int /\ FALSE \in BOOLEAN /\ "value" \in Positions
    BY <2>6 DEF Positions
  <2>10. Aligned(m, SetTop(mem.next, FALSE), [open EXCEPT ![Len(open)] = "value"])
    BY <1>3, <1>6, <2>3, <2>8, <2>9, AlignedSetTop, Zenon
  <2> QED  BY <1>1, <1>5, <2>1, <2>5, <2>10, CommitInStep
<1>8. CASE ScalarIsValue(text)
  <2> DEFINE m  == parse_scalar(mem, text)
             m1 == AddToTop(m, mem.next)
  <2>1. (InMap => ~Top.is_key_next) /\ Commit(m1, KeyConsumed, root)
    BY <1>8 DEF ScalarIsValue
  <2>2. NodeMade(mem, m, ScalarType[text])  BY ScalarMade DEF IInv
  <2> HIDE DEF m
  <2>3. HeapSound(m) /\ KindsKept(mem, m) /\ NodeAt(m, mem.next)
    <3>1. ScalarType[text] \in NodeTypes  BY HeapAssumption DEF NodeTypes
    <3> QED  BY <2>2, <3>1 DEF NodeMade, NodeAt
  <2>4. KindsKept(m, m1)  BY <1>6, <2>1, <2>3, KeyPending, AddToTopSound
  <2> HIDE DEF m1
  <2>5. KindsKept(mem, m1)  BY <2>3, <2>4, KindsKeptTwice
  <2>6. Yaml!Position # "key"  BY <1>6, <2>1 DEF InStep, InMap
  <2>7. Aligned(mem, KeyConsumed, open')  BY <1>2, <2>6, AlignedConsumed
  <2>8. StackSound(mem, KeyConsumed)  BY KeyConsumedSound DEF IInv
  <2>9. Aligned(m1, KeyConsumed, open')  BY <2>5, <2>7, <2>8, AlignedKept
  <2> QED  BY <1>1, <1>5, <2>1, <2>9, CommitInStep
<1> QED  BY <1>6, <1>7, <1>8 DEF Scalar, ScalarAtRoot

LEMMA ContainerEndInStep ==
  ASSUME IInv, PhaseInv, ContainerEnd
  PROVE  PhaseInv'
<1>1. /\ status = "parsing" /\ stage = "content" /\ open # <<>>
      /\ open' = SubSeq(open, 1, Len(open) - 1)
      /\ stage' = IF Len(open) = 1 THEN "closed" ELSE "content"
      /\ stack' = SubSeq(stack, 1, Len(stack) - 1)
      /\ mem' = mem /\ status' = status
      /\ Aligned(mem, stack, open)
  BY DEF ContainerEnd, Yaml!MappingEnd, Yaml!SequenceEnd, Yaml!ContainerEnd, PhaseInv
<1>2. open \in Seq(Positions) /\ stack \in Seq(Context)
  BY DEF IInv, Yaml!TypeOK, StackSound, Positions
<1>3. Aligned(mem, stack', open')  BY <1>1, <1>2, AlignedPop
<1>4. Len(open) \in Nat \ {0}  BY <1>1, <1>2
<1>5. /\ SubSeq(open, 1, Len(open) - 1) \in Seq(Positions)
      /\ Len(SubSeq(open, 1, Len(open) - 1)) = Len(open) - 1
  BY <1>1, <1>2, ShortenedLen
<1>6. Len(open') = Len(open) - 1 /\ open' \in Seq(Positions)  BY <1>1, <1>5
<1>7. open' = <<>> <=> Len(open) = 1  BY <1>4, <1>6
<1>8. (stage = "content" <=> open # <<>>)'  BY <1>1, <1>7
<1> QED  BY <1>1, <1>3, <1>8 DEF PhaseInv

LEMMA PhaseStep ==
  ASSUME Dialect = {}, IInv, PhaseInv, [Next]_vars
  PROVE  PhaseInv'
<1> USE DEF PhaseInv
<1>1. CASE partfx_init  BY <1>1 DEF partfx_init, Halt
<1>2. CASE partfx_reset \/ partfx_delete \/ BeginFails
  BY <1>2 DEF partfx_reset, partfx_delete, BeginFails
<1>3. CASE Begin
  <2>1. stack = <<>>  BY <1>3 DEF Begin, IInv
  <2>2. Aligned(mem, <<>>, <<>>)  BY DEF Aligned
  <2> QED  BY <1>3, <2>1, <2>2 DEF Begin, Yaml!Restart
<1>4. CASE MappingStart  BY <1>4, MappingStartInStep
<1>5. CASE SequenceStart  BY <1>5, SequenceStartInStep
<1>6. CASE \E text \in Texts : Scalar(text)  BY <1>6, ScalarInStep
<1>7. CASE ContainerEnd  BY <1>7, ContainerEndInStep
<1>8. CASE Ignored
  BY <1>8 DEF Ignored, Yaml!StreamStart, Yaml!DocumentStart, Yaml!Alias
<1>9. CASE Finish \/ Fail  BY <1>9 DEF Finish, Fail
<1>10. CASE UNCHANGED vars  BY <1>10 DEF vars
<1> QED
  BY <1>1, <1>2, <1>3, <1>4, <1>5, <1>6, <1>7, <1>8, <1>9, <1>10 DEF Next, HandleEvent

LEMMA PhaseInductive ==
  ASSUME Dialect = {}
  PROVE  Spec => [](IInv /\ PhaseInv)
<1>1. Init => IInv /\ PhaseInv  BY InitSound DEF Init, PhaseInv
<1>2. IInv /\ PhaseInv /\ [Next]_vars => (IInv /\ PhaseInv)'
  BY StepSound, PhaseStep
<1> QED  BY <1>1, <1>2, PTL DEF Spec

(* For documents without aliases, container keys and scalar roots, however *)
(* deep, the parser's stack tells key from value as libyaml does           *)
(* (is_key_next in partfx_parse).                                          *)
THEOREM KeyPhaseAlways ==
  ASSUME Dialect = {}
  PROVE  Spec => []KeyPhase
<1>1. IInv /\ PhaseInv => KeyPhase
  BY DEF IInv, StackSound, PhaseInv, KeyPhase, Aligned, InStep, Block
<1> QED  BY <1>1, PhaseInductive, PTL

(* For such documents the parser never reads a context below its stack and *)
(* never adds an entry without a key (the SCALAR case of partfx_parse,     *)
(* map_add).                                                               *)
THEOREM NeverUndefined ==
  ASSUME Dialect = {}
  PROVE  Spec => []NoUndefined
<1>1. PhaseInv => NoUndefined  BY DEF PhaseInv, NoUndefined
<1> QED  BY <1>1, PhaseInductive, PTL

(* Within one parse a node keeps its type, its text and every entry it has, *)
(* and only an open container gains any, one at a time and at its end, for  *)
(* every arena, capacity and document (map_add, sequence_add).              *)
THEOREM NodesGrow == Spec => NodesOnlyGrow
<1> DEFINE Kept(a) ==
             /\ a \in DOMAIN mem'.heap
             /\ mem'.heap[a].type = Block(a).type
             /\ mem'.heap[a].text = Block(a).text
             /\ IsContainer(Block(a)) =>
                  LET before == ItemsOf(mem, a)
                      after  == ItemsOf(mem', a)
                  IN  \/ after = before
                      \/ /\ a \in OpenNodes
                         /\ Len(after) = Len(before) + 1
                         /\ SubSeq(after, 1, Len(before)) = before
           Step == status = "parsing" /\ status' = "parsing" =>
                     \A a \in Blocks : IsNode(a) => Kept(a)
<1>1. IInv /\ [Next]_vars => Step
  <2> SUFFICES ASSUME IInv, [Next]_vars, status = "parsing", status' = "parsing",
                      NEW a \in Blocks
               PROVE  Kept(a)
    OBVIOUS
  <2>1. Grows(mem, mem', OpenNodes)  BY EventGrows
  <2>2. a \in Addr(mem) /\ mem \in MemSet  BY DEF Blocks, Addr, IInv, HeapSound
  <2>3. /\ a \in DOMAIN mem'.heap
        /\ mem'.heap[a].type = Block(a).type /\ mem'.heap[a].text = Block(a).text
    BY <2>1, <2>2 DEF Grows, KindsKept, Block, Addr
  <2>4. ASSUME IsContainer(Block(a))
        PROVE  \/ ItemsOf(mem', a) = ItemsOf(mem, a)
               \/ /\ a \in OpenNodes
                  /\ Len(ItemsOf(mem', a)) = Len(ItemsOf(mem, a)) + 1
                  /\ SubSeq(ItemsOf(mem', a), 1, Len(ItemsOf(mem, a))) = ItemsOf(mem, a)
    <3>1. \/ SameItems(mem, mem', a)
          \/ a \in OpenNodes /\ OneMore(mem, mem', a)
      BY <2>1, <2>2, <2>4 DEF Grows, ContainerAt, Block
    <3> QED  BY <2>2, <3>1, OneMoreBehind DEF SameItems
  <2> QED  BY <2>3, <2>4
<1>2. NodesOnlyGrow <=> [][Step]_vars  BY DEF NodesOnlyGrow
<1> HIDE DEF Step
<1> QED  BY <1>1, <1>2, Inductive, PTL DEF Spec

(* What a lookup has found it finds for the rest of the parse, and in what  *)
(* the parse leaves: later entries, under the same key or not, and arrays   *)
(* that move change no answer (partfx_get, partfx_sequence_get).            *)
THEOREM AnswersStay == Spec => LookupsStable
<1> DEFINE Stable(a) ==
             /\ \A key \in Texts : partfx_get(mem, a, key) # NULL =>
                  partfx_get(mem', a, key) = partfx_get(mem, a, key)
             /\ \A i \in 0..(partfx_sequence_length(mem, a) - 1) :
                  partfx_sequence_get(mem', a, i) = partfx_sequence_get(mem, a, i)
           Step == status = "parsing" /\ status' \in {"parsing", "parsed", "failed"} =>
                     \A a \in Blocks : IsNode(a) => Stable(a)
<1>1. IInv /\ [Next]_vars => Step
  <2> SUFFICES ASSUME IInv, [Next]_vars, status = "parsing",
                      status' \in {"parsing", "parsed", "failed"},
                      NEW a \in Blocks
               PROVE  Stable(a)
    OBVIOUS
  <2>1. Grows(mem, mem', OpenNodes)  BY EventGrows
  <2>2. /\ HeapSound(mem) /\ mem \in MemSet /\ a \in Addr(mem)
        /\ a # NULL /\ mem'.heap[a].type = mem.heap[a].type
    <3>1. HeapSound(mem) /\ mem \in MemSet /\ a \in Addr(mem)
      BY DEF IInv, HeapSound, Blocks, Addr
    <3>2. a \in Nat  BY <3>1, MemFields
    <3> QED  BY <2>1, <3>1, <3>2 DEF Grows, KindsKept, NULL
  <2>3. ASSUME NEW key \in Texts, partfx_get(mem, a, key) # NULL
        PROVE  partfx_get(mem', a, key) = partfx_get(mem, a, key)
    <3>1. mem.heap[a].type = "MAP" /\ Matches(mem, a, key) # {}
      BY <2>3 DEF partfx_get, HasType
    <3> QED  BY <2>1, <2>2, <3>1, GetStays
  <2>4. ASSUME NEW i \in 0..(partfx_sequence_length(mem, a) - 1)
        PROVE  partfx_sequence_get(mem', a, i) = partfx_sequence_get(mem, a, i)
    <3>1. mem.heap[a].type = "SEQUENCE"
      <4>1. CASE partfx_sequence_length(mem, a) = 0  BY <2>4, <4>1
      <4>2. CASE partfx_sequence_length(mem, a) # 0
        BY <4>2 DEF partfx_sequence_length, HasType
      <4> QED  BY <4>1, <4>2
    <3>2. /\ partfx_sequence_length(mem, a) = mem.heap[a].count
          /\ partfx_sequence_length(mem', a) = mem'.heap[a].count
      BY <2>2, <3>1 DEF partfx_sequence_length, HasType
    <3>3. ContainerAt(mem, a)  BY <2>2, <3>1 DEF ContainerAt, IsContainer
    <3>4. /\ mem.heap[a].count \in Nat
          /\ mem'.heap[a].count \in {mem.heap[a].count, mem.heap[a].count + 1}
          /\ \A k \in 1..mem.heap[a].count : ItemsOf(mem', a)[k] = ItemsOf(mem, a)[k]
      BY <2>1, <2>2, <3>3, ItemsStay
    <3>5. /\ i < mem.heap[a].count /\ i < mem'.heap[a].count
          /\ i + 1 \in 1..mem.heap[a].count
      BY <2>4, <3>2, <3>4
    <3> QED  BY <3>2, <3>4, <3>5 DEF partfx_sequence_get
  <2> QED  BY <2>3, <2>4
<1>2. LookupsStable <=> [][Step]_vars  BY DEF LookupsStable
<1> HIDE DEF Step
<1> QED  BY <1>1, <1>2, Inductive, PTL DEF Spec

(* Whatever the document, its dialect included, and wherever the parse      *)
(* stops, the nodes of the arena are one tree: a child lies behind its      *)
(* parent, no node has two places, and every node but the first has one     *)
(* (map_add, sequence_add and the root case of partfx_parse).               *)
THEOREM AlwaysTree == Spec => []TreeShape
<1>1. ASSUME IInv, ShapeInv PROVE TreeShape
  <2> USE DEF Blocks, Block, Addr
  <2>1. TreeSound(mem) /\ mem \in MemSet  BY <1>1 DEF ShapeInv, IInv, HeapSound
  <2>2. \A a \in Containers : \A i \in 1..Block(a).count :
          Holds(mem, a, i, ItemsOf(mem, a)[i].value)
    BY DEF Containers, Holds, ContainerAt
  <2>3. \A a \in Containers : \A c \in Children(a) :
          \E i \in 1..Block(a).count : Holds(mem, a, i, c)
    BY <2>2 DEF Children
  <2>4. \A a \in Containers :
          /\ \A c \in Children(a) : c > a
          /\ \A i, j \in 1..Block(a).count :
               i # j => ItemsOf(mem, a)[i].value # ItemsOf(mem, a)[j].value
    BY <2>1, <2>2, <2>3 DEF TreeSound
  <2>5. \A a, b \in Containers : a # b => Children(a) \intersect Children(b) = {}
    BY <2>1, <2>3 DEF TreeSound
  <2>6. ASSUME NEW a \in Blocks, IsNode(a), a # 0
        PROVE  \E b \in Containers : a \in Children(b)
    <3>1. PICK b, i : Holds(mem, b, i, a)
      BY <2>1, <2>6 DEF TreeSound, IsNode, NodeAt
    <3>2. b \in Containers /\ a \in Children(b)
      BY <3>1 DEF Holds, ContainerAt, Containers, Children
    <3> QED  BY <3>2
  <2> QED  BY <2>4, <2>5, <2>6 DEF TreeShape
<1> QED  BY <1>1, ShapeInductive, PTL

-------------------------------------------------------------------------------
(* The session as a table of nodes (YamlNodes). *)

PathOf(s) == [i \in DOMAIN s |-> s[i].node]

PendingOf(m, s) == IF s = <<>> THEN NoText ELSE KeyText(m, s[Len(s)])

LEMMA PathPush ==
  ASSUME NEW s \in Seq(Context), NEW c \in Context
  PROVE  PathOf(Append(s, c)) = Append(PathOf(s), c.node)
<1> DEFINE t == Append(s, c)
           n == Len(s)
           p == PathOf(s)
           q == PathOf(t)
           u == Append(p, c.node)
<1>1. /\ n \in Nat /\ DOMAIN s = 1..n /\ DOMAIN t = 1..(n + 1)
      /\ t[n + 1] = c /\ \A i \in 1..n : t[i] = s[i]
  OBVIOUS
<1>2. p \in Seq(Nat) /\ Len(p) = n /\ \A i \in 1..n : p[i] = s[i].node
  <2>1. p = [i \in 1..n |-> s[i].node]  BY <1>1 DEF PathOf
  <2>2. \A i \in 1..n : s[i].node \in Nat
    <3>1. \A i \in 1..n : s[i] \in Context  BY <1>1
    <3> QED  BY <3>1 DEF Context
  <2> HIDE DEF p
  <2>3. p \in [1..n -> Nat]  BY <2>1, <2>2
  <2> QED  BY <1>1, <2>1, <2>3
<1>3. c.node \in Nat  BY DEF Context
<1>4. q = [i \in 1..(n + 1) |-> t[i].node]
  BY <1>1 DEF PathOf
<1> HIDE DEF p, t, n
<1>5. /\ u \in Seq(Nat) /\ Len(u) = n + 1
      /\ u[n + 1] = c.node /\ \A i \in 1..n : u[i] = p[i]
  BY <1>2, <1>3, AppendProperties
<1> HIDE DEF u, q
<1>6. DOMAIN u = 1..(n + 1) /\ u = [i \in 1..(n + 1) |-> u[i]]  BY <1>1, <1>5
<1>7. \A i \in 1..(n + 1) : i \in 1..n \/ i = n + 1  BY <1>1
<1>8. \A i \in 1..(n + 1) : u[i] = t[i].node  BY <1>1, <1>2, <1>5, <1>7
<1>9. q = u  BY <1>4, <1>6, <1>8
<1> QED  BY <1>9 DEF q, u, p, t

LEMMA PathPop ==
  ASSUME NEW s \in Seq(Context), s # <<>>
  PROVE  PathOf(SubSeq(s, 1, Len(s) - 1)) = SubSeq(PathOf(s), 1, Len(PathOf(s)) - 1)
<1> DEFINE n == Len(s) - 1
           p == PathOf(s)
<1>1. Len(s) \in Nat \ {0}  OBVIOUS
<1>2. n \in Nat /\ Len(s) = n + 1 /\ DOMAIN s = 1..(n + 1)  BY <1>1
<1>3. DOMAIN p = 1..(n + 1) /\ Len(p) = n + 1 /\ \A i \in 1..(n + 1) : p[i] = s[i].node
  BY <1>2 DEF PathOf
<1> HIDE DEF p, n
<1>4. SubSeq(s, 1, n) = [i \in 1..n |-> s[i]] /\ SubSeq(p, 1, n) = [i \in 1..n |-> p[i]]
  BY <1>2, <1>3
<1>5. PathOf([i \in 1..n |-> s[i]]) = [i \in 1..n |-> s[i].node]  BY DEF PathOf
<1>6. \A i \in 1..n : p[i] = s[i].node  BY <1>2, <1>3
<1>7. [i \in 1..n |-> p[i]] = [i \in 1..n |-> s[i].node]  BY <1>6
<1>8. PathOf(SubSeq(s, 1, n)) = SubSeq(p, 1, n)  BY <1>4, <1>5, <1>7
<1>9. n = Len(s) - 1 /\ n = Len(p) - 1  BY <1>2, <1>3 DEF n
<1> QED  BY <1>8, <1>9 DEF p

LEMMA PathSetTop ==
  ASSUME StackSound(mem, stack), ~AtRoot, NEW k, NEW b
  PROVE  /\ PathOf(SetTop(k, b)) = PathOf(stack)
         /\ SetTop(k, b) # <<>>
         /\ SetTop(k, b)[Len(SetTop(k, b))].key = k
<1> DEFINE c == [node |-> Top.node, key |-> k, is_key_next |-> b]
           s == [stack EXCEPT ![Len(stack)] = c]
<1>1. stack \in Seq(Context) /\ Len(stack) \in DOMAIN stack
  BY DEF StackSound, AtRoot
<1>2. c.node = stack[Len(stack)].node /\ c.key = k  BY DEF Top
<1> HIDE DEF c
<1>3. /\ DOMAIN s = DOMAIN stack /\ s[Len(stack)] = c /\ Len(s) = Len(stack)
      /\ \A i \in DOMAIN stack : i # Len(stack) => s[i] = stack[i]
  BY <1>1
<1> HIDE DEF s
<1>4. \A i \in DOMAIN stack : s[i].node = stack[i].node  BY <1>2, <1>3
<1>5. PathOf(s) = PathOf(stack)  BY <1>3, <1>4 DEF PathOf
<1>6. s # <<>>  BY <1>1, <1>3
<1> QED  BY <1>2, <1>3, <1>5, <1>6 DEF s, c, SetTop

(* The node on top of the stack is the innermost one of the path. *)
LEMMA InnermostIs ==
  ASSUME StackSound(mem, stack)
  PROVE  /\ Path = <<>> <=> AtRoot
         /\ ~AtRoot => Path[Len(Path)] = Top.node
<1>1. stack \in Seq(Context)  BY DEF StackSound
<1>2. CASE AtRoot  BY <1>2 DEF AtRoot, Path
<1>3. CASE ~AtRoot
  <2>1. Len(stack) \in DOMAIN stack  BY <1>1, <1>3 DEF AtRoot
  <2>2. DOMAIN Path = 1..Len(stack) /\ Len(stack) \in Nat  BY <1>1 DEF Path
  <2>3. Len(Path) = Len(stack)  BY <2>2
  <2>4. Path # <<>>  BY <2>1, <2>2
  <2>5. Path[Len(stack)] = Top.node  BY <2>1 DEF Path, Top
  <2> QED  BY <1>3, <2>3, <2>4, <2>5
<1> QED  BY <1>2, <1>3

(* A key is pending in the innermost container at most: libyaml places a   *)
(* container once the key before it is used.                               *)
BelowInv ==
  \A i \in DOMAIN open : i < Len(open) => open[i] # "value"

LEMMA PlacedBelow ==
  ASSUME open \in Seq(Positions), BelowInv
  PROVE  \A i \in DOMAIN Yaml!Placed : i < Len(Yaml!Placed) => Yaml!Placed[i] # "value"
<1>1. CASE open = <<>>  BY <1>1 DEF Yaml!Placed, Yaml!Inside
<1>2. CASE open # <<>>
  <2>1. Len(open) \in DOMAIN open  BY <1>2
  <2> DEFINE o == [open EXCEPT ![Len(open)] = Yaml!NextPosition[open[Len(open)]]]
  <2>2. Yaml!Placed = o  BY <1>2 DEF Yaml!Placed, Yaml!Inside
  <2>3. /\ DOMAIN o = DOMAIN open
        /\ \A i \in DOMAIN open : i # Len(open) => o[i] = open[i]
    BY <2>1
  <2>4. Len(o) = Len(open)  BY <1>2, <2>2, PlacedType
  <2>5. \A i \in DOMAIN open : i < Len(open) => i # Len(open)  OBVIOUS
  <2> HIDE DEF o
  <2> QED  BY <2>2, <2>3, <2>4, <2>5 DEF BelowInv
<1> QED  BY <1>1, <1>2

(* Once a node that is no key was placed no key is pending at all. *)
LEMMA PlacedNothing ==
  ASSUME open \in Seq(Positions), BelowInv, open # <<>> => Yaml!Position # "key"
  PROVE  \A i \in DOMAIN Yaml!Placed : Yaml!Placed[i] # "value"
<1>1. CASE open = <<>>  BY <1>1 DEF Yaml!Placed, Yaml!Inside
<1>2. CASE open # <<>>
  <2>1. Len(open) \in DOMAIN open /\ Len(open) \in Nat  BY <1>2
  <2> DEFINE o == [open EXCEPT ![Len(open)] = Yaml!NextPosition[open[Len(open)]]]
  <2>2. Yaml!Placed = o  BY <1>2 DEF Yaml!Placed, Yaml!Inside
  <2>3. open[Len(open)] \in {"value", "item"}
    BY <1>2, <2>1 DEF Yaml!Position, Positions
  <2>4. o[Len(open)] # "value"  BY <2>1, <2>3 DEF Yaml!NextPosition
  <2>5. DOMAIN o = 1..Len(open)
    BY <2>1
  <2>6. Len(o) = Len(open)  BY <1>2, <2>2, PlacedType
  <2>7. \A i \in DOMAIN o : i < Len(open) => o[i] # "value"
    BY <2>2, <2>6, PlacedBelow
  <2>8. \A i \in 1..Len(open) : i < Len(open) \/ i = Len(open)  BY <2>1
  <2> HIDE DEF o
  <2> QED  BY <2>2, <2>4, <2>5, <2>7, <2>8
<1> QED  BY <1>1, <1>2

LEMMA OpenedBelow ==
  ASSUME open \in Seq(Positions), BelowInv, open # <<>> => Yaml!Position # "key",
         NEW p \in Positions, open' = Append(Yaml!Placed, p)
  PROVE  BelowInv'
<1>1. Yaml!Placed \in Seq(Positions)  BY PlacedType
<1>2. \A i \in DOMAIN Yaml!Placed : Yaml!Placed[i] # "value"  BY PlacedNothing
<1> DEFINE o == Yaml!Placed
           n == Len(o)
<1>3. n \in Nat /\ DOMAIN o = 1..n  BY <1>1
<1> HIDE DEF o
<1>4. /\ Len(open') = n + 1 /\ DOMAIN (open') = 1..(n + 1)
      /\ \A i \in 1..n : open'[i] = o[i]
  BY <1>1, <1>3 DEF o
<1>5. \A i \in 1..(n + 1) : i < n + 1 => i \in 1..n  BY <1>3
<1> HIDE DEF n
<1>6. \A i \in DOMAIN (open') : i < Len(open') => open'[i] # "value"
  BY <1>2, <1>3, <1>4, <1>5 DEF o
<1> QED  BY <1>6 DEF BelowInv

LEMMA BelowStep ==
  ASSUME Dialect = {}, IInv, PhaseInv, BelowInv, [Next]_vars
  PROVE  BelowInv'
<1>1. open \in Seq(Positions)  BY DEF IInv, Yaml!TypeOK, Positions
<1>2. CASE Begin  BY <1>2 DEF Begin, Yaml!Restart, BelowInv
<1>3. CASE MappingStart \/ SequenceStart
  <2>1. /\ status = "parsing" /\ Yaml!ContainerAllowed
        /\ \E p \in Positions : open' = Append(Yaml!Placed, p)
    BY <1>3
    DEF MappingStart, SequenceStart, Yaml!MappingStart, Yaml!SequenceStart, Positions
  <2>2. open # <<>> => Yaml!Position # "key"
    BY <2>1 DEF PhaseInv, Yaml!ContainerAllowed
  <2> QED  BY <1>1, <2>1, <2>2, OpenedBelow
<1>4. CASE \E text \in Texts : Scalar(text)
  <2>1. open' = Yaml!Placed  BY <1>4 DEF Scalar, Yaml!Scalar
  <2>2. \A i \in DOMAIN open' : i < Len(open') => open'[i] # "value"
    BY <1>1, <2>1, PlacedBelow
  <2> QED  BY <2>2 DEF BelowInv
<1>5. CASE ContainerEnd
  <2>1. open' = SubSeq(open, 1, Len(open) - 1) /\ open # <<>>
    BY <1>5
    DEF ContainerEnd, Yaml!MappingEnd, Yaml!SequenceEnd, Yaml!ContainerEnd, PhaseInv
  <2>2. Len(open) \in Nat \ {0}  BY <1>1, <2>1
  <2>3. \A i \in DOMAIN open' : i \in DOMAIN open /\ i < Len(open) /\ open'[i] = open[i]
    BY <1>1, <2>1, <2>2
  <2> QED  BY <2>3 DEF BelowInv
<1>6. CASE UNCHANGED open  BY <1>6 DEF BelowInv
<1> QED
  BY <1>2, <1>3, <1>4, <1>5, <1>6
  DEF Next, HandleEvent, partfx_init, BeginFails, partfx_reset, partfx_delete, Ignored,
      Finish, Fail, yamlVars, vars, Yaml!StreamStart, Yaml!DocumentStart, Yaml!Alias,
      Yaml!DocumentEnd, Yaml!StreamEnd, Yaml!SyntaxError

(* What the stack says of the next node, for a parser in step. *)
LEMMA PendingIs ==
  ASSUME IInv, Aligned(mem, stack, open)
  PROVE  /\ PendingKey =
              IF ~AtRoot /\ Yaml!Position = "value" THEN mem.heap[Top.key].text ELSE NoText
         /\ ~AtRoot => (InMap <=> Yaml!Position # "item")
<1>1. ~AtRoot => InStep(mem, Top, Yaml!Position)  BY AlignedTop
<1> QED  BY <1>1 DEF PendingKey, KeyText, InStep, InMap

LEMMA NothingPending ==
  ASSUME NEW m, NEW s \in Seq(Context), NEW o \in Seq(Positions), Aligned(m, s, o),
         \A i \in DOMAIN o : o[i] # "value"
  PROVE  PendingOf(m, s) = NoText
<1>1. CASE s = <<>>  BY <1>1 DEF PendingOf
<1>2. CASE s # <<>>
  <2>1. Len(s) \in DOMAIN s /\ Len(s) \in DOMAIN o  BY <1>2 DEF Aligned
  <2>2. s[Len(s)].key = NULL  BY <2>1 DEF Aligned, InStep
  <2> QED  BY <2>2 DEF PendingOf, KeyText
<1> QED  BY <1>1, <1>2

(* A container or a value, made at mem.next and put where the stack says, *)
(* is added to the table.                                                 *)
LEMMA NodePlaced ==
  ASSUME IInv, Aligned(mem, stack, open), ~AtRoot => Yaml!Position # "key",
         AtRoot => mem = EmptyMem,
         NEW type \in NodeTypes, NEW m, NodeMade(mem, m, type),
         NEW text, TextOf(m, mem.next) = text
  PROVE  /\ NodesOf(Opened(m)) = Table!With(mem.next, Table!Node(type, text))
         /\ mem.next \in DOMAIN NodesOf(Opened(m))
         /\ mem.next \in Nat /\ \A n \in DOMAIN NodesOf(mem) : n < mem.next
<1> DEFINE id == mem.next
<1>1. /\ HeapSound(mem) /\ HeapSound(m) /\ KindsKept(mem, m) /\ NodeAt(m, id)
  BY DEF IInv, NodeMade, NodeAt
<1>2. id \in Nat /\ \A n \in DOMAIN NodesOf(mem) : n < id
  <2>1. \A n \in DOMAIN NodesOf(mem) : n \in Addr(mem)  BY TableAt DEF NodeAt
  <2>2. id \in Nat /\ \A n \in Addr(mem) : n \in Nat /\ mem.heap[n].size \in Nat \ {0}
    BY <1>1, MemFields DEF HeapSound
  <2>3. \A n \in Addr(mem) : n + mem.heap[n].size <= id
    BY <1>1 DEF HeapSound, Apart
  <2> HIDE DEF id
  <2> QED  BY <2>1, <2>2, <2>3
<1>3. Table!Node(type, text) = Node(type, text)  BY DEF Table!Node, Node
<1>4. (Path = <<>> <=> AtRoot) /\ (~AtRoot => Path[Len(Path)] = Top.node)
  BY InnermostIs DEF IInv
<1>5. NodesOf(Opened(m)) = Table!With(id, Table!Node(type, text))
  <2>1. CASE AtRoot
    <3>1. NodesOf(m) = [a \in {id} |-> Node(type, text)]  BY <2>1, TableStarted
    <3>2. DOMAIN NodesOf(mem) = {}
      BY <2>1, EmptyMemSound, TableAt DEF NodeAt
    <3>3. Table!With(id, Node(type, text)) = [a \in {id} |-> Node(type, text)]
      BY <3>2 DEF Table!With
    <3> QED  BY <1>3, <2>1, <3>1, <3>3 DEF Opened
  <2>2. CASE ~AtRoot
    <3>1. ContainerAt(mem, Top.node)  BY <2>2, TopHeld
    <3>2. ~KeyMissing  BY <2>2, AlignedTop DEF KeyMissing, InMap, InStep, Positions
    <3> DEFINE m1  == AddToTop(m, id)
               key == IF InMap THEN mem.heap[Top.key].text ELSE NoText
    <3>3. /\ KindsKept(m, m1) /\ NoNewNodes(m, m1)
          /\ ItemAdded(m, m1, Top.node, id) /\ LastUnder(m1, Top.node, key)
      BY <1>1, <2>2, <3>2, AddToTopSound
    <3>4. key = PendingKey
      BY <2>2, PendingIs, AlignedTop DEF Positions
    <3> HIDE DEF m1, key
    <3>5. NodesOf(m1) = Extended(mem, Node(type, text), id, Top.node, key)
      BY <1>1, <3>1, <3>3, TableExtended
    <3>6. \A n : Table!Innermost(n) <=> n = Top.node  BY <1>4, <2>2 DEF Table!Innermost
    <3>7. Table!With(id, Node(type, text)) =
            Extended(mem, Node(type, text), id, Top.node, key)
      BY <3>4, <3>6 DEF Table!With, Extended
    <3> QED  BY <1>3, <2>2, <3>5, <3>7 DEF Opened, m1
  <2> QED  BY <2>1, <2>2
<1>6. id \in DOMAIN NodesOf(Opened(m))
  BY <1>5 DEF Table!With
<1> QED  BY <1>2, <1>5, <1>6

LEMMA EmptyTable == NodesOf(EmptyMem) = Table!NoNodes
<1> DEFINE f == Table!NoNodes
<1>1. f = [a \in DOMAIN f |-> f[a]] /\ DOMAIN f = {}  BY DEF Table!NoNodes
<1>2. \A a : ~NodeAt(EmptyMem, a)  BY EmptyMemSound DEF NodeAt
<1> HIDE DEF f
<1>3. NodesOf(EmptyMem) = f  BY <1>1, <1>2, TableIs
<1> QED  BY <1>3 DEF f

LEMMA NothingOpen ==
  ASSUME stack = <<>>
  PROVE  Path = <<>> /\ PendingKey = NoText
BY DEF Path, PendingKey, AtRoot

LEMMA HaltCrashes ==
  ASSUME NEW how \in {"aborted", "undefined"}, Halt(how)
  PROVE  Table!NodesCrash
<1>1. Outcome' = "crashed"  BY DEF Halt, Outcome
<1>2. NodesOf(mem)' = Table!NoNodes /\ root' = NULL  BY EmptyTable DEF Halt
<1>3. Path' = <<>> /\ PendingKey' = NoText
  BY DEF Halt, Path, PendingKey, AtRoot
<1> QED  BY <1>1, <1>2, <1>3 DEF Table!NodesCrash

LEMMA NextPending ==
  Path' = PathOf(stack') /\ PendingKey' = PendingOf(mem', stack')
BY DEF Path, PathOf, PendingKey, PendingOf, AtRoot, Top

(* The invariant of the refinement. *)
NodesInv == IInv /\ ShapeInv /\ PhaseInv /\ BelowInv

LEMMA OpenContainerAdds ==
  ASSUME Dialect = {}, NodesInv, status = "parsing", Yaml!ContainerAllowed,
         NEW type \in {"MAP", "SEQUENCE"}, NEW m, NodeMade(mem, m, type),
         TextOf(m, mem.next) = NoText,
         NEW p \in {"key", "item"}, open' = Append(Yaml!Placed, p),
         NEW r, OpenContainer(m, r)
  PROVE  \/ Table!NodesCrash
         \/ /\ Outcome' = "parsing" /\ root' = r
            /\ mem.next \in DOMAIN NodesOf(mem')
            /\ Table!NodeAdded(mem.next, Table!Node(type, NoText))
            /\ Path' = Append(Path, mem.next)
<1> USE DEF NodesInv
<1>1. CASE Halt("aborted") \/ Halt("undefined")  BY <1>1, HaltCrashes
<1>2. CASE /\ ~KeyMissing
           /\ Len(stack) < MAX_DEPTH
           /\ Commit(Opened(m), Append(KeyConsumed, OpenedContext(m)), r)
           /\ ~Halt("aborted")
  <2>1. /\ mem' = Opened(m) /\ root' = r /\ status' = "parsing"
        /\ stack' = Append(KeyConsumed, OpenedContext(m))
    BY <1>2 DEF Commit
  <2>2. Aligned(mem, stack, open)  BY DEF PhaseInv
  <2>3. ~AtRoot => Yaml!Position # "key"
    BY <2>2, AlignedTop DEF PhaseInv, Yaml!ContainerAllowed
  <2>4. AtRoot => mem = EmptyMem  BY RootMeansEmpty
  <2>5. type \in NodeTypes  BY DEF NodeTypes
  <2>6. /\ NodesOf(Opened(m)) = Table!With(mem.next, Table!Node(type, NoText))
        /\ mem.next \in DOMAIN NodesOf(Opened(m))
        /\ mem.next \in Nat /\ \A n \in DOMAIN NodesOf(mem) : n < mem.next
    BY <2>2, <2>3, <2>4, <2>5, NodePlaced
  <2>7. StackSound(mem, KeyConsumed)  BY KeyConsumedSound DEF IInv
  <2>8. /\ OpenedContext(m) \in Context /\ OpenedContext(m).node = mem.next
        /\ OpenedContext(m).key = NULL
    BY <1>2, OpenedSound
  <2>9. PathOf(KeyConsumed) = Path
    <3>1. PathOf(stack) = Path  BY DEF PathOf, Path
    <3> QED  BY <3>1, PathSetTop DEF KeyConsumed, InMap, IInv
  <2>10. Path' = Append(Path, mem.next)
    BY <2>1, <2>7, <2>8, <2>9, PathPush, NextPending DEF StackSound
  <2>11. PendingKey' = NoText
    <3> DEFINE s == Append(KeyConsumed, OpenedContext(m))
    <3>1. s # <<>> /\ s[Len(s)] = OpenedContext(m)  BY <2>7, <2>8 DEF StackSound
    <3> HIDE DEF s
    <3>2. PendingOf(mem', s) = NoText  BY <2>8, <3>1 DEF PendingOf, KeyText
    <3> QED  BY <2>1, <3>2, NextPending DEF s
  <2> QED  BY <2>1, <2>6, <2>10, <2>11 DEF Table!NodeAdded, Outcome
<1> QED  BY <1>1, <1>2 DEF OpenContainer, Opened, OpenedContext, Commit

LEMMA MappingStartTable ==
  ASSUME Dialect = {}, NodesInv, MappingStart
  PROVE  Table!NodesNext
<1> DEFINE m == create_map_node(mem)
           r == IF AtRoot THEN mem.next ELSE root
<1>1. /\ status = "parsing" /\ Yaml!MappingStart /\ OpenContainer(m, r)
      /\ Yaml!ContainerAllowed /\ open' = Append(Yaml!Placed, "key")
  BY DEF MappingStart, Yaml!MappingStart
<1>2. NodeMade(mem, m, "MAP") /\ TextOf(m, mem.next) = NoText
  BY MapMade DEF NodesInv, IInv
<1>3. Path = <<>> <=> AtRoot  BY InnermostIs DEF NodesInv, IInv
<1>4. Outcome = "parsing"  BY <1>1 DEF Outcome
<1> HIDE DEF m, r
<1>5. \/ Table!NodesCrash
      \/ /\ Outcome' = "parsing" /\ root' = r
         /\ mem.next \in DOMAIN NodesOf(mem')
         /\ Table!NodeAdded(mem.next, Table!Node("MAP", NoText))
         /\ Path' = Append(Path, mem.next)
  BY <1>1, <1>2, OpenContainerAdds
<1>6. CASE Table!NodesCrash  BY <1>6 DEF Table!NodesNext
<1>7. CASE ~Table!NodesCrash
  <2>1. Table!NodesContainer("MAP")  BY <1>3, <1>5, <1>7 DEF Table!NodesContainer, r
  <2>2. Table!MappingStart
    BY <1>1
    DEF Yaml!MappingStart, Yaml!ContainerAllowed, Yaml!Placed, Yaml!Inside, Yaml!Position,
        Yaml!NextPosition, Yaml!Emit, Table!MappingStart, Table!ContainerAllowed,
        Table!Placed, Table!Inside, Table!Position, Table!NextPosition, Table!Emit
  <2> QED  BY <1>4, <1>5, <1>7, <2>1, <2>2 DEF Table!NodesNext, Table!NodesEvent
<1> QED  BY <1>6, <1>7

LEMMA SequenceStartTable ==
  ASSUME Dialect = {}, NodesInv, SequenceStart
  PROVE  Table!NodesNext
<1> DEFINE m == create_sequence_node(mem)
<1>1. /\ status = "parsing" /\ Yaml!SequenceStart /\ OpenContainer(m, root)
      /\ Yaml!ContainerAllowed /\ open' = Append(Yaml!Placed, "item")
  BY DEF SequenceStart, Yaml!SequenceStart
<1>2. NodeMade(mem, m, "SEQUENCE") /\ TextOf(m, mem.next) = NoText
  BY SequenceMade DEF NodesInv, IInv
<1>3. Outcome = "parsing"  BY <1>1 DEF Outcome
<1> HIDE DEF m
<1>4. \/ Table!NodesCrash
      \/ /\ Outcome' = "parsing" /\ root' = root
         /\ mem.next \in DOMAIN NodesOf(mem')
         /\ Table!NodeAdded(mem.next, Table!Node("SEQUENCE", NoText))
         /\ Path' = Append(Path, mem.next)
  BY <1>1, <1>2, OpenContainerAdds
<1>5. CASE Table!NodesCrash  BY <1>5 DEF Table!NodesNext
<1>6. CASE ~Table!NodesCrash
  <2>1. Table!NodesContainer("SEQUENCE")  BY <1>4, <1>6 DEF Table!NodesContainer
  <2>2. Table!SequenceStart
    BY <1>1
    DEF Yaml!SequenceStart, Yaml!ContainerAllowed, Yaml!Placed, Yaml!Inside, Yaml!Position,
        Yaml!NextPosition, Yaml!Emit, Table!SequenceStart, Table!ContainerAllowed,
        Table!Placed, Table!Inside, Table!Position, Table!NextPosition, Table!Emit
  <2> QED  BY <1>3, <1>4, <1>6, <2>1, <2>2 DEF Table!NodesNext, Table!NodesEvent
<1> QED  BY <1>5, <1>6

LEMMA KeyTable ==
  ASSUME NodesInv, status = "parsing", NEW text \in Texts, ScalarIsKey(text),
         ~Halt("aborted")
  PROVE  Table!NodesKey(text) /\ Outcome' = "parsing"
<1> USE DEF NodesInv
<1> DEFINE m == arena_strdup(mem, text)
           s == SetTop(mem.next, FALSE)
<1>1. /\ InMap /\ Top.is_key_next /\ ~AtRoot
      /\ mem' = m /\ stack' = s /\ root' = root /\ status' = "parsing"
  BY DEF ScalarIsKey, Commit, InMap
<1>2. /\ HeapSound(mem) /\ BlocksKept(mem, m) /\ KindsKept(mem, m) /\ NoNewNodes(mem, m)
      /\ m.heap[mem.next].text = text /\ mem.next \in Nat
  BY StrdupSound, MemFields DEF IInv, HeapSound
<1> HIDE DEF m
<1>3. NodesOf(mem') = NodesOf(mem)  BY <1>1, <1>2, BlocksKeptItems, TableKept
<1>4. Yaml!Position = "key"
  BY <1>1, AlignedTop DEF PhaseInv, InStep
<1>5. PathOf(s) = Path /\ s # <<>> /\ s[Len(s)].key = mem.next
  <2>1. PathOf(stack) = Path  BY DEF PathOf, Path
  <2> QED  BY <1>1, <2>1, PathSetTop DEF IInv
<1> HIDE DEF s
<1>6. PendingOf(m, s) = text  BY <1>2, <1>5 DEF PendingOf, KeyText, NULL
<1>7. Path' = Path /\ PendingKey' = text
  BY <1>1, <1>5, <1>6, NextPending
<1> QED  BY <1>1, <1>3, <1>4, <1>7 DEF Table!NodesKey, Table!Position, Yaml!Position, Outcome

LEMMA ValueTable ==
  ASSUME NodesInv, NodesInv', status = "parsing", NEW text \in Texts,
         open' = Yaml!Placed, ScalarIsValue(text), ~Halt("aborted")
  PROVE  Table!NodesScalar(text) /\ Outcome' = "parsing"
<1> USE DEF NodesInv
<1> DEFINE m == parse_scalar(mem, text)
<1>1. /\ ~AtRoot /\ (InMap => ~Top.is_key_next)
      /\ mem' = Opened(m) /\ stack' = KeyConsumed /\ root' = root /\ status' = "parsing"
  BY DEF ScalarIsValue, Commit, Opened
<1>2. NodeMade(mem, m, ScalarType[text]) /\ TextOf(m, mem.next) = text
  BY ScalarMade DEF IInv
<1>3. ScalarType[text] \in NodeTypes  BY HeapAssumption DEF NodeTypes
<1> HIDE DEF m
<1>4. Aligned(mem, stack, open)  BY DEF PhaseInv
<1>5. Yaml!Position # "key" /\ open # <<>>
  BY <1>1, <1>4, AlignedTop DEF InStep, InMap
<1>6. /\ NodesOf(Opened(m)) = Table!With(mem.next, Table!Node(ScalarType[text], text))
      /\ mem.next \in DOMAIN NodesOf(Opened(m))
      /\ mem.next \in Nat /\ \A n \in DOMAIN NodesOf(mem) : n < mem.next
  BY <1>1, <1>2, <1>3, <1>4, <1>5, NodePlaced
<1>7. Path' = Path
  <2>1. PathOf(stack) = Path  BY DEF PathOf, Path
  <2> QED  BY <1>1, <2>1, PathSetTop, NextPending DEF KeyConsumed, InMap, IInv
<1>8. PendingKey' = NoText
  <2>1. open \in Seq(Positions) /\ open' \in Seq(Positions) /\ stack' \in Seq(Context)
    BY DEF IInv, Yaml!TypeOK, StackSound, Positions
  <2>2. \A i \in DOMAIN Yaml!Placed : Yaml!Placed[i] # "value"
    BY <1>5, <2>1, PlacedNothing
  <2>3. Aligned(mem', stack', open')  BY <1>1 DEF PhaseInv
  <2>4. \A i \in DOMAIN open' : open'[i] # "value"  BY <2>2
  <2>5. PendingOf(mem', stack') = NoText  BY <2>1, <2>3, <2>4, NothingPending
  <2> QED  BY <2>5, NextPending
<1>9. Table!NodeAdded(mem.next, Table!Node(ScalarType[text], text))
  BY <1>1, <1>6, <1>8 DEF Table!NodeAdded
<1> QED
  BY <1>1, <1>5, <1>6, <1>7, <1>9
  DEF Table!NodesScalar, Table!Position, Yaml!Position, Outcome

LEMMA ScalarTable ==
  ASSUME NodesInv, NodesInv', NEW text \in Texts, Scalar(text)
  PROVE  Table!NodesNext
<1>1. status = "parsing" /\ Yaml!Scalar(text) /\ open' = Yaml!Placed
  BY DEF Scalar, Yaml!Scalar
<1>2. Outcome = "parsing"  BY <1>1 DEF Outcome
<1>3. CASE Halt("aborted") \/ Halt("undefined")
  BY <1>3, HaltCrashes DEF Table!NodesNext
<1>4. CASE ~Halt("aborted") /\ ~Halt("undefined")
  <2>1. ScalarIsKey(text) \/ ScalarIsValue(text)  BY <1>4 DEF Scalar, ScalarAtRoot
  <2>2. /\ Table!NodesKey(text) \/ Table!NodesScalar(text)
        /\ Outcome' = "parsing"
    BY <1>1, <1>4, <2>1, KeyTable, ValueTable
  <2>3. ~AtRoot  BY <2>1 DEF ScalarIsKey, ScalarIsValue, InMap
  <2>4. open # <<>>  BY <1>1, <2>3, AlignedTop DEF NodesInv, PhaseInv
  <2>5. Table!Inside /\ Table!Scalar(text)
    BY <1>1, <2>4
    DEF Yaml!Scalar, Yaml!Placed, Yaml!Inside, Yaml!NextPosition, Yaml!Emit,
        Table!Scalar, Table!Placed, Table!Inside, Table!NextPosition, Table!Emit
  <2> QED  BY <1>2, <2>2, <2>5 DEF Table!NodesNext, Table!NodesEvent
<1> QED  BY <1>3, <1>4

LEMMA ContainerEndTable ==
  ASSUME NodesInv, NodesInv', ContainerEnd
  PROVE  Table!NodesNext
<1> USE DEF NodesInv
<1>1. /\ status = "parsing" /\ status' = "parsing" /\ mem' = mem /\ root' = root
      /\ stack' = SubSeq(stack, 1, Len(stack) - 1)
      /\ Yaml!MappingEnd \/ Yaml!SequenceEnd
      /\ open # <<>> /\ open' = SubSeq(open, 1, Len(open) - 1)
      /\ Yaml!Position \in {"key", "item"}
  BY DEF ContainerEnd, Yaml!MappingEnd, Yaml!SequenceEnd, Yaml!ContainerEnd, PhaseInv
<1>2. /\ stack \in Seq(Context) /\ stack' \in Seq(Context)
      /\ open \in Seq(Positions) /\ open' \in Seq(Positions)
  BY DEF IInv, Yaml!TypeOK, StackSound, Positions
<1>3. Aligned(mem, stack, open) /\ Aligned(mem', stack', open')
  BY <1>1 DEF PhaseInv
<1>4. ~AtRoot  BY <1>1, <1>3, AlignedTop
<1>5. Path' = SubSeq(Path, 1, Len(Path) - 1)
  <2>1. PathOf(stack) = Path  BY DEF PathOf, Path
  <2> QED  BY <1>1, <1>2, <1>4, <2>1, PathPop, NextPending DEF AtRoot
<1>6. PendingKey = NoText  BY <1>1, <1>3, PendingIs
<1>7. PendingKey' = NoText
  <2>1. Len(open) \in Nat \ {0}  BY <1>1, <1>2
  <2>2. \A i \in DOMAIN open' : i \in DOMAIN open /\ i < Len(open) /\ open'[i] = open[i]
    BY <1>1, <1>2, <2>1
  <2>3. \A i \in DOMAIN open' : open'[i] # "value"  BY <2>2 DEF BelowInv
  <2>4. PendingOf(mem', stack') = NoText  BY <1>2, <1>3, <2>3, NothingPending
  <2> QED  BY <2>4, NextPending
<1>8. Table!MappingEnd \/ Table!SequenceEnd
  BY <1>1
  DEF Yaml!MappingEnd, Yaml!SequenceEnd, Yaml!ContainerEnd, Yaml!Position, Yaml!Emit,
      Table!MappingEnd, Table!SequenceEnd, Table!ContainerEnd, Table!Position, Table!Emit
<1>9. Outcome = "parsing" /\ Outcome' = "parsing"  BY <1>1 DEF Outcome
<1> QED
  BY <1>1, <1>5, <1>6, <1>7, <1>8, <1>9 DEF Table!NodesNext, Table!NodesEvent

LEMMA IgnoredTable ==
  ASSUME Dialect = {}, Ignored
  PROVE  Table!NodesNext
<1>1. /\ status = "parsing" /\ mem' = mem /\ root' = root /\ status' = status
      /\ stack' = stack
      /\ Yaml!StreamStart \/ Yaml!DocumentStart
  BY DEF Ignored, Yaml!Alias
<1>2. Table!StreamStart \/ Table!DocumentStart
  BY <1>1
  DEF Yaml!StreamStart, Yaml!DocumentStart, Yaml!Emit,
      Table!StreamStart, Table!DocumentStart, Table!Emit
<1>3. Path' = Path /\ PendingKey' = PendingKey
  BY <1>1 DEF Path, PendingKey, AtRoot, Top
<1>4. Outcome = "parsing" /\ Outcome' = "parsing"  BY <1>1 DEF Outcome
<1> QED  BY <1>1, <1>2, <1>3, <1>4 DEF Table!NodesNext, Table!NodesEvent

LEMMA ReturnTable ==
  ASSUME Finish \/ Fail
  PROVE  Table!NodesNext
<1>1. /\ status = "parsing" /\ mem' = mem /\ root' = root /\ stack' = <<>>
      /\ \/ (Yaml!DocumentEnd \/ Yaml!StreamEnd) /\ status' = "parsed"
         \/ Yaml!SyntaxError /\ status' = "failed"
  BY DEF Finish, Fail
<1>2. \/ (Table!DocumentEnd \/ Table!StreamEnd) /\ status' = "parsed"
      \/ Table!SyntaxError /\ status' = "failed"
  BY <1>1
  DEF Yaml!DocumentEnd, Yaml!StreamEnd, Yaml!SyntaxError, Yaml!Emit, Yaml!NoEvent,
      Table!DocumentEnd, Table!StreamEnd, Table!SyntaxError, Table!Emit, Table!NoEvent
<1>3. Path' = <<>> /\ PendingKey' = NoText
  BY <1>1 DEF Path, PendingKey, AtRoot
<1>4. Outcome = "parsing" /\ Outcome' = status'  BY <1>1 DEF Outcome
<1> QED  BY <1>1, <1>2, <1>3, <1>4 DEF Table!NodesNext, Table!NodesReturn

(* Outside partfx_parse nothing is open. *)
LEMMA SessionTable ==
  ASSUME NodesInv,
         partfx_init \/ Begin \/ BeginFails \/ partfx_reset \/ partfx_delete
  PROVE  Table!NodesNext \/ UNCHANGED Table!nodesVars
<1> USE DEF NodesInv
<1>1. CASE Halt("aborted")  BY <1>1, HaltCrashes DEF Table!NodesNext
<1>2. CASE ~Halt("aborted")
  <2>1. stack = <<>> /\ stack' = <<>>
    BY <1>2
    DEF IInv, partfx_init, Begin, BeginFails, partfx_reset, partfx_delete, Returned
  <2>2. /\ Path = <<>> /\ PendingKey = NoText
        /\ Path' = <<>> /\ PendingKey' = NoText
    BY <2>1 DEF Path, PendingKey, AtRoot
  <2>3. CASE partfx_init
    <3>1. mem = EmptyMem /\ mem' = EmptyMem /\ root' = NULL /\ UNCHANGED yamlVars
          /\ status = "cold" /\ status' = "ready"
      BY <1>2, <2>3 DEF partfx_init, ShapeInv
    <3>2. root = NULL  BY <3>1, EmptyMemSound DEF IInv, RootSound
    <3>3. Outcome' = Outcome  BY <3>1 DEF Outcome
    <3> QED  BY <2>2, <3>1, <3>2, <3>3 DEF Table!nodesVars, yamlVars
  <2>4. CASE Begin \/ BeginFails
    <3>1. /\ mem' = mem /\ root' = root /\ Outcome = "idle"
          /\ \/ Yaml!Restart /\ Outcome' = "parsing"
             \/ UNCHANGED yamlVars /\ Outcome' = "failed"
      BY <2>4 DEF Begin, BeginFails, Outcome
    <3> QED
      BY <2>2, <3>1
      DEF Table!NodesNext, Table!NodesBegin, Table!Restart, Table!NoEvent, Table!yamlVars,
          Yaml!Restart, Yaml!NoEvent, yamlVars
  <2>5. CASE partfx_reset \/ partfx_delete
    <3>1. /\ mem' = EmptyMem /\ root' = NULL /\ UNCHANGED yamlVars
          /\ Outcome \in {"parsed", "failed"} /\ Outcome' = "idle"
      BY <2>5 DEF partfx_reset, partfx_delete, Returned, Outcome
    <3> QED
      BY <2>2, <3>1, EmptyTable
      DEF Table!NodesNext, Table!NodesDiscard, Table!yamlVars, yamlVars
  <2> QED  BY <2>3, <2>4, <2>5
<1> QED  BY <1>1, <1>2

LEMMA TableStep ==
  ASSUME Dialect = {}, NodesInv, NodesInv', [Next]_vars
  PROVE  [Table!NodesNext]_Table!nodesVars
<1>1. CASE partfx_init \/ Begin \/ BeginFails \/ partfx_reset \/ partfx_delete
  BY <1>1, SessionTable
<1>2. CASE MappingStart  BY <1>2, MappingStartTable
<1>3. CASE SequenceStart  BY <1>3, SequenceStartTable
<1>4. CASE \E text \in Texts : Scalar(text)  BY <1>4, ScalarTable
<1>5. CASE ContainerEnd  BY <1>5, ContainerEndTable
<1>6. CASE Ignored  BY <1>6, IgnoredTable
<1>7. CASE Finish \/ Fail  BY <1>7, ReturnTable
<1>8. CASE UNCHANGED vars
  BY <1>8 DEF vars, Table!nodesVars, Outcome, Path, PendingKey, AtRoot, Top
<1> QED
  BY <1>1, <1>2, <1>3, <1>4, <1>5, <1>6, <1>7, <1>8 DEF Next, HandleEvent

(* For documents without aliases, container keys and scalar roots, and for *)
(* every arena, capacity, depth and set of texts, partfx_parse builds the  *)
(* table of nodes that YamlNodes specifies: each key and value libyaml     *)
(* hands out becomes one entry of the container it stands in, in order,    *)
(* whatever arrays had to move for it (partfx_parse, map_add,              *)
(* sequence_add), until the process ends or the tree is dropped.           *)
THEOREM BuildsTheNodes ==
  ASSUME Dialect = {}
  PROVE  Spec => ImplementsNodes
<1>1. Init => Table!NodesInit
  BY EmptyTable, NothingOpen
  DEF Init, Table!NodesInit, Outcome, Table!Init, Table!NoEvent, Yaml!Init, Yaml!NoEvent
<1>2. Init => NodesInv
  BY InitSound, EmptyTree DEF Init, NodesInv, ShapeInv, PhaseInv, BelowInv, Yaml!Init
<1>3. NodesInv /\ [Next]_vars => NodesInv'
  BY StepSound, ShapeStep, PhaseStep, BelowStep DEF NodesInv
<1>4. NodesInv /\ NodesInv' /\ [Next]_vars => [Table!NodesNext]_Table!nodesVars
  BY TableStep
<1> QED  BY <1>1, <1>2, <1>3, <1>4, PTL DEF Spec, ImplementsNodes, Table!NodesSpec

TableProofs == INSTANCE YamlNodesProofs WITH
                 outcome <- Outcome, nodes <- NodesOf(mem), first <- root,
                 path <- Path, pending <- PendingKey,
                 NoNode <- NULL

(* For the same documents, and every arena, capacity, depth and set of     *)
(* texts, the tree under pfx->root is at every event the document read so  *)
(* far, as YamlTree nests it, and stays that after an error                *)
(* (partfx_parse, map_add, sequence_add, parse_scalar).                    *)
THEOREM BuildsTheDocument ==
  ASSUME Dialect = {}
  PROVE  Spec => ImplementsYamlTree
<1>1. NULL \notin Nat  BY DEF NULL
<1>2. TableProofs!NodesSpec => TableProofs!ImplementsTree
  BY <1>1, TableProofs!TableIsDocument
<1>3. /\ TableProofs!NodesInit <=> Table!NodesInit
      /\ [TableProofs!NodesNext]_TableProofs!nodesVars <=> [Table!NodesNext]_Table!nodesVars
  BY Zenon
  DEF Table!MappingStart, Table!SequenceStart, Table!Scalar, Table!MappingEnd,
      Table!SequenceEnd, Table!ContainerEnd, Table!StreamStart,
      Table!DocumentStart, Table!DocumentEnd, Table!StreamEnd,
      Table!SyntaxError, Table!Restart, Table!ContainerAllowed, Table!Placed,
      Table!Inside, Table!Position, Table!NextPosition, Table!Emit,
      Table!NoEvent, Table!Init, Table!yamlVars, Table!NodesInit,
      Table!NodesNext, Table!nodesVars, Table!NodesBegin, Table!NodesEvent,
      Table!NodesReturn, Table!NodesDiscard, Table!NodesCrash,
      Table!NodesContainer, Table!NodesKey, Table!NodesScalar, Table!NodeAdded,
      Table!With, Table!Innermost, Table!Node, Table!NoNodes,
      TableProofs!MappingStart, TableProofs!SequenceStart, TableProofs!Scalar,
      TableProofs!MappingEnd, TableProofs!SequenceEnd, TableProofs!ContainerEnd,
      TableProofs!StreamStart, TableProofs!DocumentStart,
      TableProofs!DocumentEnd, TableProofs!StreamEnd, TableProofs!SyntaxError,
      TableProofs!Restart, TableProofs!ContainerAllowed, TableProofs!Placed,
      TableProofs!Inside, TableProofs!Position, TableProofs!NextPosition,
      TableProofs!Emit, TableProofs!NoEvent, TableProofs!Init,
      TableProofs!yamlVars, TableProofs!NodesInit, TableProofs!NodesNext,
      TableProofs!nodesVars, TableProofs!NodesBegin, TableProofs!NodesEvent,
      TableProofs!NodesReturn, TableProofs!NodesDiscard, TableProofs!NodesCrash,
      TableProofs!NodesContainer, TableProofs!NodesKey, TableProofs!NodesScalar,
      TableProofs!NodeAdded, TableProofs!With, TableProofs!Innermost,
      TableProofs!Node, TableProofs!NoNodes
<1>4. /\ TableProofs!Tree!TreeInit <=> Table!Tree!TreeInit
      /\ [TableProofs!Tree!TreeNext]_TableProofs!Tree!treeVars
         <=> [Table!Tree!TreeNext]_Table!Tree!treeVars
  BY Zenon
  DEF Table!Tree!MappingStart, Table!Tree!SequenceStart, Table!Tree!Scalar,
      Table!Tree!MappingEnd, Table!Tree!SequenceEnd, Table!Tree!ContainerEnd,
      Table!Tree!StreamStart, Table!Tree!DocumentStart, Table!Tree!DocumentEnd,
      Table!Tree!StreamEnd, Table!Tree!SyntaxError, Table!Tree!Restart,
      Table!Tree!ContainerAllowed, Table!Tree!Placed, Table!Tree!Inside,
      Table!Tree!Position, Table!Tree!NextPosition, Table!Tree!Emit,
      Table!Tree!NoEvent, Table!Tree!Init, Table!Tree!yamlVars,
      Table!Tree!TreeInit, Table!Tree!TreeNext, Table!Tree!treeVars,
      Table!Tree!TreeBegin, Table!Tree!TreeEvent, Table!Tree!TreeReturn,
      Table!Tree!TreeDiscard, Table!Tree!TreeCrash, Table!Tree!TreeContainer,
      Table!Tree!TreeScalar, Table!Tree!WithNode, Table!Tree!Insert,
      Table!Tree!Value, Table!Tree!NoDoc, TableProofs!Tree!MappingStart,
      TableProofs!Tree!SequenceStart, TableProofs!Tree!Scalar,
      TableProofs!Tree!MappingEnd, TableProofs!Tree!SequenceEnd,
      TableProofs!Tree!ContainerEnd, TableProofs!Tree!StreamStart,
      TableProofs!Tree!DocumentStart, TableProofs!Tree!DocumentEnd,
      TableProofs!Tree!StreamEnd, TableProofs!Tree!SyntaxError,
      TableProofs!Tree!Restart, TableProofs!Tree!ContainerAllowed,
      TableProofs!Tree!Placed, TableProofs!Tree!Inside,
      TableProofs!Tree!Position, TableProofs!Tree!NextPosition,
      TableProofs!Tree!Emit, TableProofs!Tree!NoEvent, TableProofs!Tree!Init,
      TableProofs!Tree!yamlVars, TableProofs!Tree!TreeInit,
      TableProofs!Tree!TreeNext, TableProofs!Tree!treeVars,
      TableProofs!Tree!TreeBegin, TableProofs!Tree!TreeEvent,
      TableProofs!Tree!TreeReturn, TableProofs!Tree!TreeDiscard,
      TableProofs!Tree!TreeCrash, TableProofs!Tree!TreeContainer,
      TableProofs!Tree!TreeScalar, TableProofs!Tree!WithNode,
      TableProofs!Tree!Insert, TableProofs!Tree!Value, TableProofs!Tree!NoDoc,
      Table!Document, TableProofs!Document, Table!Values, TableProofs!Values, Table!Node, TableProofs!Node
<1> QED
  BY <1>2, <1>3, <1>4, BuildsTheNodes, PTL
  DEF ImplementsNodes, ImplementsYamlTree, TableProofs!NodesSpec, Table!NodesSpec,
      TableProofs!ImplementsTree, Table!ImplementsTree,
      TableProofs!Tree!TreeSpec, Table!Tree!TreeSpec

-------------------------------------------------------------------------------
(* The queries as questions asked of the table of nodes. *)

(* The first item of node x with the key. *)
FirstUnder(x, key) ==
  LET found == {i \in DOMAIN x.items : x.items[i].key = key}
  IN  IF x.type = "MAP" /\ found # {} THEN x.items[Min(found)].value ELSE NULL

Under(nodes, n, key) == IF n = NULL THEN NULL ELSE FirstUnder(nodes[n], key)

OfType(nodes, n, types) == n # NULL /\ nodes[n].type \in types

(* Node n if it is of one of the types, or the constant that it wraps. *)
Typed(nodes, n, types) ==
  IF OfType(nodes, n, types) THEN n
  ELSE IF OfType(nodes, Under(nodes, n, CNST), types) THEN Under(nodes, n, CNST)
  ELSE NULL

ItemAt(x, index) ==
  IF x.type = "SEQUENCE" /\ index < Len(x.items) THEN x.items[index + 1].value ELSE NULL

(* Whatever a query answers is what the table says, and leads into it again, *)
(* so that answers can be asked further.                                      *)
QueriesReadTable ==
  LET nodes == NodesOf(mem)
      Known == DOMAIN nodes \union {NULL}
  IN  /\ root \in Known
      /\ \A n \in Known : \A key \in Texts :
           LET child == Under(nodes, n, key)
           IN  /\ child \in Known
               /\ partfx_get(mem, n, key) = child
               /\ partfx_get_int(mem, n, key) = Typed(nodes, child, {"INT", "FLOAT"})
               /\ partfx_get_float(mem, n, key) = Typed(nodes, child, {"INT", "FLOAT"})
               /\ partfx_get_string(mem, n, key) = Typed(nodes, child, {"STRING"})
               /\ partfx_get_bool(mem, n, key) =
                    IF OfType(nodes, child, {"BOOL"}) THEN child ELSE NULL
      /\ \A n \in DOMAIN nodes : \A index \in Nat :
           /\ ItemAt(nodes[n], index) \in Known
           /\ partfx_sequence_get(mem, n, index) = ItemAt(nodes[n], index)

LEMMA ItemRead ==
  ASSUME NEW m, HeapSound(m), NEW a, ContainerAt(m, a)
  PROVE  /\ m.heap[a].count \in Nat
         /\ NodeOf(m, a).items = [i \in 1..m.heap[a].count |-> ItemOf(m, ItemsOf(m, a)[i])]
         /\ Len(NodeOf(m, a).items) = m.heap[a].count
         /\ \A i \in 1..m.heap[a].count :
              /\ NodeOf(m, a).items[i].value = ItemsOf(m, a)[i].value
              /\ NodeAt(m, ItemsOf(m, a)[i].value)
<1> DEFINE n == m.heap[a].count
<1>1. n \in Nat  BY MemFields DEF HeapSound, ContainerAt
<1>2. NodeOf(m, a).items = [i \in 1..n |-> ItemOf(m, ItemsOf(m, a)[i])]
  BY DEF NodeOf, ContainerAt
<1>3. \A i \in 1..n : NodeAt(m, ItemsOf(m, a)[i].value)  BY ItemSound DEF SlotSound
<1> HIDE DEF n
<1>4. Len(NodeOf(m, a).items) = n  BY <1>1, <1>2
<1>5. \A i \in 1..n : NodeOf(m, a).items[i].value = ItemsOf(m, a)[i].value
  BY <1>2 DEF ItemOf
<1> QED  BY <1>1, <1>2, <1>3, <1>4, <1>5 DEF n

LEMMA GetReads ==
  ASSUME NEW m, HeapSound(m), NEW a, NodeAt(m, a), NEW key \in Texts
  PROVE  /\ partfx_get(m, a, key) = FirstUnder(NodeOf(m, a), key)
         /\ partfx_get(m, a, key) # NULL => NodeAt(m, partfx_get(m, a, key))
<1> DEFINE n == m.heap[a].count
           x == NodeOf(m, a)
           S == Matches(m, a, key)
<1>1. a # NULL /\ x.type = m.heap[a].type
  BY MemFields DEF HeapSound, NodeAt, NULL, NodeOf
<1>2. CASE m.heap[a].type = "MAP"
  <2>1. ContainerAt(m, a)  BY <1>2 DEF ContainerAt, NodeAt, IsContainer
  <2>2. /\ n \in Nat /\ x.items = [i \in 1..n |-> ItemOf(m, ItemsOf(m, a)[i])]
        /\ \A i \in 1..n : x.items[i].value = ItemsOf(m, a)[i].value
                           /\ NodeAt(m, ItemsOf(m, a)[i].value)
    BY <2>1, ItemRead
  <2>3. ASSUME NEW i \in 1..n
        PROVE  x.items[i].key = m.heap[ItemsOf(m, a)[i].key].text
    <3> DEFINE p == m.heap[a].ptr
    <3>1. p \in Addr(m) /\ DOMAIN m.heap[p].slots = 0..(n - 1) /\ Keyed(m.heap[p])
      BY <1>2, <2>1 DEF HeapSound, ArraysSound, FitsArray, ArrayAt, ContainerAt
    <3>2. i - 1 \in DOMAIN m.heap[p].slots  BY <2>2, <3>1
    <3>3. ItemsOf(m, a)[i] = m.heap[p].slots[i - 1]  BY DEF ItemsOf
    <3>4. ItemsOf(m, a)[i].key # NULL  BY <3>1, <3>2, <3>3 DEF Keyed
    <3> HIDE DEF n, x
    <3>5. x.items[i] = ItemOf(m, ItemsOf(m, a)[i])  BY <2>2
    <3> QED  BY <3>4, <3>5 DEF ItemOf, KeyText
  <2>4. DOMAIN x.items = 1..n  BY <2>2
  <2>5. S = {i \in 1..n : m.heap[ItemsOf(m, a)[i].key].text = key}  BY DEF Matches
  <2>6. partfx_get(m, a, key) = IF S # {} THEN ItemsOf(m, a)[Min(S)].value ELSE NULL
    BY <1>1, <1>2 DEF partfx_get, HasType
  <2> HIDE DEF n, x, S
  <2>7. {i \in DOMAIN x.items : x.items[i].key = key} = S  BY <2>3, <2>4, <2>5
  <2>8. FirstUnder(x, key) = IF S # {} THEN x.items[Min(S)].value ELSE NULL
    BY <1>1, <1>2, <2>7 DEF FirstUnder
  <2>9. S # {} => Min(S) \in 1..n
    <3>1. S \subseteq Nat /\ S \subseteq 1..n  BY <2>2, <2>5
    <3> QED  BY <3>1, LeastExists
  <2> QED  BY <2>2, <2>6, <2>8, <2>9 DEF x
<1>3. CASE m.heap[a].type # "MAP"
  BY <1>1, <1>3 DEF partfx_get, HasType, FirstUnder
<1> QED  BY <1>2, <1>3

LEMMA SequenceReads ==
  ASSUME NEW m, HeapSound(m), NEW a, NodeAt(m, a), NEW index \in Nat
  PROVE  /\ partfx_sequence_get(m, a, index) = ItemAt(NodeOf(m, a), index)
         /\ ItemAt(NodeOf(m, a), index) # NULL => NodeAt(m, ItemAt(NodeOf(m, a), index))
<1> DEFINE n == m.heap[a].count
           x == NodeOf(m, a)
<1>1. a # NULL /\ x.type = m.heap[a].type
  BY MemFields DEF HeapSound, NodeAt, NULL, NodeOf
<1>2. CASE m.heap[a].type = "SEQUENCE"
  <2>1. ContainerAt(m, a)  BY <1>2 DEF ContainerAt, NodeAt, IsContainer
  <2>2. /\ n \in Nat /\ Len(x.items) = n
        /\ \A i \in 1..n : /\ x.items[i].value = ItemsOf(m, a)[i].value
                           /\ NodeAt(m, ItemsOf(m, a)[i].value)
    BY <2>1, ItemRead
  <2>3. partfx_sequence_length(m, a) = n
    BY <1>1, <1>2 DEF partfx_sequence_length, HasType
  <2> HIDE DEF n, x
  <2>4. index < n => index + 1 \in 1..n  BY <2>2
  <2>5. ItemAt(x, index) = IF index < n THEN x.items[index + 1].value ELSE NULL
    BY <1>1, <1>2, <2>2 DEF ItemAt
  <2> QED  BY <2>2, <2>3, <2>4, <2>5 DEF partfx_sequence_get, x
<1>3. CASE m.heap[a].type # "SEQUENCE"
  <2>1. partfx_sequence_length(m, a) = 0  BY <1>3 DEF partfx_sequence_length, HasType
  <2> QED  BY <1>1, <1>3, <2>1 DEF partfx_sequence_get, ItemAt
<1> QED  BY <1>2, <1>3

LEMMA UnderReads ==
  ASSUME NEW m, HeapSound(m), NEW a, a = NULL \/ NodeAt(m, a), NEW key \in Texts
  PROVE  /\ partfx_get(m, a, key) = Under(NodesOf(m), a, key)
         /\ partfx_get(m, a, key) = NULL \/ NodeAt(m, partfx_get(m, a, key))
<1>1. CASE a = NULL  BY <1>1 DEF partfx_get, HasType, Under
<1>2. CASE NodeAt(m, a)
  <2>1. a # NULL  BY <1>2, MemFields DEF HeapSound, NodeAt, NULL
  <2> QED  BY <1>2, <2>1, GetReads, TableAt DEF Under
<1> QED  BY <1>1, <1>2

LEMMA TypeReads ==
  ASSUME NEW m, HeapSound(m), NEW a, a = NULL \/ NodeAt(m, a), NEW types
  PROVE  (\E type \in types : HasType(m, a, type)) <=> OfType(NodesOf(m), a, types)
<1>1. NodeAt(m, a) => NodesOf(m)[a].type = m.heap[a].type
  <2>1. NodeOf(m, a).type = m.heap[a].type  BY DEF NodeOf
  <2> QED  BY <2>1, TableAt
<1> QED  BY <1>1 DEF HasType, OfType

LEMMA TypedReads ==
  ASSUME NEW m, HeapSound(m), NEW a, a = NULL \/ NodeAt(m, a), NEW types
  PROVE  Unwrapped(m, a, types) = Typed(NodesOf(m), a, types)
<1> DEFINE w == partfx_get(m, a, CNST)
<1>1. w = Under(NodesOf(m), a, CNST) /\ (w = NULL \/ NodeAt(m, w))
  BY UnderReads, QueryAssumption
<1>2. (\E type \in types : HasType(m, a, type)) <=> OfType(NodesOf(m), a, types)
  BY TypeReads
<1> HIDE DEF w
<1>3. (\E type \in types : HasType(m, w, type)) <=> OfType(NodesOf(m), w, types)
  BY <1>1, TypeReads
<1>4. Unwrapped(m, a, types) =
        IF \E type \in types : HasType(m, a, type) THEN a
        ELSE IF \E type \in types : HasType(m, w, type) THEN w ELSE NULL
  BY DEF Unwrapped, w
<1> QED  BY <1>1, <1>2, <1>3, <1>4, Zenon DEF Typed

(* Every query answers what the table of nodes says, of any map, sequence  *)
(* or missing node, in every state, in the middle of a parse and after an  *)
(* error: the first entry under a key, the item at an index and nothing    *)
(* past the end, a value of the types asked for or the constant wrapped in *)
(* one (partfx_get, partfx_get_int and its like, partfx_sequence_get).     *)
THEOREM QueriesAlwaysRead == Spec => []QueriesReadTable
<1>1. ASSUME IInv PROVE QueriesReadTable
  <2> DEFINE nodes == NodesOf(mem)
             Known == DOMAIN nodes \union {NULL}
  <2>1. HeapSound(mem)  BY <1>1 DEF IInv
  <2>2. \A n : n \in Known <=> n = NULL \/ NodeAt(mem, n)  BY TableAt
  <2>3. root \in Known
    BY <1>1, <2>2 DEF IInv, RootSound, NodeAt, NodeTypes
  <2>4. ASSUME NEW n \in Known, NEW key \in Texts
        PROVE  LET child == Under(nodes, n, key)
               IN  /\ child \in Known
                   /\ partfx_get(mem, n, key) = child
                   /\ partfx_get_int(mem, n, key) = Typed(nodes, child, {"INT", "FLOAT"})
                   /\ partfx_get_float(mem, n, key) = Typed(nodes, child, {"INT", "FLOAT"})
                   /\ partfx_get_string(mem, n, key) = Typed(nodes, child, {"STRING"})
                   /\ partfx_get_bool(mem, n, key) =
                        IF OfType(nodes, child, {"BOOL"}) THEN child ELSE NULL
    <3> DEFINE child == partfx_get(mem, n, key)
    <3>1. child = Under(nodes, n, key) /\ (child = NULL \/ NodeAt(mem, child))
      BY <2>1, <2>2, <2>4, UnderReads
    <3>2. child \in Known  BY <2>2, <3>1
    <3>3. /\ partfx_get_int(mem, n, key) = Unwrapped(mem, child, {"INT", "FLOAT"})
          /\ partfx_get_float(mem, n, key) = Unwrapped(mem, child, {"INT", "FLOAT"})
          /\ partfx_get_string(mem, n, key) = Unwrapped(mem, child, {"STRING"})
      BY DEF partfx_get_int, partfx_get_float, partfx_get_string, Numbers
    <3>4. partfx_get_bool(mem, n, key) = IF HasType(mem, child, "BOOL") THEN child ELSE NULL
      BY DEF partfx_get_bool
    <3> HIDE DEF child, nodes, Known
    <3>5. \A types : Unwrapped(mem, child, types) = Typed(nodes, child, types)
      BY <2>1, <3>1, TypedReads DEF nodes
    <3>6. HasType(mem, child, "BOOL") <=> OfType(nodes, child, {"BOOL"})
      <4>1. (\E type \in {"BOOL"} : HasType(mem, child, type))
              <=> OfType(nodes, child, {"BOOL"})
        BY <2>1, <3>1, TypeReads DEF nodes
      <4> QED  BY <4>1
    <3>7. partfx_get(mem, n, key) = child  BY DEF child
    <3>8. partfx_get_bool(mem, n, key) = IF OfType(nodes, child, {"BOOL"}) THEN child ELSE NULL
      BY <3>4, <3>6
    <3> QED  BY <3>1, <3>2, <3>3, <3>5, <3>7, <3>8
  <2>5. ASSUME NEW n \in DOMAIN nodes, NEW index \in Nat
        PROVE  /\ ItemAt(nodes[n], index) \in Known
               /\ partfx_sequence_get(mem, n, index) = ItemAt(nodes[n], index)
    <3>1. NodeAt(mem, n) /\ nodes[n] = NodeOf(mem, n)  BY TableAt
    <3> QED  BY <2>1, <2>2, <3>1, SequenceReads
  <2> QED  BY <2>3, <2>4, <2>5 DEF QueriesReadTable
<1> QED  BY <1>1, Inductive, PTL
-------------------------------------------------------------------------------
(* The queries as questions asked of the document. *)

ArenaSound == HeapSound(mem) /\ TreeSound(mem)

Known(n) == n = NULL \/ NodeAt(mem, n)

LEMMA KeyTextIsKey ==
  ASSUME NEW m, HeapSound(m), NEW slot, SlotSound(m, slot)
  PROVE  KeyText(m, slot) \in TableProofs!Keys /\ slot.value \in Nat
<1>1. slot.value \in Nat  BY MemFields DEF HeapSound, SlotSound, NodeAt
<1> QED  BY <1>1 DEF KeyText, SlotSound, StringAt, TableProofs!Keys

LEMMA TextIsKey ==
  ASSUME NEW m, HeapSound(m), NEW a, NodeAt(m, a)
  PROVE  TextOf(m, a) \in TableProofs!Keys
<1>1. m \in MemSet /\ a \in Addr(m)  BY DEF HeapSound, NodeAt
<1>2. m.heap[a] \in BlockSet  BY <1>1, MemFields
<1>3. m.heap[a].text \in Texts \union {NoText}  BY <1>2 DEF BlockSet
<1>4. m.heap[a].type = "STRING" => m.heap[m.heap[a].ptr].text \in Texts
  BY <1>1 DEF HeapSound, StringsSound, StringAt
<1> QED  BY <1>3, <1>4 DEF TextOf, TableProofs!Keys

LEMMA NodeTyped ==
  ASSUME NEW m, HeapSound(m), NEW a, NodeAt(m, a)
  PROVE  NodeOf(m, a) \in TableProofs!NodeSet
<1> DEFINE x == m.heap[a].type
           y == TextOf(m, a)
           s == NodeOf(m, a).items
<1>1. NodeOf(m, a) = [type |-> x, text |-> y, items |-> s]  BY DEF NodeOf
<1>2. x \in TableProofs!Types  BY DEF NodeAt, NodeTypes, TableProofs!Types
<1>3. y \in TableProofs!Keys  BY TextIsKey
<1>4. s \in Seq(TableProofs!Entries)
  <2>1. CASE ContainerAt(m, a)
    <3> DEFINE n == m.heap[a].count
    <3>1. n \in Nat /\ s = [i \in 1..n |-> ItemOf(m, ItemsOf(m, a)[i])]
      BY <2>1, ItemRead
    <3>2. \A i \in 1..n : SlotSound(m, ItemsOf(m, a)[i])  BY <2>1, ItemSound
    <3>3. \A i \in 1..n : ItemOf(m, ItemsOf(m, a)[i]) \in TableProofs!Entries
      BY <3>2, KeyTextIsKey DEF ItemOf, TableProofs!Entries
    <3> HIDE DEF n, s
    <3> QED  BY <3>1, <3>3
  <2>2. CASE ~ContainerAt(m, a)
    <3>1. s = <<>>  BY <2>2 DEF NodeOf, ContainerAt, NodeAt
    <3> HIDE DEF s
    <3> QED  BY <3>1
  <2> QED  BY <2>1, <2>2
<1> HIDE DEF x, y, s
<1> QED  BY <1>1, <1>2, <1>3, <1>4 DEF TableProofs!NodeSet

(* The table of an arena's nodes has a value for each. *)
LEMMA TableOfArena ==
  ASSUME ArenaSound
  PROVE  TableProofs!TableSound(NodesOf(mem))
<1> DEFINE T == NodesOf(mem)
<1>1. HeapSound(mem) /\ TreeSound(mem)  BY DEF ArenaSound
<1>2. T = [n \in DOMAIN T |-> T[n]]  BY DEF NodesOf
<1>3. \A n \in DOMAIN T : NodeAt(mem, n) /\ T[n] = NodeOf(mem, n)  BY TableAt
<1>4. \A n : NodeAt(mem, n) => n \in DOMAIN T  BY TableAt
<1> HIDE DEF T
<1>5. \A n \in DOMAIN T : T[n] \in TableProofs!NodeSet  BY <1>1, <1>3, NodeTyped
<1>6. T \in [DOMAIN T -> TableProofs!NodeSet]  BY <1>2, <1>5
<1>7. mem.next \in Nat /\ DOMAIN T \subseteq 0..mem.next
  <2>1. mem.next \in Nat /\ \A n \in Addr(mem) : n \in Nat /\ mem.heap[n].size \in Nat \ {0}
    BY <1>1, MemFields DEF HeapSound
  <2>2. \A n \in Addr(mem) : n + mem.heap[n].size <= mem.next
    BY <1>1 DEF HeapSound, Apart
  <2>3. \A n \in DOMAIN T : n \in Addr(mem)  BY <1>3 DEF NodeAt
  <2> QED  BY <2>1, <2>2, <2>3
<1>8. ASSUME NEW n, NEW i, NEW c, TableProofs!Has(T, n, i, c)
      PROVE  c \in DOMAIN T /\ n < c
  <2>1. /\ n \in DOMAIN T /\ i \in 1..Len(NodeOf(mem, n).items)
        /\ c = NodeOf(mem, n).items[i].value /\ NodeAt(mem, n)
    BY <1>3, <1>8 DEF TableProofs!Has
  <2>2. ContainerAt(mem, n)
    <3>1. CASE ~IsContainer(mem.heap[n])
      <4>1. NodeOf(mem, n).items = <<>> /\ Len(<<>>) = 0 /\ 1..0 = {}
        BY <3>1 DEF NodeOf
      <4> QED  BY <2>1, <4>1
    <3> QED  BY <2>1, <3>1 DEF ContainerAt, NodeAt
  <2>3. i \in 1..mem.heap[n].count /\ c = ItemsOf(mem, n)[i].value /\ NodeAt(mem, c)
    <3> DEFINE x == NodeOf(mem, n)
               k == mem.heap[n].count
    <3>1. /\ Len(x.items) = k
          /\ \A j \in 1..k : /\ x.items[j].value = ItemsOf(mem, n)[j].value
                             /\ NodeAt(mem, ItemsOf(mem, n)[j].value)
      BY <1>1, <2>2, ItemRead
    <3>2. i \in 1..Len(x.items) /\ c = x.items[i].value  BY <2>1
    <3> HIDE DEF x, k
    <3>3. i \in 1..k /\ c = ItemsOf(mem, n)[i].value /\ NodeAt(mem, c)
      BY <3>1, <3>2
    <3> QED  BY <3>3 DEF k
  <2>4. Holds(mem, n, i, c)  BY <2>2, <2>3 DEF Holds
  <2>5. c > n  BY <1>1, <2>4 DEF TreeSound
  <2>6. n \in Nat /\ c \in Nat  BY <1>1, <2>1, <2>3, MemFields DEF HeapSound, NodeAt
  <2> QED  BY <1>4, <2>3, <2>5, <2>6
<1>9. TableProofs!TableSound(T)  BY <1>6, <1>7, <1>8 DEF TableProofs!TableSound
<1> QED  BY <1>9 DEF T

LEMMA SameTableValues ==
  ASSUME NEW T
  PROVE  Table!Values(T) = TableProofs!Values(T)
BY Zenon DEF Table!Values, TableProofs!Values

(* What is read at a node is the node with what it holds read in turn. *)
LEMMA ReadFields ==
  ASSUME ArenaSound, NEW n, NodeAt(mem, n)
  PROVE  LET x == NodeOf(mem, n) IN
         /\ n # NULL
         /\ Read(n).type = x.type
         /\ Len(x.items) \in Nat
         /\ DOMAIN x.items = 1..Len(x.items)
         /\ DOMAIN Read(n).items = 1..Len(x.items)
         /\ Len(Read(n).items) = Len(x.items)
         /\ \A i \in 1..Len(x.items) :
              /\ Read(n).items[i].key = x.items[i].key
              /\ Read(n).items[i].value = Read(x.items[i].value)
              /\ NodeAt(mem, x.items[i].value)
<1> DEFINE T == NodesOf(mem)
           x == NodeOf(mem, n)
<1>1. HeapSound(mem)  BY DEF ArenaSound
<1>2. n \in DOMAIN T /\ T[n] = x  BY TableAt
<1>3. \A a : NodeAt(mem, a) => a # NULL
  BY <1>1, MemFields DEF HeapSound, NodeAt, NULL
<1>4. \A a : a # NULL => Read(a) = TableProofs!Values(T)[a]
  BY SameTableValues DEF Read
<1>5. TableProofs!TableSound(T)  BY TableOfArena
<1>6. \A i \in 1..Len(x.items) : NodeAt(mem, x.items[i].value)
  <2> SUFFICES ASSUME NEW i \in 1..Len(x.items) PROVE NodeAt(mem, x.items[i].value)
    OBVIOUS
  <2> HIDE DEF T, x
  <2>1. TableProofs!Has(T, n, i, T[n].items[i].value)
    BY <1>2 DEF TableProofs!Has
  <2>2. T[n].items[i].value \in DOMAIN T  BY <1>5, <2>1 DEF TableProofs!TableSound
  <2> QED  BY <1>2, <2>2, TableAt DEF T
<1> HIDE DEF T, x
<1>7. /\ TableProofs!Values(T)[n].type = T[n].type
      /\ Len(T[n].items) \in Nat
      /\ Len(TableProofs!Values(T)[n].items) = Len(T[n].items)
      /\ DOMAIN TableProofs!Values(T)[n].items = 1..Len(T[n].items)
      /\ \A i \in 1..Len(T[n].items) :
           TableProofs!Values(T)[n].items[i] =
             [key   |-> T[n].items[i].key,
              value |-> TableProofs!Values(T)[T[n].items[i].value]]
  BY <1>2, <1>5, TableProofs!ValueFields
<1>8. DOMAIN T[n].items = 1..Len(T[n].items)
  BY <1>2, <1>5, TableProofs!NodeFields
<1>9. \A i \in 1..Len(x.items) :
        /\ Read(n).items[i].key = x.items[i].key
        /\ Read(n).items[i].value = Read(x.items[i].value)
  <2> DEFINE v == TableProofs!Values(T)
  <2>1. Read(n) = v[n] /\ T[n] = x  BY <1>2, <1>3, <1>4
  <2>2. \A i \in 1..Len(x.items) : Read(x.items[i].value) = v[x.items[i].value]
    BY <1>3, <1>4, <1>6
  <2>3. \A i \in 1..Len(x.items) :
          v[n].items[i] = [key |-> x.items[i].key, value |-> v[x.items[i].value]]
    BY <1>7, <2>1
  <2> HIDE DEF v
  <2>4. ASSUME NEW i \in 1..Len(x.items)
        PROVE  /\ Read(n).items[i].key = x.items[i].key
               /\ Read(n).items[i].value = Read(x.items[i].value)
    <3>1. v[n].items[i] = [key |-> x.items[i].key, value |-> v[x.items[i].value]]
      BY <2>3
    <3>2. v[n].items[i].key = x.items[i].key /\ v[n].items[i].value = v[x.items[i].value]
      BY <3>1
    <3>3. Read(n).items[i] = v[n].items[i]  BY <2>1
    <3> QED  BY <2>2, <3>2, <3>3
  <2> QED  BY <2>4
<1> QED  BY <1>2, <1>3, <1>4, <1>6, <1>7, <1>8, <1>9 DEF x

LEMMA MissingIs == Missing.type = "NULL" /\ Read(NULL) = Missing
BY DEF Missing, Table!Node, Read

(* A lookup reads what the document has under the key. *)
LEMMA GetReadsValue ==
  ASSUME ArenaSound, NEW n, Known(n), NEW key \in Texts
  PROVE  /\ Known(partfx_get(mem, n, key))
         /\ Read(partfx_get(mem, n, key)) = ValueUnder(Read(n), key)
<1> DEFINE c == partfx_get(mem, n, key)
<1>1. HeapSound(mem)  BY DEF ArenaSound
<1>2. Known(c) /\ c = Under(NodesOf(mem), n, key)  BY <1>1, UnderReads DEF Known
<1>3. CASE n = NULL
  <2>1. c = NULL  BY <1>2, <1>3 DEF Under
  <2>2. ValueUnder(Read(n), key) = Missing  BY <1>3, MissingIs DEF ValueUnder
  <2> QED  BY <1>2, <2>1, <2>2, MissingIs
<1>4. CASE NodeAt(mem, n)
  <2> DEFINE x == NodeOf(mem, n)
             S == {i \in DOMAIN x.items : x.items[i].key = key}
             V == {i \in DOMAIN Read(n).items : Read(n).items[i].key = key}
  <2>1. /\ n # NULL /\ Read(n).type = x.type /\ Len(x.items) \in Nat
        /\ DOMAIN x.items = 1..Len(x.items) /\ DOMAIN Read(n).items = 1..Len(x.items)
        /\ \A i \in 1..Len(x.items) :
              /\ Read(n).items[i].key = x.items[i].key
              /\ Read(n).items[i].value = Read(x.items[i].value)
    BY <1>4, ReadFields
  <2>2. V = S  BY <2>1
  <2>3. c = IF x.type = "MAP" /\ S # {} THEN x.items[Min(S)].value ELSE NULL
    <3>1. NodesOf(mem)[n] = x  BY <1>4, TableAt
    <3>2. c = FirstUnder(x, key)
      <4> HIDE DEF c, x
      <4> QED  BY <1>2, <2>1, <3>1 DEF Under, c
    <3> HIDE DEF c, x
    <3> QED  BY <3>2, Zenon DEF FirstUnder
  <2>4. ValueUnder(Read(n), key) =
          IF x.type = "MAP" /\ V # {} THEN Read(n).items[Min(V)].value ELSE Missing
    BY <2>1 DEF ValueUnder
  <2>5. S # {} => Min(S) \in 1..Len(x.items)
    <3>1. S \subseteq Nat /\ S \subseteq 1..Len(x.items)  BY <2>1
    <3> HIDE DEF S
    <3> QED  BY <3>1, LeastExists
  <2> HIDE DEF x, S, V, c
  <2>6. CASE x.type = "MAP" /\ S # {}
    BY <2>1, <2>2, <2>3, <2>4, <2>5, <2>6, <1>2 DEF c
  <2>7. CASE ~(x.type = "MAP" /\ S # {})
    BY <2>2, <2>3, <2>4, <2>7, <1>2, MissingIs DEF c
  <2> QED  BY <2>6, <2>7
<1> QED  BY <1>3, <1>4 DEF Known

LEMMA TypeReadsValue ==
  ASSUME ArenaSound, NEW n, Known(n), NEW types, "NULL" \notin types
  PROVE  (\E type \in types : HasType(mem, n, type)) <=> Read(n).type \in types
<1>1. NodeAt(mem, n) => n # NULL /\ Read(n).type = mem.heap[n].type
  BY ReadFields DEF NodeOf
<1> QED  BY <1>1, MissingIs DEF Known, HasType

LEMMA TypedReadsValue ==
  ASSUME ArenaSound, NEW n, Known(n), NEW key \in Texts, NEW types, "NULL" \notin types
  PROVE  Read(Unwrapped(mem, partfx_get(mem, n, key), types)) =
           ValueTyped(Read(n), key, types)
<1> DEFINE c == partfx_get(mem, n, key)
           w == partfx_get(mem, c, CNST)
<1>1. Known(c) /\ Read(c) = ValueUnder(Read(n), key)  BY GetReadsValue
<1> HIDE DEF c
<1>2. Known(w) /\ Read(w) = ValueUnder(Read(c), CNST)
  BY <1>1, GetReadsValue, QueryAssumption
<1>3. (\E type \in types : HasType(mem, c, type)) <=> Read(c).type \in types
  BY <1>1, TypeReadsValue
<1> HIDE DEF w
<1>4. (\E type \in types : HasType(mem, w, type)) <=> Read(w).type \in types
  BY <1>2, TypeReadsValue
<1>5. Unwrapped(mem, c, types) =
        IF \E type \in types : HasType(mem, c, type) THEN c
        ELSE IF \E type \in types : HasType(mem, w, type) THEN w ELSE NULL
  BY DEF Unwrapped, w
<1>6. ValueTyped(Read(n), key, types) =
        IF Read(c).type \in types THEN Read(c)
        ELSE IF Read(w).type \in types THEN Read(w) ELSE Missing
  BY <1>1, <1>2 DEF ValueTyped
<1>7. Read(Unwrapped(mem, c, types)) = ValueTyped(Read(n), key, types)
  BY <1>3, <1>4, <1>5, <1>6, MissingIs
<1> QED  BY <1>7 DEF c

LEMMA SequenceReadsValue ==
  ASSUME ArenaSound, NEW n, Known(n), Read(n).type = "SEQUENCE"
  PROVE  /\ partfx_sequence_length(mem, n) = Len(Read(n).items)
         /\ \A i \in 0..Len(Read(n).items) :
              Read(partfx_sequence_get(mem, n, i)) =
                IF i < Len(Read(n).items) THEN Read(n).items[i + 1].value ELSE Missing
<1> DEFINE x == NodeOf(mem, n)
<1>1. HeapSound(mem) /\ NodeAt(mem, n)  BY MissingIs DEF ArenaSound, Known
<1>2. /\ n # NULL /\ x.type = "SEQUENCE" /\ Len(x.items) \in Nat
      /\ Len(Read(n).items) = Len(x.items)
      /\ \A i \in 1..Len(x.items) : Read(n).items[i].value = Read(x.items[i].value)
  BY <1>1, ReadFields
<1>3. x.type = mem.heap[n].type  BY DEF NodeOf
<1>4. ContainerAt(mem, n)  BY <1>1, <1>2, <1>3 DEF ContainerAt, NodeAt, IsContainer
<1>5. mem.heap[n].count = Len(x.items)  BY <1>1, <1>4, ItemRead
<1>6. partfx_sequence_length(mem, n) = Len(x.items)
  BY <1>2, <1>3, <1>5 DEF partfx_sequence_length, HasType
<1>7. ASSUME NEW i \in 0..Len(x.items)
      PROVE  Read(partfx_sequence_get(mem, n, i)) =
               IF i < Len(x.items) THEN Read(n).items[i + 1].value ELSE Missing
  <2>1. i \in Nat  BY <1>2
  <2>2. partfx_sequence_get(mem, n, i) = ItemAt(x, i)  BY <1>1, <2>1, SequenceReads
  <2> HIDE DEF x
  <2>3. CASE i < Len(x.items)
    <3>1. i + 1 \in 1..Len(x.items)  BY <1>2, <2>1, <2>3
    <3>2. ItemAt(x, i) = x.items[i + 1].value  BY <1>2, <2>3 DEF ItemAt
    <3> QED  BY <1>2, <2>2, <2>3, <3>1, <3>2
  <2>4. CASE ~(i < Len(x.items))
    <3>1. ItemAt(x, i) = NULL  BY <2>4 DEF ItemAt
    <3> QED  BY <2>2, <2>4, <3>1, MissingIs
  <2> QED  BY <2>3, <2>4
<1> QED  BY <1>2, <1>6, <1>7

-------------------------------------------------------------------------------
(* Paths: a walk through the arena and one through the document take the   *)
(* same steps.                                                             *)

(* s holds the node after each of the first k steps. *)
AreSteps(m, from, path, s, k) ==
  s = [i \in 0..k |-> IF i = 0 THEN from ELSE partfx_get(m, s[i - 1], path[i])]

(* at holds the value after each step. *)
AreValueSteps(value, path, at) ==
  at = [i \in 0..Len(path) |-> IF i = 0 THEN value ELSE ValueUnder(at[i - 1], path[i])]

LEMMA StepsExist ==
  ASSUME NEW m, NEW from, NEW path, NEW k \in Nat
  PROVE  \E s : AreSteps(m, from, path, s, k)
<1> DEFINE Bad == {j \in Nat : ~ \E s : AreSteps(m, from, path, s, j)}
<1>1. SUFFICES ASSUME k \in Bad PROVE FALSE  OBVIOUS
<1>2. PICK j \in Bad : \A i \in Bad : j <= i
  <2> HIDE DEF Bad
  <2>1. Bad \subseteq Nat  BY DEF Bad
  <2> QED  BY <1>1, <2>1, LeastExists
<1>3. j \in Nat /\ ~ \E s : AreSteps(m, from, path, s, j)  OBVIOUS
<1>4. CASE j = 0
  <2> DEFINE s == [i \in 0..0 |-> from]
  <2>1. \A i \in 0..0 : i = 0  OBVIOUS
  <2>2. [i \in 0..0 |-> IF i = 0 THEN from ELSE partfx_get(m, s[i - 1], path[i])] = s
    BY <2>1
  <2> HIDE DEF s
  <2>3. AreSteps(m, from, path, s, 0)  BY <2>2 DEF AreSteps
  <2> QED  BY <1>3, <1>4, <2>3
<1>5. CASE j # 0
  <2>1. j - 1 \in Nat /\ ~(j <= j - 1)  BY <1>3, <1>5
  <2>2. j - 1 \notin Bad  BY <1>2, <2>1
  <2>3. PICK s : AreSteps(m, from, path, s, j - 1)  BY <2>1, <2>2
  <2> DEFINE f(t, i) == IF i = 0 THEN from ELSE partfx_get(m, t[i - 1], path[i])
             t == [i \in 0..j |-> IF i = j THEN f(s, j) ELSE s[i]]
  <2>4. \A i \in 0..(j - 1) : s[i] = f(s, i)
    <3>1. s = [i \in 0..(j - 1) |-> f(s, i)]  BY <2>3 DEF AreSteps
    <3> HIDE DEF f
    <3> QED  BY <3>1
  <2>5. \A i \in 0..j : i # j => i \in 0..(j - 1)  BY <1>3
  <2>6. \A i \in 0..j : i # 0 => i - 1 \in 0..j /\ i - 1 # j  BY <1>3
  <2>7. \A i \in 0..(j - 1) : t[i] = s[i]
    <3>1. \A i \in 0..(j - 1) : i \in 0..j /\ i # j  BY <1>3
    <3> HIDE DEF f
    <3> QED  BY <3>1
  <2>8. \A i \in 0..j : f(t, i) = f(s, i)
    <3>1. \A i \in 0..j : i # 0 => t[i - 1] = s[i - 1]
      <4> HIDE DEF t, f
      <4> QED  BY <2>5, <2>6, <2>7
    <3> HIDE DEF t
    <3> QED  BY <3>1, Zenon
  <2>9. \A i \in 0..j : t[i] = f(s, i)
    <3>1. \A i \in 0..j : t[i] = IF i = j THEN f(s, j) ELSE s[i]
      BY Zenon
    <3> HIDE DEF t, f
    <3> QED  BY <2>4, <2>5, <3>1
  <2>10. t = [i \in 0..j |-> t[i]]  BY Zenon
  <2> HIDE DEF t
  <2>11. t = [i \in 0..j |-> f(t, i)]
    <3> HIDE DEF f
    <3> QED  BY <2>8, <2>9, <2>10
  <2>12. AreSteps(m, from, path, t, j)  BY <2>11, Zenon DEF AreSteps
  <2> QED  BY <1>3, <2>12
<1> QED  BY <1>4, <1>5

(* Whatever values satisfy the steps of Walk, they are those read at the   *)
(* nodes after the same steps.                                             *)
LEMMA StepsRead ==
  ASSUME ArenaSound, NEW from, Known(from), NEW path \in Seq(Texts),
         NEW s, AreSteps(mem, from, path, s, Len(path)),
         NEW v, AreValueSteps(Read(from), path, v)
  PROVE  \A i \in 0..Len(path) : Known(s[i]) /\ v[i] = Read(s[i])
<1> DEFINE Bad == {j \in 0..Len(path) : ~(Known(s[j]) /\ v[j] = Read(s[j]))}
<1>1. Len(path) \in Nat  OBVIOUS
<1>2. \A i \in 0..Len(path) :
        s[i] = IF i = 0 THEN from ELSE partfx_get(mem, s[i - 1], path[i])
  BY Zenon DEF AreSteps
<1>3. \A i \in 0..Len(path) :
        v[i] = IF i = 0 THEN Read(from) ELSE ValueUnder(v[i - 1], path[i])
  BY Zenon DEF AreValueSteps
<1>4. SUFFICES ASSUME Bad # {} PROVE FALSE  OBVIOUS
<1>5. PICK j \in Bad : \A i \in Bad : j <= i
  <2>1. Bad \subseteq Nat  BY <1>1
  <2> HIDE DEF Bad
  <2> QED  BY <1>4, <2>1, LeastExists
<1>6. j \in 0..Len(path) /\ ~(Known(s[j]) /\ v[j] = Read(s[j]))  OBVIOUS
<1>7. CASE j = 0
  BY <1>2, <1>3, <1>6, <1>7
<1>8. CASE j # 0
  <2>1. j - 1 \in 0..Len(path) /\ ~(j <= j - 1) /\ j \in 1..Len(path)
    BY <1>1, <1>6, <1>8
  <2>2. j - 1 \notin Bad  BY <1>5, <2>1
  <2>3. Known(s[j - 1]) /\ v[j - 1] = Read(s[j - 1])  BY <2>1, <2>2
  <2>4. path[j] \in Texts  BY <2>1
  <2>5. s[j] = partfx_get(mem, s[j - 1], path[j]) /\ v[j] = ValueUnder(v[j - 1], path[j])
    BY <1>2, <1>3, <1>6, <1>8
  <2>6. /\ Known(partfx_get(mem, s[j - 1], path[j]))
        /\ Read(partfx_get(mem, s[j - 1], path[j])) = ValueUnder(Read(s[j - 1]), path[j])
    BY <2>3, <2>4, GetReadsValue
  <2> QED  BY <1>6, <2>3, <2>5, <2>6
<1> QED  BY <1>7, <1>8

LEMMA PathReadsValue ==
  ASSUME ArenaSound, NEW from, Known(from), NEW path \in Seq(Texts)
  PROVE  /\ Known(partfx_get_path(mem, from, path))
         /\ Read(partfx_get_path(mem, from, path)) = Walk(Read(from), path)
<1> DEFINE d == Len(path)
           IsS(s) == s = [i \in 0..Len(path) |->
                           IF i = 0 THEN from ELSE partfx_get(mem, s[i - 1], path[i])]
           IsV(v) == v = [i \in 0..Len(path) |->
                           IF i = 0 THEN Read(from) ELSE ValueUnder(v[i - 1], path[i])]
           step == CHOOSE s : IsS(s)
           at == CHOOSE v : IsV(v)
<1>1. d \in Nat /\ d \in 0..d  OBVIOUS
<1>2. partfx_get_path(mem, from, path) = step[Len(path)]  BY Zenon DEF partfx_get_path
<1>3. Walk(Read(from), path) = at[Len(path)]  BY Zenon DEF Walk
<1>4. \A s : IsS(s) <=> AreSteps(mem, from, path, s, Len(path))  BY Zenon DEF AreSteps
<1>5. \A v : IsV(v) <=> AreValueSteps(Read(from), path, v)  BY Zenon DEF AreValueSteps
<1>6. \E s : IsS(s)
  <2> HIDE DEF IsS
  <2> QED  BY <1>1, <1>4, StepsExist
<1>7. AreSteps(mem, from, path, step, Len(path))
  <2> HIDE DEF IsS
  <2> QED  BY <1>4, <1>6, Zenon
<1> HIDE DEF step
<1>8. \A i \in 0..d :
        step[i] = IF i = 0 THEN from ELSE partfx_get(mem, step[i - 1], path[i])
  BY <1>7, Zenon DEF AreSteps
<1>9. \E v : IsV(v)
  <2> DEFINE Bad == {j \in 0..d : ~Known(step[j])}
             v == [i \in 0..d |-> Read(step[i])]
  <2>1. Bad = {}
    <3> SUFFICES ASSUME Bad # {} PROVE FALSE  OBVIOUS
    <3>1. PICK j \in Bad : \A i \in Bad : j <= i
      <4>1. Bad \subseteq Nat  BY <1>1
      <4> HIDE DEF Bad
      <4> QED  BY <4>1, LeastExists
    <3>2. j \in 0..d /\ ~Known(step[j])  OBVIOUS
    <3>3. j # 0  BY <1>8, <3>2
    <3>4. j - 1 \in 0..d /\ ~(j <= j - 1) /\ j \in 1..d  BY <1>1, <3>2, <3>3
    <3>5. Known(step[j - 1])  BY <3>1, <3>4
    <3>6. Known(partfx_get(mem, step[j - 1], path[j]))  BY <3>4, <3>5, GetReadsValue
    <3> QED  BY <1>8, <3>2, <3>3, <3>6
  <2>2. \A i \in 0..d : Known(step[i])  BY <2>1
  <2>3. ASSUME NEW i \in 0..d
        PROVE  v[i] = IF i = 0 THEN Read(from) ELSE ValueUnder(v[i - 1], path[i])
    <3>1. CASE i = 0  BY <1>8, <3>1
    <3>2. CASE i # 0
      <4>1. i - 1 \in 0..d /\ path[i] \in Texts  BY <1>1, <3>2
      <4>2. step[i] = partfx_get(mem, step[i - 1], path[i])  BY <1>8, <3>2
      <4>3. v[i] = Read(step[i]) /\ v[i - 1] = Read(step[i - 1])  BY <4>1
      <4> HIDE DEF v
      <4> QED  BY <2>2, <3>2, <4>1, <4>2, <4>3, GetReadsValue
    <3> QED  BY <3>1, <3>2
  <2>4. v = [i \in 0..d |-> v[i]]  BY Zenon
  <2> HIDE DEF v
  <2>5. v = [i \in 0..d |-> IF i = 0 THEN Read(from) ELSE ValueUnder(v[i - 1], path[i])]
    BY <2>3, <2>4
  <2> QED  BY <2>5
<1>10. AreValueSteps(Read(from), path, at)
  <2> HIDE DEF IsV
  <2> QED  BY <1>5, <1>9, Zenon
<1> HIDE DEF at
<1>11. Known(step[d]) /\ at[d] = Read(step[d])  BY <1>1, <1>7, <1>10, StepsRead
<1> QED  BY <1>2, <1>3, <1>11

(* In every dialect the queries read the value that the table of nodes     *)
(* stands for.  With aliases, container keys or scalar roots in the text,  *)
(* that need not be what the text says.                                    *)
LEMMA QueriesReadTree == Spec => []QueriesReadDocument
<1>1. ASSUME IInv, ShapeInv PROVE QueriesReadDocument
  <2>1. ArenaSound  BY <1>1 DEF IInv, ShapeInv, ArenaSound
  <2>2. Known(root)  BY <1>1 DEF IInv, RootSound, NodeAt, NodeTypes, Known
  <2>3. Table!Document = Read(root)
    BY DEF Table!Document, Read, Missing
  <2> SUFFICES ASSUME NEW path \in Paths
               PROVE
    LET node  == partfx_get_path(mem, root, path)
        value == Walk(Table!Document, path)
    IN  /\ Read(node) = value
        /\ value.type = "SEQUENCE" =>
             /\ partfx_sequence_length(mem, node) = Len(value.items)
             /\ \A i \in 0..Len(value.items) :
                  Read(partfx_sequence_get(mem, node, i)) =
                    IF i < Len(value.items) THEN value.items[i + 1].value
                    ELSE Missing
        /\ \A key \in Texts :
             /\ Read(partfx_get_int(mem, node, key)) =
                  ValueTyped(value, key, {"INT", "FLOAT"})
             /\ Read(partfx_get_float(mem, node, key)) =
                  ValueTyped(value, key, {"INT", "FLOAT"})
             /\ Read(partfx_get_string(mem, node, key)) =
                  ValueTyped(value, key, {"STRING"})
             /\ Read(partfx_get_bool(mem, node, key)) =
                  IF ValueUnder(value, key).type = "BOOL"
                  THEN ValueUnder(value, key) ELSE Missing
    BY Zenon DEF QueriesReadDocument
  <2> DEFINE node  == partfx_get_path(mem, root, path)
             value == Walk(Table!Document, path)
  <2>4. path \in Seq(Texts)  BY QueryAssumption
  <2>5. Known(node) /\ Read(node) = value  BY <2>1, <2>2, <2>3, <2>4, PathReadsValue
  <2> HIDE DEF node, value
  <2>6. value.type = "SEQUENCE" =>
          /\ partfx_sequence_length(mem, node) = Len(value.items)
          /\ \A i \in 0..Len(value.items) :
               Read(partfx_sequence_get(mem, node, i)) =
                 IF i < Len(value.items) THEN value.items[i + 1].value ELSE Missing
    BY <2>1, <2>5, SequenceReadsValue
  <2>7. ASSUME NEW key \in Texts
        PROVE  /\ Read(partfx_get_int(mem, node, key)) =
                    ValueTyped(value, key, {"INT", "FLOAT"})
               /\ Read(partfx_get_float(mem, node, key)) =
                    ValueTyped(value, key, {"INT", "FLOAT"})
               /\ Read(partfx_get_string(mem, node, key)) =
                    ValueTyped(value, key, {"STRING"})
               /\ Read(partfx_get_bool(mem, node, key)) =
                    IF ValueUnder(value, key).type = "BOOL"
                    THEN ValueUnder(value, key) ELSE Missing
    <3> DEFINE c == partfx_get(mem, node, key)
    <3>1. \A types : "NULL" \notin types =>
            Read(Unwrapped(mem, c, types)) = ValueTyped(value, key, types)
      BY <2>1, <2>5, TypedReadsValue
    <3>2. /\ partfx_get_int(mem, node, key) = Unwrapped(mem, c, {"INT", "FLOAT"})
          /\ partfx_get_float(mem, node, key) = Unwrapped(mem, c, {"INT", "FLOAT"})
          /\ partfx_get_string(mem, node, key) = Unwrapped(mem, c, {"STRING"})
          /\ partfx_get_bool(mem, node, key) =
               IF HasType(mem, c, "BOOL") THEN c ELSE NULL
      BY DEF partfx_get_int, partfx_get_float, partfx_get_string, partfx_get_bool, Numbers
    <3>3. Known(c) /\ Read(c) = ValueUnder(value, key)  BY <2>1, <2>5, GetReadsValue
    <3> HIDE DEF c
    <3>4. HasType(mem, c, "BOOL") <=> Read(c).type = "BOOL"
      <4>1. (\E type \in {"BOOL"} : HasType(mem, c, type)) <=> Read(c).type \in {"BOOL"}
        BY <2>1, <3>3, TypeReadsValue
      <4> QED  BY <4>1
    <3>5. "NULL" \notin {"INT", "FLOAT"} /\ "NULL" \notin {"STRING"}  OBVIOUS
    <3>6. Read(partfx_get_bool(mem, node, key)) =
            IF Read(c).type = "BOOL" THEN Read(c) ELSE Missing
      BY <3>2, <3>4, MissingIs
    <3> QED  BY <3>1, <3>2, <3>3, <3>5, <3>6
  <2> QED  BY <2>5, <2>6, <2>7 DEF node, value
<1> QED  BY <1>1, ShapeInductive, PTL

(* Without aliases, container keys and scalar roots, a path followed       *)
(* through the arena leads to the value that it leads to in the document,  *)
(* an index reads the item at it and nothing past the end, and a typed     *)
(* getter the first value under the key, or the constant wrapped in it, of *)
(* the types it takes: the value queried is the document's, since the same *)
(* value goes through every step as YamlTree lays down, at every event and *)
(* after an error too (partfx_parse, partfx_get_path, partfx_get_int and   *)
(* its like, partfx_sequence_get).                                         *)
THEOREM QueriesAlwaysReadDocument ==
  ASSUME Dialect = {}
  PROVE  Spec => ImplementsYamlTree /\ []QueriesReadDocument
BY BuildsTheDocument, QueriesReadTree, PTL
===============================================================================
