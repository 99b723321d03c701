------------------------------ MODULE PartfxHeap ------------------------------
(***************************************************************************)
(* The arena of partfx.c and the tree nodes built in it, as operators over *)
(* a memory record                                                         *)
(*                                                                         *)
(*   next |-> the offset arena_alloc hands out next,                       *)
(*   heap |-> the blocks handed out, by offset,                            *)
(*   oom  |-> whether an allocation ran past the arena (the assertion of   *)
(*            arena_alloc has failed).                                     *)
(*                                                                         *)
(* A pointer is an offset.  A block is one record for every use the code   *)
(* makes of arena memory: a node (type, and the union as text, ptr, count  *)
(* and capacity), an array of map entries or items (slots), or a copied    *)
(* string (text).                                                          *)
(***************************************************************************)
EXTENDS Integers

CONSTANTS
  ARENA_SIZE,        \* bytes of the arena
  SizeofNode,        \* sizeof(partfx_node_t)
  SizeofEntry,       \* sizeof(partfx_map_entry_t)
  SizeofPtr,         \* sizeof(partfx_node_t*)
  InitialCapacity,   \* slots of a fresh map or sequence
  Texts,             \* the strings of a document, keys and scalars
  NoText,            \* no string
  ScalarType,        \* the node type parse_scalar finds for a text
  StrSize            \* strlen(text) + 1

ASSUME HeapAssumption ==
  /\ ARENA_SIZE \in Nat
  /\ SizeofNode \in Nat \ {0}
  /\ SizeofEntry \in Nat \ {0}
  /\ SizeofPtr \in Nat \ {0}
  /\ InitialCapacity \in Nat \ {0}
  /\ NoText \notin Texts
  /\ ScalarType \in [Texts -> {"INT", "FLOAT", "BOOL", "STRING"}]
  /\ StrSize \in [Texts -> Nat \ {0}]

NULL == -1

NodeTypes == {"INT", "FLOAT", "STRING", "BOOL", "MAP", "SEQUENCE"}

(* f with x stored at i, whether or not i was in its domain. *)
Put(f, i, x) == [j \in DOMAIN f \union {i} |-> IF j = i THEN x ELSE f[j]]

EmptySlots == [i \in {} |-> [key |-> NULL, value |-> NULL]]

(* size bytes of zeros. *)
ZeroBlock(size) ==
  [size |-> size, type |-> "NULL", text |-> NoText, ptr |-> NULL,
   count |-> 0, capacity |-> 0, slots |-> EmptySlots]

EmptyMem == [next |-> 0, heap |-> [a \in {} |-> ZeroBlock(0)], oom |-> FALSE]

(* The block handed out is at m.next and is zeroed. *)
arena_alloc(m, size) ==
  [next |-> m.next + size,
   heap |-> Put(m.heap, m.next, ZeroBlock(size)),
   oom  |-> m.oom \/ m.next + size > ARENA_SIZE]

arena_strdup(m, text) ==
  [arena_alloc(m, StrSize[text]) EXCEPT !.heap[m.next].text = text]

create_node(m, type) ==
  [arena_alloc(m, SizeofNode) EXCEPT !.heap[m.next].type = type]

(* An INT, FLOAT or BOOL node: its payload stands as the text it is read from. *)
create_number_node(m, type, text) ==
  [create_node(m, type) EXCEPT !.heap[m.next].text = text]

create_string_node(m, text) ==
  LET m1 == create_node(m, "STRING")
  IN  [arena_strdup(m1, text) EXCEPT !.heap[m.next].ptr = m1.next]

create_container(m, type, elem) ==
  LET m1 == create_node(m, type)
      m2 == arena_alloc(m1, elem * InitialCapacity)
  IN  [m2 EXCEPT !.heap[m.next].capacity = InitialCapacity,
                 !.heap[m.next].ptr = m1.next]

create_map_node(m) == create_container(m, "MAP", SizeofEntry)

create_sequence_node(m) == create_container(m, "SEQUENCE", SizeofPtr)

parse_scalar(m, text) ==
  IF ScalarType[text] = "STRING"
  THEN create_string_node(m, text)
  ELSE create_number_node(m, ScalarType[text], text)

(* Fault, for the mutation runs: the new array is not copied into. *)
FaultNoCopy(m, node, elem) ==
  LET n  == m.heap[node]
      m1 == arena_alloc(m, elem * (2 * n.capacity))
  IN  [m1 EXCEPT !.heap[m.next].slots =
                    [i \in 0..(n.count - 1) |-> [key |-> NULL, value |-> NULL]],
                 !.heap[node] = [n EXCEPT !.ptr = m.next,
                                          !.capacity = 2 * n.capacity]]

(* Double the array of a full container, copying what it holds. *)
Grow(m, node, elem) ==
  LET n   == m.heap[node]
      old == m.heap[n.ptr].slots
      m1  == arena_alloc(m, elem * (2 * n.capacity))
  IN  [m1 EXCEPT !.heap[m.next].slots = [i \in 0..(n.count - 1) |-> old[i]],
                 !.heap[node] = [n EXCEPT !.ptr = m.next,
                                          !.capacity = 2 * n.capacity]]

(* Fault: room is made one element too late. *)
FaultFullLate(m, node) == m.heap[node].count > m.heap[node].capacity

Full(m, node) == m.heap[node].count >= m.heap[node].capacity

MakeRoom(m, node, elem) == IF Full(m, node) THEN Grow(m, node, elem) ELSE m

StoreSlot(m, node, slot) ==
  LET n == m.heap[node]
  IN  [m EXCEPT !.heap[n.ptr].slots = Put(@, n.count, slot),
                !.heap[node].count = @ + 1]

(* The key is copied again, after the array may have grown. *)
map_add(m, map, key, value) ==
  LET m1 == MakeRoom(m, map, SizeofEntry)
      m2 == arena_strdup(m1, m.heap[key].text)
  IN  StoreSlot(m2, map, [key |-> m1.next, value |-> value])

sequence_add(m, seq, value) ==
  StoreSlot(MakeRoom(m, seq, SizeofPtr), seq, [key |-> NULL, value |-> value])

-------------------------------------------------------------------------------
(* What a container holds, in the order it was added. *)
IsContainer(b) == b.type \in {"MAP", "SEQUENCE"}

ItemsOf(m, a) ==
  LET n == m.heap[a]
  IN  [i \in 1..n.count |-> m.heap[n.ptr].slots[i - 1]]

(* A node without the memory behind it: its text, and the texts of the    *)
(* keys and the nodes it holds.                                            *)
TextOf(m, a) ==
  IF m.heap[a].type = "STRING" THEN m.heap[m.heap[a].ptr].text ELSE m.heap[a].text

KeyText(m, slot) == IF slot.key = NULL THEN NoText ELSE m.heap[slot.key].text

ItemOf(m, slot) == [key |-> KeyText(m, slot), value |-> slot.value]

NodeOf(m, a) ==
  [type  |-> m.heap[a].type,
   text  |-> TextOf(m, a),
   items |-> IF IsContainer(m.heap[a])
             THEN [i \in 1..m.heap[a].count |-> ItemOf(m, ItemsOf(m, a)[i])]
             ELSE <<>>]

NodesOf(m) ==
  [a \in {b \in DOMAIN m.heap : m.heap[b].type \in NodeTypes} |-> NodeOf(m, a)]
===============================================================================
