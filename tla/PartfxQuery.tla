----------------------------- MODULE PartfxQuery -----------------------------
(***************************************************************************)
(* The query functions of partfx.c over the memory that a parse leaves.    *)
(* They change nothing.  A typed getter is modelled by the node it reads   *)
(* its result from, NULL standing for the caller's default; the C casts    *)
(* between int and float are left out.                                     *)
(***************************************************************************)
EXTENDS PartfxParse, FiniteSetsExt

CONSTANTS
  CNST,    \* the key "CNST" of a wrapped constant
  Paths    \* the paths asked for, each the sequence of its tokens

ASSUME QueryAssumption == CNST \in Texts /\ Paths \subseteq Seq(Texts)

HasType(m, node, type) == node # NULL /\ m.heap[node].type = type

(* The entries of a map under a key, as positions. *)
Matches(m, node, key) ==
  {i \in 1..m.heap[node].count : m.heap[ItemsOf(m, node)[i].key].text = key}

(* Fault, for the mutation runs: the last entry with the key. *)
FaultLastMatch(m, node, key) ==
  IF HasType(m, node, "MAP") /\ Matches(m, node, key) # {}
  THEN ItemsOf(m, node)[Max(Matches(m, node, key))].value
  ELSE NULL

partfx_get(m, node, key) ==
  IF HasType(m, node, "MAP") /\ Matches(m, node, key) # {}
  THEN ItemsOf(m, node)[Min(Matches(m, node, key))].value
  ELSE NULL

partfx_get_path(m, from, path) ==
  LET step[i \in 0..Len(path)] ==
        IF i = 0 THEN from ELSE partfx_get(m, step[i - 1], path[i])
  IN  step[Len(path)]

(* The node itself if it is of one of the types, or the constant it wraps. *)
Unwrapped(m, child, types) ==
  LET OfType(n) == \E type \in types : HasType(m, n, type)
      wrapped   == partfx_get(m, child, CNST)
  IN  IF OfType(child) THEN child
      ELSE IF OfType(wrapped) THEN wrapped ELSE NULL

Numbers == {"INT", "FLOAT"}

partfx_get_int(m, node, key) ==
  Unwrapped(m, partfx_get(m, node, key), Numbers)

(* Fault: a wrapped constant is not looked for. *)
FaultNoWrapper(m, node, key) ==
  LET child == partfx_get(m, node, key)
  IN  IF HasType(m, child, "INT") \/ HasType(m, child, "FLOAT")
      THEN child ELSE NULL

partfx_get_float(m, node, key) ==
  Unwrapped(m, partfx_get(m, node, key), Numbers)

partfx_get_string(m, node, key) ==
  Unwrapped(m, partfx_get(m, node, key), {"STRING"})

partfx_get_bool(m, node, key) ==
  LET child == partfx_get(m, node, key)
  IN  IF HasType(m, child, "BOOL") THEN child ELSE NULL

partfx_sequence_length(m, seq) ==
  IF HasType(m, seq, "SEQUENCE") THEN m.heap[seq].count ELSE 0

partfx_sequence_get(m, seq, index) ==
  IF index < partfx_sequence_length(m, seq)
  THEN ItemsOf(m, seq)[index + 1].value
  ELSE NULL

-------------------------------------------------------------------------------
(* Properties. *)

(* The value that a node stands for, and what it has under a key: the value *)
(* of the first item with that key.                                         *)
Missing == Table!Node("NULL", NoText)

Read(node) == IF node = NULL THEN Missing ELSE Table!Values(NodesOf(mem))[node]

ValueUnder(value, key) ==
  LET found == {i \in DOMAIN value.items : value.items[i].key = key}
  IN  IF value.type = "MAP" /\ found # {}
      THEN value.items[Min(found)].value ELSE Missing

Walk(value, path) ==
  LET at[i \in 0..Len(path)] ==
        IF i = 0 THEN value ELSE ValueUnder(at[i - 1], path[i])
  IN  at[Len(path)]

(* The value under a key if it is of one of the types, or the constant that *)
(* it wraps.                                                                *)
ValueTyped(value, key, types) ==
  LET plain   == ValueUnder(value, key)
      wrapped == ValueUnder(plain, CNST)
  IN  IF plain.type \in types THEN plain
      ELSE IF wrapped.type \in types THEN wrapped ELSE Missing

(* The answers are those of the tree under pfx->root read as one value, at  *)
(* every event and after errors, and this value is the document's wherever  *)
(* the parser builds the document (ImplementsYamlTree; with aliases it does *)
(* not): following a path through the arena reads the value that the path   *)
(* leads to; an index of a sequence reads the item at it, and nothing past  *)
(* the end; a typed getter reads the first value under the key, or the      *)
(* constant wrapped in it, of the types it takes.                           *)
QueriesReadDocument ==
  \A path \in Paths :
    LET node  == partfx_get_path(mem, root, path)
        value == Walk(Table!Document, path)
    IN  /\ Read(node) = value
        /\ value.type = "SEQUENCE" =>
             /\ partfx_sequence_length(mem, node) = Len(value.items)
             /\ \A i \in 0..Len(value.items) :
                  Read(partfx_sequence_get(mem, node, i)) =
                    IF i < Len(value.items) THEN value.items[i + 1].value
                    ELSE Missing
        /\ \A key \in Texts :
             /\ Read(partfx_get_int(mem, node, key)) =
                  ValueTyped(value, key, {"INT", "FLOAT"})
             /\ Read(partfx_get_float(mem, node, key)) =
                  ValueTyped(value, key, {"INT", "FLOAT"})
             /\ Read(partfx_get_string(mem, node, key)) =
                  ValueTyped(value, key, {"STRING"})
             /\ Read(partfx_get_bool(mem, node, key)) =
                  IF ValueUnder(value, key).type = "BOOL"
                  THEN ValueUnder(value, key) ELSE Missing

(* What a lookup has found it finds for the rest of the parse: entries that *)
(* come later, under the same key or not, and arrays that move never change *)
(* an answer, so the tree that a failed parse leaves answers like the whole *)
(* document wherever it answers (partfx_get, partfx_sequence_get).          *)
LookupsStable ==
  [][status = "parsing" /\ status' \in {"parsing", "parsed", "failed"} =>
       \A a \in Blocks : IsNode(a) =>
         /\ \A key \in Texts : partfx_get(mem, a, key) # NULL =>
              partfx_get(mem', a, key) = partfx_get(mem, a, key)
         /\ \A i \in 0..(partfx_sequence_length(mem, a) - 1) :
              partfx_sequence_get(mem', a, i) = partfx_sequence_get(mem, a, i)]_vars
===============================================================================
