------------------------------ MODULE PartfxParse ------------------------------
(***************************************************************************)
(* The life of a partfx_t and of the arena behind it (partfx.c): a session *)
(* initialises them, then parses one document after another, resetting in  *)
(* between, and finally deletes them.  partfx_parse is a loop over libyaml *)
(* events; each event and the case of the switch that handles it are one   *)
(* action here.                                                            *)
(*                                                                         *)
(* The build is the one in which assertions are compiled in: a failed      *)
(* assertion ends the process (status "aborted").  Where the code would go *)
(* on with undefined behaviour the run also ends (status "undefined").     *)
(***************************************************************************)
EXTENDS PartfxHeap, Sequences

CONSTANTS
  MAX_DEPTH,   \* contexts in the parser's stack
  Dialect      \* the rarer YAML features the documents use

ASSUME ParseAssumption ==
  /\ MAX_DEPTH \in Nat \ {0}
  /\ Dialect \subseteq {"alias", "containerKey", "scalarRoot"}

VARIABLES
  arena,    \* whether the arena is malloc'ed
  mem,      \* what has been allocated from it
  root,     \* pfx->root
  status,   \* where the session stands, see TypeOK
  stack,    \* stack[0..depth] of partfx_parse
  stage, open, event  \* libyaml, see YamlEvents

Yaml == INSTANCE YamlEvents

yamlVars == <<stage, open, event>>
vars == <<arena, mem, root, status, stack, stage, open, event>>

Context == [node : Nat, key : Int, is_key_next : BOOLEAN]

TypeOK ==
  /\ arena \in BOOLEAN
  /\ mem.next \in Nat /\ mem.oom = FALSE
  /\ root \in Nat \union {NULL}
  /\ status \in {"cold", "ready", "parsing", "parsed", "failed",
                 "aborted", "undefined"}
  /\ stack \in Seq(Context) /\ Len(stack) <= MAX_DEPTH
  /\ Yaml!TypeOK

Init ==
  /\ arena = FALSE
  /\ mem = EmptyMem
  /\ root = NULL
  /\ status = "cold"
  /\ stack = <<>>
  /\ Yaml!Init

(* The process is gone, and its memory with it. *)
Halt(how) ==
  /\ status' = how
  /\ arena' = FALSE
  /\ mem' = EmptyMem
  /\ root' = NULL
  /\ stack' = <<>>

-------------------------------------------------------------------------------
(* The session: partfx_init, partfx_reset, partfx_delete. *)

partfx_init ==
  /\ status = "cold"
  /\ \/ status' = "ready" /\ arena' = TRUE /\ mem' = EmptyMem /\ root' = NULL
        /\ UNCHANGED stack
     \/ Halt("aborted")   \* malloc returned NULL
  /\ UNCHANGED yamlVars

Returned == status \in {"parsed", "failed"}

(* Fault, for the mutation runs: pfx->root outlives its arena. *)
FaultResetKeepsRoot ==
  /\ Returned
  /\ status' = "ready"
  /\ mem' = EmptyMem
  /\ UNCHANGED <<arena, root, stack, yamlVars>>

partfx_reset ==
  /\ Returned
  /\ status' = "ready"
  /\ mem' = EmptyMem
  /\ root' = NULL
  /\ UNCHANGED <<arena, stack, yamlVars>>

partfx_delete ==
  /\ Returned
  /\ status' = "cold"
  /\ arena' = FALSE
  /\ mem' = EmptyMem
  /\ root' = NULL
  /\ UNCHANGED <<stack, yamlVars>>

-------------------------------------------------------------------------------
(* partfx_parse. *)

Begin ==
  /\ status = "ready"
  /\ status' = "parsing"
  /\ Yaml!Restart
  /\ UNCHANGED <<arena, mem, root, stack>>

(* yaml_parser_initialize fails. *)
BeginFails ==
  /\ status = "ready"
  /\ status' = "failed"
  /\ UNCHANGED <<arena, mem, root, stack, yamlVars>>

Top == stack[Len(stack)]
AtRoot == stack = <<>>
InMap == ~AtRoot /\ mem.heap[Top.node].type = "MAP"

(* The stack with ctx->key and ctx->is_key_next of its top set. *)
SetTop(key, is_key_next) ==
  [stack EXCEPT ![Len(stack)] =
    [node |-> Top.node, key |-> key, is_key_next |-> is_key_next]]

(* Fault: a node is added to maps only. *)
FaultAddToMaps(m, child) ==
  IF InMap THEN map_add(m, Top.node, Top.key, child) ELSE m

AddToTop(m, child) ==
  IF InMap THEN map_add(m, Top.node, Top.key, child)
           ELSE sequence_add(m, Top.node, child)

(* Fault: the key is dropped, but the phase stays. *)
FaultPhaseStays ==
  IF InMap THEN SetTop(NULL, FALSE) ELSE stack

(* The stack once the pending key of a map has got its value. *)
KeyConsumed ==
  IF InMap THEN SetTop(NULL, TRUE) ELSE stack

(* An event handler ends with memory m, stack s and root r, unless one of *)
(* its allocations has failed.                                            *)
Commit(m, s, r) ==
  \/ m.oom /\ Halt("aborted")
  \/ /\ ~m.oom
     /\ mem' = m
     /\ stack' = s
     /\ root' = r
     /\ UNCHANGED <<arena, status>>

(* map_add would copy a NULL key. *)
KeyMissing == InMap /\ Top.key = NULL

(* Fault: the depth is checked one context too late. *)
FaultDeep(m, r) ==
  /\ Len(stack) <= MAX_DEPTH
  /\ LET context == [node |-> mem.next, key |-> NULL,
                     is_key_next |-> m.heap[mem.next].type = "MAP"]
     IN  Commit(IF AtRoot THEN m ELSE AddToTop(m, mem.next),
                Append(KeyConsumed, context), r)

(* A container has been created at mem.next, giving memory m; r is the root. *)
OpenContainer(m, r) ==
  LET node    == mem.next
      context == [node |-> node, key |-> NULL,
                  is_key_next |-> m.heap[node].type = "MAP"]
      added   == IF AtRoot THEN m ELSE AddToTop(m, node)
  IN  \/ /\ KeyMissing
         /\ Halt(IF MakeRoom(m, Top.node, SizeofEntry).oom
                 THEN "aborted" ELSE "undefined")
      \/ /\ ~KeyMissing
         /\ Len(stack) >= MAX_DEPTH   \* assert(depth < MAX_DEPTH)
         /\ Halt("aborted")
      \/ /\ ~KeyMissing
         /\ Len(stack) < MAX_DEPTH
         /\ Commit(added, Append(KeyConsumed, context), r)

(* Fault: every mapping becomes the root. *)
FaultRootFollows ==
  /\ status = "parsing"
  /\ Yaml!MappingStart
  /\ OpenContainer(create_map_node(mem), mem.next)

MappingStart ==
  /\ status = "parsing"
  /\ Yaml!MappingStart
  /\ OpenContainer(create_map_node(mem), IF AtRoot THEN mem.next ELSE root)

SequenceStart ==
  /\ status = "parsing"
  /\ Yaml!SequenceStart
  /\ OpenContainer(create_sequence_node(mem), root)

(* With depth = -1 the context is read from before the stack. *)
ScalarAtRoot ==
  /\ AtRoot
  /\ Halt("undefined")

ScalarIsKey(text) ==
  /\ InMap
  /\ Top.is_key_next
  /\ Commit(arena_strdup(mem, text),
            SetTop(mem.next, FALSE),
            root)

ScalarIsValue(text) ==
  /\ ~AtRoot
  /\ InMap => ~Top.is_key_next
  /\ Commit(AddToTop(parse_scalar(mem, text), mem.next), KeyConsumed, root)

Scalar(text) ==
  /\ status = "parsing"
  /\ Yaml!Scalar(text)
  /\ \/ ScalarAtRoot
     \/ ScalarIsKey(text)
     \/ ScalarIsValue(text)

(* Fault: the map's end pops the container around it as well. *)
FaultPopsTwo ==
  /\ status = "parsing"
  /\ Yaml!MappingEnd \/ Yaml!SequenceEnd
  /\ stack' = SubSeq(stack, 1, Len(stack) - 2)
  /\ UNCHANGED <<arena, mem, root, status>>

ContainerEnd ==
  /\ status = "parsing"
  /\ Yaml!MappingEnd \/ Yaml!SequenceEnd
  /\ stack' = SubSeq(stack, 1, Len(stack) - 1)
  /\ UNCHANGED <<arena, mem, root, status>>

(* The stream and document starts, and the default case: an alias. *)
Ignored ==
  /\ status = "parsing"
  /\ Yaml!StreamStart \/ Yaml!DocumentStart \/ Yaml!Alias
  /\ UNCHANGED <<arena, mem, root, status, stack>>

(* The end of the first document, or of an empty stream. *)
Finish ==
  /\ status = "parsing"
  /\ Yaml!DocumentEnd \/ Yaml!StreamEnd
  /\ status' = "parsed"
  /\ stack' = <<>>
  /\ UNCHANGED <<arena, mem, root>>

(* What was built before the error stays in the arena and under pfx->root. *)
Fail ==
  /\ status = "parsing"
  /\ Yaml!SyntaxError
  /\ status' = "failed"
  /\ stack' = <<>>
  /\ UNCHANGED <<arena, mem, root>>

HandleEvent ==
  \/ MappingStart
  \/ SequenceStart
  \/ \E text \in Texts : Scalar(text)
  \/ ContainerEnd
  \/ Ignored
  \/ Finish
  \/ Fail

Next ==
  \/ partfx_init
  \/ Begin
  \/ BeginFails
  \/ HandleEvent
  \/ partfx_reset
  \/ partfx_delete

Spec == Init /\ [][Next]_vars
-------------------------------------------------------------------------------
(* Properties. *)

Blocks == DOMAIN mem.heap
Block(a) == mem.heap[a]

ElemSize(b) == IF b.type = "MAP" THEN SizeofEntry ELSE SizeofPtr

(* Memory: every block lies inside the part of the arena in use, no two of *)
(* them overlap, and a container never writes past the array it was given, *)
(* however often it has grown (arena_alloc, map_add, sequence_add).        *)
BlocksSound ==
  /\ mem.next <= ARENA_SIZE
  /\ \A a \in Blocks : 0 <= a /\ a + Block(a).size <= mem.next
  /\ \A a, b \in Blocks : a < b => a + Block(a).size <= b
  /\ \A a \in Blocks : IsContainer(Block(a)) =>
       /\ DOMAIN Block(Block(a).ptr).slots = 0..(Block(a).count - 1)
       /\ Block(a).count <= Block(a).capacity
       /\ Block(Block(a).ptr).size = ElemSize(Block(a)) * Block(a).capacity

IsNode(a) == a \in Blocks /\ Block(a).type \in NodeTypes
IsString(a) == a \in Blocks /\ Block(a).type = "NULL" /\ Block(a).text \in Texts
IsArray(a) == a \in Blocks /\ Block(a).type = "NULL" /\ Block(a).text = NoText

(* Pointers: whatever pfx->root, the parser's stack and the blocks of the  *)
(* arena point to is a live block of the expected kind, through growth,    *)
(* failed parses and resets.                                               *)
PointersSound ==
  /\ root # NULL => IsNode(root) /\ Block(root).type = "MAP"
  /\ \A i \in DOMAIN stack :
       /\ IsNode(stack[i].node) /\ IsContainer(Block(stack[i].node))
       /\ stack[i].key # NULL => IsString(stack[i].key)
  /\ \A a \in Blocks :
       /\ IsContainer(Block(a)) => IsArray(Block(a).ptr)
       /\ Block(a).type = "STRING" => IsString(Block(a).ptr)
       /\ \A i \in DOMAIN Block(a).slots :
            /\ IsNode(Block(a).slots[i].value)
            /\ Block(a).slots[i].key # NULL => IsString(Block(a).slots[i].key)

Containers == {a \in Blocks : IsContainer(Block(a))}
Children(a) == {ItemsOf(mem, a)[i].value : i \in 1..Block(a).count}

(* Shape: the nodes form a tree under the first one, so that               *)
(* partfx_print_tree and the lookups end and see each node once: a child   *)
(* lies behind its parent, no node has two places, and every node but the  *)
(* first has one.                                                          *)
TreeShape ==
  /\ \A a \in Containers :
       /\ \A c \in Children(a) : c > a
       /\ \A i, j \in 1..Block(a).count :
            i # j => ItemsOf(mem, a)[i].value # ItemsOf(mem, a)[j].value
  /\ \A a, b \in Containers : a # b => Children(a) \intersect Children(b) = {}
  /\ \A a \in Blocks : IsNode(a) /\ a # 0 => \E b \in Containers : a \in Children(b)

(* Phase: the parser's stack tells key from value as libyaml does: its     *)
(* contexts are the open containers, is_key_next holds exactly where the   *)
(* next node is a key, and a key is pending exactly where it is a value.   *)
KeyPhase ==
  status = "parsing" =>
    /\ Len(stack) = Len(open)
    /\ \A i \in DOMAIN stack :
         /\ stack[i].is_key_next <=> open[i] = "key"
         /\ stack[i].key # NULL <=> open[i] = "value"
         /\ Block(stack[i].node).type = "MAP" <=> open[i] # "item"

(* The parser never reaches for a context or a key it does not have. *)
NoUndefined == status # "undefined"

OpenNodes == {stack[i].node : i \in DOMAIN stack}

(* Within one parse a node keeps its type and text and every entry it has; *)
(* only an open container gains any, one at a time and at its end, even    *)
(* when its array moves.                                                   *)
NodesOnlyGrow ==
  [][status = "parsing" /\ status' = "parsing" =>
       \A a \in Blocks : IsNode(a) =>
         /\ a \in DOMAIN mem'.heap
         /\ mem'.heap[a].type = Block(a).type
         /\ mem'.heap[a].text = Block(a).text
         /\ IsContainer(Block(a)) =>
              LET before == ItemsOf(mem, a)
                  after  == ItemsOf(mem', a)
              IN  \/ after = before
                  \/ /\ a \in OpenNodes
                     /\ Len(after) = Len(before) + 1
                     /\ SubSeq(after, 1, Len(before)) = before]_vars
-------------------------------------------------------------------------------
(* What the session stands for: the outcome so far, the table of the nodes *)
(* in the arena and the path and key of the stack.                         *)

Outcome ==
  CASE status \in {"cold", "ready"}         -> "idle"
    [] status \in {"aborted", "undefined"}  -> "crashed"
    [] OTHER                                -> status

Path == [i \in DOMAIN stack |-> stack[i].node]

PendingKey == IF AtRoot THEN NoText ELSE KeyText(mem, Top)

Table == INSTANCE YamlNodes WITH
           outcome <- Outcome, nodes <- NodesOf(mem), first <- root,
           path <- Path, pending <- PendingKey,
           NoNode <- NULL

(* partfx_parse implements YamlNodes: however arrays move and strings are  *)
(* copied, each event adds to the nodes in the arena what libyaml handed   *)
(* out, in its place and under its key, and changes nothing else.          *)
ImplementsNodes == Table!NodesSpec

(* partfx_parse implements YamlTree: at every event the tree in the arena, *)
(* found through pfx->root, is exactly the document read so far.           *)
ImplementsYamlTree == Table!ImplementsTree
===============================================================================
