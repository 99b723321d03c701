------------------------------ MODULE YamlNodes ------------------------------
(***************************************************************************)
(* What partfx_parse builds, node by node: a table of nodes, each with its *)
(* type, its text and what it holds under which key.  There is no arena,   *)
(* no array that fills up and no copy of a string.  An event adds at most  *)
(* one node, with a number above all others, to what the innermost open    *)
(* container holds, behind the rest and under the key before it, and       *)
(* changes nothing else.  Unlike the value of YamlTree the table is flat;  *)
(* the value it stands for is the one of its first node.                   *)
(***************************************************************************)
EXTENDS YamlEvents

CONSTANTS
  ScalarType,   \* the node type of a scalar
  NoNode

VARIABLES
  outcome,   \* "idle", "parsing", "parsed", "failed" or "crashed"
  nodes,     \* the table
  first,     \* the node of the document, if that is a mapping
  path,      \* the nodes of the open containers, outermost first
  pending    \* the key whose value comes next, or NoText

nodesVars == <<stage, open, event, outcome, nodes, first, path, pending>>

Node(type, text) == [type |-> type, text |-> text, items |-> <<>>]

NoNodes == [n \in {} |-> Node("NULL", NoText)]

Innermost(n) == path # <<>> /\ n = path[Len(path)]

With(id, node) ==
  [n \in DOMAIN nodes \union {id} |->
    IF n = id THEN node
    ELSE IF Innermost(n)
    THEN [nodes[n] EXCEPT !.items = Append(@, [key |-> pending, value |-> id])]
    ELSE nodes[n]]

(* The number of the new node is read off the next table, as any above the *)
(* others will do.                                                         *)
NodeAdded(id, node) ==
  /\ id \in Nat
  /\ \A n \in DOMAIN nodes : n < id
  /\ nodes' = With(id, node)
  /\ pending' = NoText

NodesInit ==
  /\ Init
  /\ outcome = "idle"
  /\ nodes = NoNodes /\ first = NoNode
  /\ path = <<>> /\ pending = NoText

NodesBegin ==
  /\ outcome = "idle"
  /\ \/ Restart /\ outcome' = "parsing"
     \/ UNCHANGED yamlVars /\ outcome' = "failed"
  /\ UNCHANGED <<nodes, first, path, pending>>

NodesContainer(type) ==
  \E id \in DOMAIN nodes' :
    /\ NodeAdded(id, Node(type, NoText))
    /\ first' = IF path = <<>> /\ type = "MAP" THEN id ELSE first
    /\ path' = Append(path, id)

NodesKey(text) ==
  /\ Position = "key"
  /\ pending' = text
  /\ UNCHANGED <<nodes, first, path>>

NodesScalar(text) ==
  /\ Position # "key"
  /\ \E id \in DOMAIN nodes' : NodeAdded(id, Node(ScalarType[text], text))
  /\ UNCHANGED <<first, path>>

NodesEvent ==
  /\ outcome = "parsing"
  /\ outcome' = "parsing"
  /\ \/ MappingStart /\ NodesContainer("MAP")
     \/ SequenceStart /\ NodesContainer("SEQUENCE")
     \/ \E text \in Texts : Inside /\ Scalar(text) /\ (NodesKey(text) \/ NodesScalar(text))
     \/ /\ MappingEnd \/ SequenceEnd
        /\ path' = SubSeq(path, 1, Len(path) - 1)
        /\ UNCHANGED <<nodes, first, pending>>
     \/ /\ StreamStart \/ DocumentStart
        /\ UNCHANGED <<nodes, first, path, pending>>

(* After an error the table keeps what was read before it. *)
NodesReturn ==
  /\ outcome = "parsing"
  /\ \/ (DocumentEnd \/ StreamEnd) /\ outcome' = "parsed"
     \/ SyntaxError /\ outcome' = "failed"
  /\ path' = <<>> /\ pending' = NoText
  /\ UNCHANGED <<nodes, first>>

NodesDiscard ==
  /\ outcome \in {"parsed", "failed"}
  /\ outcome' = "idle"
  /\ nodes' = NoNodes /\ first' = NoNode
  /\ UNCHANGED <<yamlVars, path, pending>>

(* An assertion ends the process, on whatever event. *)
NodesCrash ==
  /\ outcome' = "crashed"
  /\ nodes' = NoNodes /\ first' = NoNode
  /\ path' = <<>> /\ pending' = NoText

NodesNext == NodesBegin \/ NodesEvent \/ NodesReturn \/ NodesDiscard \/ NodesCrash

NodesSpec == NodesInit /\ [][NodesNext]_nodesVars
-------------------------------------------------------------------------------
(* The value of each node: what it holds replaced by the values of those. *)
Values(table) ==
  LET value[n \in DOMAIN table] ==
        [table[n] EXCEPT !.items =
          [i \in 1..Len(table[n].items) |->
            [key   |-> table[n].items[i].key,
             value |-> value[table[n].items[i].value]]]]
  IN  value

Document == IF first = NoNode THEN Node("NULL", NoText) ELSE Values(nodes)[first]

Tree == INSTANCE YamlTree WITH doc <- Document

(* The table is the document read so far, however it is nested. *)
ImplementsTree == Tree!TreeSpec
===============================================================================
