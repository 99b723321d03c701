------------------------------- MODULE YamlTree -------------------------------
(***************************************************************************)
(* What partfx_parse promises, free of arena, pointers and stack: pfx is   *)
(* the value of the document read so far.  Each event adds its node behind *)
(* the last one of the innermost open container, under the key before it,  *)
(* and a failed parse leaves what was read up to the error.  Only a        *)
(* document whose root is a mapping has a value.                           *)
(***************************************************************************)
EXTENDS YamlEvents

CONSTANT ScalarType   \* the node type of a scalar

VARIABLES
  outcome,   \* "idle", "parsing", "parsed", "failed" or "crashed"
  doc,       \* the value of the document, or NoDoc
  pending    \* the key whose value comes next, or NoText

treeVars == <<stage, open, event, outcome, doc, pending>>

Value(type, text) == [type |-> type, text |-> text, items |-> <<>>]

NoDoc == Value("NULL", NoText)

(* value with item added to the container at the given depth on its right *)
(* edge: at goes down that edge, put back up.                              *)
Insert(value, depth, item) ==
  LET at[k \in 1..depth] ==
        IF k = 1 THEN value
        ELSE at[k - 1].items[Len(at[k - 1].items)].value
      put[k \in 1..depth] ==
        IF k = depth
        THEN [at[k] EXCEPT !.items = Append(@, item)]
        ELSE [at[k] EXCEPT !.items[Len(at[k].items)].value = put[k + 1]]
  IN  put[1]

WithNode(node) ==
  IF doc = NoDoc
  THEN doc
  ELSE Insert(doc, Len(open), [key |-> pending, value |-> node])

TreeInit ==
  /\ Init
  /\ outcome = "idle"
  /\ doc = NoDoc
  /\ pending = NoText

TreeBegin ==
  /\ outcome = "idle"
  /\ \/ Restart /\ outcome' = "parsing"
     \/ UNCHANGED yamlVars /\ outcome' = "failed"
  /\ UNCHANGED <<doc, pending>>

TreeContainer(type) ==
  /\ doc' = IF Inside THEN WithNode(Value(type, NoText))
            ELSE IF type = "MAP" THEN Value("MAP", NoText)
            ELSE NoDoc
  /\ pending' = NoText

TreeScalar(text) ==
  IF Position = "key"
  THEN pending' = text /\ UNCHANGED doc
  ELSE pending' = NoText /\ doc' = WithNode(Value(ScalarType[text], text))

TreeEvent ==
  /\ outcome = "parsing"
  /\ outcome' = "parsing"
  /\ \/ MappingStart /\ TreeContainer("MAP")
     \/ SequenceStart /\ TreeContainer("SEQUENCE")
     \/ \E text \in Texts : Inside /\ Scalar(text) /\ TreeScalar(text)
     \/ /\ MappingEnd \/ SequenceEnd \/ StreamStart \/ DocumentStart
        /\ UNCHANGED <<doc, pending>>

TreeReturn ==
  /\ outcome = "parsing"
  /\ \/ (DocumentEnd \/ StreamEnd) /\ outcome' = "parsed"
     \/ SyntaxError /\ outcome' = "failed"
  /\ pending' = NoText
  /\ UNCHANGED doc

TreeDiscard ==
  /\ outcome \in {"parsed", "failed"}
  /\ outcome' = "idle"
  /\ doc' = NoDoc
  /\ UNCHANGED <<yamlVars, pending>>

(* An assertion ends the process, on whatever event. *)
TreeCrash ==
  /\ outcome' = "crashed"
  /\ doc' = NoDoc
  /\ pending' = NoText

TreeNext == TreeBegin \/ TreeEvent \/ TreeReturn \/ TreeDiscard \/ TreeCrash

TreeSpec == TreeInit /\ [][TreeNext]_treeVars
===============================================================================
