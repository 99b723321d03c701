------------------------------ MODULE YamlEvents ------------------------------
(***************************************************************************)
(* External: the libyaml event stream that partfx_parse consumes.          *)
(*                                                                         *)
(* yaml_parser_parse hands out one event per call.  The stream is well     *)
(* nested: inside a mapping the nodes alternate between key and value, and *)
(* the document that partfx_parse reads is the first of the stream.  Any   *)
(* call may instead report an error in the text.                           *)
(***************************************************************************)
EXTENDS Integers, Sequences

CONSTANTS
  Texts,    \* the scalars of the documents, keys included
  NoText,   \* the text of an event that carries none
  Dialect   \* the rarer YAML features the documents use, of
            \* "alias", "containerKey" and "scalarRoot"

VARIABLES
  stage,    \* how far the stream has come
  open,     \* per open container, the position of its next node
  event     \* the event last handed out

yamlVars == <<stage, open, event>>

(* What the next node of a mapping or a sequence is, once one is placed. *)
NextPosition == [key |-> "value", value |-> "key", item |-> "item"]

NoEvent == [type |-> "NO_EVENT", text |-> NoText]

Emit(type, text) == event' = [type |-> type, text |-> text]

Inside == open # <<>>
Position == open[Len(open)]

(* The open containers after one more node was placed in the innermost. *)
Placed ==
  IF Inside THEN [open EXCEPT ![Len(open)] = NextPosition[@]] ELSE open

Init ==
  /\ stage = "stream"
  /\ open = <<>>
  /\ event = NoEvent

(* yaml_parser_initialize and yaml_parser_set_input_string. *)
Restart ==
  /\ stage' = "stream"
  /\ open' = <<>>
  /\ event' = NoEvent

StreamStart ==
  /\ stage = "stream"
  /\ stage' = "document"
  /\ Emit("STREAM_START", NoText)
  /\ UNCHANGED open

DocumentStart ==
  /\ stage = "document"
  /\ stage' = "root"
  /\ Emit("DOCUMENT_START", NoText)
  /\ UNCHANGED open

ContainerAllowed ==
  \/ stage = "root"
  \/ /\ stage = "content"
     /\ Position = "key" => "containerKey" \in Dialect

MappingStart ==
  /\ ContainerAllowed
  /\ stage' = "content"
  /\ open' = Append(Placed, "key")
  /\ Emit("MAPPING_START", NoText)

SequenceStart ==
  /\ ContainerAllowed
  /\ stage' = "content"
  /\ open' = Append(Placed, "item")
  /\ Emit("SEQUENCE_START", NoText)

Scalar(text) ==
  /\ \/ stage = "content" /\ stage' = "content"
     \/ stage = "root" /\ "scalarRoot" \in Dialect /\ stage' = "closed"
  /\ open' = Placed
  /\ Emit("SCALAR", text)

Alias ==
  /\ stage = "content"
  /\ "alias" \in Dialect
  /\ open' = Placed
  /\ Emit("ALIAS", NoText)
  /\ UNCHANGED stage

ContainerEnd(position, type) ==
  /\ stage = "content"
  /\ Position = position
  /\ open' = SubSeq(open, 1, Len(open) - 1)
  /\ stage' = IF Len(open) = 1 THEN "closed" ELSE "content"
  /\ Emit(type, NoText)

MappingEnd == ContainerEnd("key", "MAPPING_END")

SequenceEnd == ContainerEnd("item", "SEQUENCE_END")

DocumentEnd ==
  /\ stage = "closed"
  /\ stage' = "end"
  /\ Emit("DOCUMENT_END", NoText)
  /\ UNCHANGED open

(* A stream without documents. *)
StreamEnd ==
  /\ stage = "document"
  /\ stage' = "end"
  /\ Emit("STREAM_END", NoText)
  /\ UNCHANGED open

(* yaml_parser_parse returns 0: the text is not YAML from here on. *)
SyntaxError ==
  /\ stage # "end"
  /\ stage' = "end"
  /\ event' = NoEvent
  /\ UNCHANGED open

TypeOK ==
  /\ stage \in {"stream", "document", "root", "content", "closed", "end"}
  /\ open \in Seq({"key", "value", "item"})
  /\ event.text \in Texts \union {NoText}
===============================================================================
