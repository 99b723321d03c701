---------------------------- MODULE MCPartfxQuery ----------------------------
(***************************************************************************)
(* PartfxQuery on small arenas.                                            *)
(***************************************************************************)
EXTENDS PartfxQuery, MCPartfxParse

CONSTANTS decimal, flag   \* texts parse_scalar makes a float and a Boolean of

MCQueryTexts == {CNST, number, decimal, flag}
MCQueryScalarType ==
  CNST :> "STRING" @@ number :> "INT" @@ decimal :> "FLOAT" @@ flag :> "BOOL"
MCQueryStrSize == [text \in MCQueryTexts |-> 1]

(* All paths of at most two keys. *)
MCPaths == UNION {[1..n -> Texts] : n \in 0..2}
=============================================================================
