----------------------------- MODULE MCPartfxParse -----------------------------
(***************************************************************************)
(* PartfxParse on small arenas.                                            *)
(***************************************************************************)
EXTENDS PartfxParse, TLC

CONSTANTS name, number   \* one text parse_scalar keeps, one it converts

MCTexts == {name, number}
MCScalarType == name :> "STRING" @@ number :> "INT"
MCStrSize == name :> 1 @@ number :> 1
===============================================================================
