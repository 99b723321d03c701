----------------------------- MODULE MCPartViewer -----------------------------
(***************************************************************************)
(* PartViewer over small catalogues.                                       *)
(***************************************************************************)
EXTENDS PartViewer, TLC

CONSTANTS ball, beam, smoke, spark, empty, torn, missing, glowA, glowB

Effect(tex, endFrame, cost) ==
  [readable |-> TRUE, parse |-> "whole", texture |-> tex,
   endFrame |-> endFrame, cost |-> cost]

(* Around and inside a list of up to seven rows of two pixels, one apart. *)
MCDepths == -1..24

MCCatalog == <<ball, beam, smoke>>

(* As shipped: most files have no KSSM. *)
Shipped ==
  ball :> Effect(glowA, 3, 2) @@
  beam :> Effect(NoTexture, NoEndFrame, 3) @@
  smoke :> Effect(glowB, NoEndFrame, 1)

(* Every way a file can fail, next to three that play: with a texture,     *)
(* without one, and with a negative endFrame.  Few fit the arena together. *)
MCMixedCatalog == <<ball, smoke, spark, beam, torn, empty, missing>>

Mixed ==
  ball :> Effect(glowA, 7, 2) @@
  smoke :> Effect(glowB, -3, 4) @@
  spark :> Effect(NoTexture, 2, 3) @@
  beam :> Effect(NoTexture, NoEndFrame, 3) @@
  torn :> [Effect(glowB, NoEndFrame, 1) EXCEPT !.parse = "broken"] @@
  empty :> [Effect(NoTexture, NoEndFrame, 0) EXCEPT !.parse = "blank"] @@
  missing :> [Effect(NoTexture, NoEndFrame, 0) EXCEPT !.readable = FALSE]
===============================================================================
