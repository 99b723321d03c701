------------------------------ MODULE MCSPSCQueue ------------------------------
(***************************************************************************)
(* SPSCQueue with two items to tell apart.                                 *)
(***************************************************************************)
EXTENDS SPSCQueue

CONSTANTS a, b

MCItems == {a, b}
===============================================================================
