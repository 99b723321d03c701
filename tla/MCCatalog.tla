------------------------------ MODULE MCCatalog ------------------------------
(***************************************************************************)
(* Catalog over small slots.                                               *)
(***************************************************************************)
EXTENDS Catalog

Line(name, rest) ==
  [colon |-> TRUE, semicolon |-> FALSE, name |-> name, rest |-> rest]

(* Names and paths around the size of their slots, lines shorter than the  *)
(* prefix and without a colon, and a name with a semicolon.                *)
MCLines ==
  {Line(n, r) : n \in {0, 1, 2, 3, 4, 6}, r \in {1, 2, 3, 5, 6}} \union
  {[Line(2, 3) EXCEPT !.semicolon = TRUE], [Line(2, 3) EXCEPT !.colon = FALSE]}
===============================================================================
