--------------------------------- MODULE MCMain ---------------------------------
(***************************************************************************)
(* Main with an isometric map of four tiles and three boids with the factors *)
(* of the code on a grid of a thousandth.                                  *)
(***************************************************************************)
EXTENDS Main

(* The centre of the screen is no place of the world. *)
MCScreenCentre == At(20, 20)
MCWorld == [x : -2..2, y : -1..2]

(* On the character, beside it and away from it. *)
MCMice ==
  {Plus(MCScreenCentre, At(0, 0)), Plus(MCScreenCentre, At(1, 1)),
   Plus(MCScreenCentre, At(-3, 0)), Plus(MCScreenCentre, At(2, 0))}

MCHalfSize == [x |-> 7500, y |-> 5000, z |-> 5000]

(* In a row along the lower back edge, a radius and more apart, so that a  *)
(* boid leaves the box next to others that have not, and the far corner.   *)
MCPlaces ==
  {[x |-> -7500, y |-> -5000, z |-> -5000], [x |-> -6000, y |-> -4900, z |-> -4900],
   [x |-> -4500, y |-> -4900, z |-> -4900], [x |-> 7500, y |-> 5000, z |-> 5000]}

(* The same row along the upper front edge. *)
MCUpperPlaces == {[a \in Axes |-> -place[a]] : place \in {q \in MCPlaces : q["y"] < 0}}

(* As fast as boids start, along an edge and out of it on each other axis. *)
MCVelocities ==
  {[x |-> 750, y |-> 750, z |-> 750], [x |-> 0, y |-> -90, z |-> -90],
   [x |-> -100, y |-> 90, z |-> 0]}
===============================================================================
