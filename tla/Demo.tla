---------------------------------- MODULE Demo ----------------------------------
(***************************************************************************)
(* What the demos that keep a state of their own have in common: main sets *)
(* one up, then ticks and draws it once a frame, then drops it.            *)
(***************************************************************************)
EXTENDS Integers

VARIABLES
  app,     \* appId of main: the demo it runs, "INVALID" until an argument is matched
  phase    \* the call the demo waits for: "init", "tick", "draw" or none, "dropped"

(* C's division of integers, and of floats that are cut to integers. *)
Truncated(a, b) == IF a >= 0 THEN a \div b ELSE -((-a) \div b)
===============================================================================
