--------------------------------- MODULE Fifo ---------------------------------
(***************************************************************************)
(* What a queue between two threads promises: items come out in the order  *)
(* in which they went in, each once, and there are never more than         *)
(* Capacity of them inside.                                                *)
(***************************************************************************)
EXTENDS Integers, Sequences

CONSTANTS Items, Capacity

VARIABLE buffer

Init == buffer = <<>>

Put(item) ==
  /\ Len(buffer) < Capacity
  /\ buffer' = Append(buffer, item)

Get ==
  /\ buffer # <<>>
  /\ buffer' = Tail(buffer)

Next == Get \/ \E item \in Items : Put(item)

Spec == Init /\ [][Next]_buffer
===============================================================================
