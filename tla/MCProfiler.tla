------------------------------ MODULE MCProfiler ------------------------------
(***************************************************************************)
(* Profiler with a query for each of the threads that answer.              *)
(***************************************************************************)
EXTENDS Profiler

CONSTANTS symbol, source, string

MCSlow == {symbol, source}
MCFast == {string}

(* The names of the slow ones mean nothing. *)
MCEarlier == {<<symbol, source>>}
===============================================================================
