---------------------------- MODULE MCPublisher ----------------------------
(***************************************************************************)
(* A publisher with a queue of three, a schedule of two reconnections and  *)
(* a look at the channel at every second empty queue.                      *)
(***************************************************************************)
EXTENDS Publisher
============================================================================
