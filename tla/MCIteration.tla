---------------------------- MODULE MCIteration ----------------------------
(* One iteration and two callers. *)
EXTENDS Iteration, TLC
=============================================================================
