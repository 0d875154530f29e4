---------------------------- MODULE MCExecution ----------------------------
(* One execution of one node. *)
EXTENDS Execution, TLC

CONSTANTS e1, n1

MCNodeOf == e1 :> n1
=============================================================================
