--------------------------- MODULE MCHowLifecycle ---------------------------
(* A draft from papers, or from the planner, and an invented one.            *)
EXTENDS HowLifecycle, TLC
CONSTANTS l1, v1, P1, P2

MCHowOf == (l1 :> P1) @@ (v1 :> P2)
=============================================================================
