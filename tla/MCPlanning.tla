----------------------------- MODULE MCPlanning -----------------------------
(* Planning on a small instance. *)
EXTENDS Planning, TLC

Symmetry == Permutations(Caller) \cup Permutations(Plan) \cup Permutations(Cand)
=============================================================================
