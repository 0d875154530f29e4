---------------------------- MODULE MCTreeSearch ----------------------------
(* TreeSearch on small trees. *)
EXTENDS TreeSearch, TLC

Symmetry == Permutations(Caller)
=============================================================================
