----------------------------- MODULE MCRelease -----------------------------
(* Release on two patches with a candidate each. *)
EXTENDS Release, TLC

Symmetry == Permutations(Patch) \cup Permutations(Caller)
=============================================================================
