--------------------------- MODULE MCResearchLoop ---------------------------
(* ResearchLoop on one session. *)
EXTENDS ResearchLoop, TLC

Symmetry == Permutations(Requester)
=============================================================================
