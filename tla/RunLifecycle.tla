---------------------------- MODULE RunLifecycle ----------------------------
(***************************************************************************)
(* What the freeze promises of the experiment run document, whoever writes *)
(* it and whenever the writer dies: the facts on disk move only along legal*)
(* transitions (a save may stand for two of them, such as APPROVED through *)
(* RUNNING to FAILED), and a new round replaces the document only when the *)
(* old round is in memory and nobody has to be asked.                      *)
(***************************************************************************)
EXTENDS RunState

VARIABLES round, facts

vars == <<round, facts>>

Init == round \in Nat /\ facts = InitialFacts

Advance ==
    /\ round' = round
    /\ facts' \in RunFacts
    /\ \E s \in RunStates :
          /\ Legal(facts, To(facts, s))
          /\ Legal(To(facts, s), facts')

NextRound ==
    /\ NextAction(facts) = "NEXT_ROUND"
    /\ round' \in Nat
    /\ round' > round
    /\ facts' = InitialFacts

Next == Advance \/ NextRound

Spec == Init /\ [][Next]_vars
=============================================================================
