------------------------------ MODULE RunState ------------------------------
(***************************************************************************)
(* The three facts of an experiment run (core/state_machine.py): its run   *)
(* state, the status of its evidence and the review decision, with the     *)
(* transitions the freeze allows, the cross-field rules every transition   *)
(* checks, and the orchestration action the facts call for.                *)
(***************************************************************************)
EXTENDS Naturals

RunStates == {"CREATED", "PLANNED", "MATERIALIZED", "GATED", "CONTRACTED",
              "APPROVED", "RUNNING", "COMPLETED", "FAILED", "BLOCKED",
              "MEMORY_WRITTEN", "STOPPED"}

EvidenceStatuses == {"PENDING", "NOT_APPLICABLE", "VALID", "INVALID",
                     "INCOMPLETE"}

\* The decisions that judge the science, which need VALID evidence.
Scientific == {"KEEP", "DISCARD", "REPLICATE", "VALIDATE"}

Decisions == Scientific \cup {"PENDING", "ESCALATE", "STOP"}

RunFacts == [rs: RunStates, ev: EvidenceStatuses, rd: Decisions]

InitialFacts == [rs |-> "CREATED", ev |-> "PENDING", rd |-> "PENDING"]

RunTransitions(s) ==
    CASE s = "CREATED"        -> {"PLANNED", "STOPPED"}
      [] s = "PLANNED"        -> {"MATERIALIZED", "BLOCKED", "STOPPED"}
      [] s = "MATERIALIZED"   -> {"GATED", "APPROVED", "BLOCKED", "STOPPED"}
      [] s = "GATED"          -> {"APPROVED", "BLOCKED", "STOPPED"}
      [] s = "APPROVED"       -> {"CONTRACTED", "RUNNING", "BLOCKED"}
      [] s = "CONTRACTED"     -> {"RUNNING", "BLOCKED"}
      [] s = "RUNNING"        -> {"COMPLETED", "FAILED", "BLOCKED"}
      [] s = "COMPLETED"      -> {"MEMORY_WRITTEN", "STOPPED"}
      [] s = "FAILED"         -> {"APPROVED", "RUNNING", "STOPPED",
                                  "MEMORY_WRITTEN"}
      [] s = "BLOCKED"        -> {"STOPPED", "PLANNED"}
      [] s = "MEMORY_WRITTEN" -> {"STOPPED"}
      [] OTHER                -> {}

Consistent(f) ==
    /\ f.rd \in Scientific => f.ev = "VALID"
    /\ f.rs = "FAILED" => f.ev # "VALID"
    /\ f.rs \in {"CREATED", "PLANNED", "MATERIALIZED", "GATED"} =>
          f.ev \in {"PENDING", "NOT_APPLICABLE"} /\ f.rd = "PENDING"
    /\ f.rs = "RUNNING" => f.rd = "PENDING"
    /\ f.rs = "BLOCKED" => f.rd \in {"PENDING", "ESCALATE", "STOP"}

\* transition(f) = g raises no InvalidTransition.
Legal(f, g) ==
    /\ g.rs = f.rs \/ g.rs \in RunTransitions(f.rs)
    /\ Consistent(g)

To(f, s) == [f EXCEPT !.rs = s]

NextAction(f) ==
    CASE f.rs = "CREATED"                     -> "NEED_PLAN"
      [] f.rs = "PLANNED"                     -> "NEED_MATERIALIZE"
      [] f.rs = "MATERIALIZED"                -> "NEED_GATE"
      [] f.rs = "GATED"                       -> "NEED_HUMAN"
      [] f.rs \in {"APPROVED", "CONTRACTED"}  -> "NEED_EXECUTION"
      [] f.rs = "RUNNING"                     -> "NEED_PARSE"
      [] f.rs = "COMPLETED" ->
            CASE f.ev = "PENDING" -> "NEED_EVIDENCE_CHECK"
              [] f.ev = "VALID" /\ f.rd = "PENDING" -> "NEED_REVIEW"
              [] OTHER -> "NEED_MEMORY"
      [] f.rs = "FAILED"                      -> "RETRY_EXECUTION"
      [] f.rs = "MEMORY_WRITTEN" ->
            CASE f.rd = "STOP" -> "STOP"
              [] f.rd = "ESCALATE" -> "NEED_HUMAN"
              [] OTHER -> "NEXT_ROUND"
      [] OTHER                                -> "STOP"
=============================================================================
