------------------------------ MODULE Patching ------------------------------
(***************************************************************************)
(* patching/service.py: the row of a patch proposal, from the proposal     *)
(* through verification, human approval, a sandbox and its evidence to a   *)
(* human decision to merge or to discard it.  Each operation reads the row *)
(* and writes it back at once, and is one action.                          *)
(*                                                                         *)
(* No operation changes the diff, so that the seal put on an approval and  *)
(* the fingerprint always match and are left out, as is the result of the  *)
(* sandbox's tests: it colours the evidence and opens or bars no way.      *)
(***************************************************************************)
CONSTANT Patch

VARIABLE patch  \* patch_proposals: the row of each patch

(* models.py: PatchStatus; nothing stores "draft". *)
PatchStatus == {"absent", "proposed", "verified", "rejected_by_verifier",
                "approved", "rejected", "applied_sandbox", "failed_sandbox",
                "evidence_recorded", "merged", "discarded"}

(* ok: the last verification passed; evidence: there is patch_evidence;      *)
(* decision: merge_decision.  Both outlive the status: an approval given    *)
(* again leaves them.                                                       *)
PatchRow == [status: PatchStatus, ok: BOOLEAN, evidence: BOOLEAN,
             decision: {"none", "merge", "discard"}]

PatchInit ==
  patch = [p \in Patch |-> [status |-> "absent", ok |-> FALSE,
                            evidence |-> FALSE, decision |-> "none"]]

PStatus(p) == patch[p].status
Write(p, row) == patch' = [patch EXCEPT ![p] = row]

-----------------------------------------------------------------------------

Verdict(ok) == IF ok THEN "verified" ELSE "rejected_by_verifier"

(* propose_mock, propose_real: verified at once, or left for later.         *)
Propose(p) ==
  /\ PStatus(p) = "absent"
  /\ \/ Write(p, [patch[p] EXCEPT !.status = "proposed"])
     \/ \E ok \in BOOLEAN :
          Write(p, [patch[p] EXCEPT !.status = Verdict(ok), !.ok = ok])

(* verify: a duplicate proposed since, or the other path policy, makes the  *)
(* answer differ from the last; evidence_recorded is not among what it      *)
(* leaves alone.                                                            *)
Verified(row, ok) ==
  [row EXCEPT !.ok = ok,
     !.status = IF @ \in {"approved", "rejected", "merged", "discarded",
                          "applied_sandbox", "failed_sandbox"}
                THEN @ ELSE Verdict(ok)]

Verify(p) ==
  /\ PStatus(p) # "absent"
  /\ \E ok \in BOOLEAN : Write(p, Verified(patch[p], ok))

(* approve: of any patch nobody rejected, a discarded or merged one too; a  *)
(* patch whose verification did not pass is verified once more.             *)
ApprovePatch(p) ==
  /\ PStatus(p) \notin {"absent", "rejected_by_verifier", "rejected"}
  /\ \E ok \in BOOLEAN :
       /\ patch[p].ok => ok
       /\ Write(p, [Verified(patch[p], ok) EXCEPT
                      !.status = IF ok THEN "approved" ELSE @])

RejectPatch(p) ==
  /\ PStatus(p) # "absent"
  /\ Write(p, [patch[p] EXCEPT !.status = "rejected"])

(* apply_sandbox, into a directory that may be there already.               *)
ApplySandbox(p) ==
  /\ PStatus(p) \in {"approved", "failed_sandbox"} /\ patch[p].ok
  /\ \E s \in {"applied_sandbox", "failed_sandbox"} :
       Write(p, [patch[p] EXCEPT !.status = s])

RecordEvidence(p) ==
  /\ PStatus(p) \in {"applied_sandbox", "evidence_recorded"}
  /\ Write(p, [patch[p] EXCEPT !.status = "evidence_recorded", !.evidence = TRUE])

(* decide_merge: a decision made once stands while the status says so.      *)
DecideMerge(p) ==
  /\ PStatus(p) = "evidence_recorded"
  /\ \E d \in {"merge", "discard"} :
       Write(p, [patch[p] EXCEPT !.decision = d,
                   !.status = IF d = "merge" THEN "merged" ELSE "discarded"])

PatchStep(p) ==
  \/ Propose(p) \/ Verify(p) \/ ApprovePatch(p) \/ RejectPatch(p)
  \/ ApplySandbox(p) \/ RecordEvidence(p) \/ DecideMerge(p)
=============================================================================
