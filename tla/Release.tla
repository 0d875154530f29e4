------------------------------- MODULE Release -------------------------------
(***************************************************************************)
(* release/merge_service.py and rollback_service.py: an evidenced patch    *)
(* becomes a merge candidate with a Git worktree of its own, is applied    *)
(* and tested there, approved by a human, committed, merged into main and, *)
(* if need be, reverted.                                                   *)
(*                                                                         *)
(* A candidate is a row; the worktrees and main are Git's.  A request      *)
(* reads the row when it begins and writes that copy back after what Git   *)
(* or the tests did.  Main is a list of merges and reverts: one branch,    *)
(* checked out and clean (the service refuses otherwise), with no commits  *)
(* of other origin.                                                        *)
(***************************************************************************)
EXTENDS Patching, Naturals, Sequences

CONSTANTS PerPatch,   \* bound on the candidates of one patch
          Caller,     \* request threads
          MaxMishaps  \* bound on overlaps on one candidate, crashes and reworks together

ASSUME ReleaseBounds == PerPatch \in Nat /\ MaxMishaps \in Nat

(* A candidate: the patch it is made of, and which of the patch's it is.    *)
Cand == Patch \X (1..PerPatch)
Of(m) == m[1]

VARIABLES cand,      \* merge_candidates: the row of each candidate
          wt,        \* its worktree
          main,      \* what was merged into the target branch and reverted
          call,      \* what each caller is doing
          vetted,    \* history: candidates approved since their last test passed
          again,     \* history: a finalize found its commit on main already
          overlaps,  \* requests begun while another on the candidate went on
          crashes,   \* deaths of the process in the middle of a request
          reworks    \* operations on a patch that has a candidate

vars == <<patch, cand, wt, main, call, vetted, again, overlaps, crashes, reworks>>

-----------------------------------------------------------------------------
CandStatus == {"absent", "created", "preparing", "testing", "waiting_approval",
               "approved", "committing", "merged", "failed", "rolled_back",
               "rejected", "merge_conflict"}
Closed == {"rejected", "rolled_back", "merge_conflict"}

(* applied: workspace_applied; tested: last_test passed; commit: commit_sha *)
(* is set; merge: merge_commit_sha, by its place on main, or 0.             *)
CandRow == [status: CandStatus, applied: BOOLEAN, tested: BOOLEAN,
            commit: BOOLEAN, merge: Nat]
NoCand == [status |-> "absent", applied |-> FALSE, tested |-> FALSE,
           commit |-> FALSE, merge |-> 0]

(* of: the candidate whose request made it; adds: its patch was not on main *)
(* before; undone: it has been reverted; reverts: the place reverted.       *)
Entry == [what: {"merge", "revert"}, of: Cand, adds: BOOLEAN, undone: BOOLEAN,
          reverts: Nat]

CallLabel == {"idle", "apply", "applied", "tests", "commit", "committed",
              "merged", "postcheck", "rollback", "reverted"}
Idle == [at |-> "idle"]
Working == [at: CallLabel \ {"idle"}, m: Cand, row: CandRow]

Init ==
  /\ PatchInit
  /\ cand = [m \in Cand |-> NoCand]
  /\ wt = [m \in Cand |-> "none"]
  /\ main = <<>>
  /\ call = [c \in Caller |-> Idle]
  /\ vetted = {} /\ again = FALSE
  /\ overlaps = 0 /\ crashes = 0 /\ reworks = 0

-----------------------------------------------------------------------------
Doing(c, l) == call[c].at = l
Return(c) == call' = [call EXCEPT ![c] = Idle]
Goto(c, l, m, row) == call' = [call EXCEPT ![c] = [at |-> l, m |-> m, row |-> row]]
Row(c) == call[c].row
Status(m) == cand[m].status
SaveRow(m, row) == cand' = [cand EXCEPT ![m] = row]

Busy(m) == \E c \in Caller : ~Doing(c, "idle") /\ call[c].m = m
Mishap == overlaps + crashes + reworks < MaxMishaps

(* A request on m begins. *)
Enter(m) ==
  /\ Status(m) # "absent"
  /\ IF Busy(m) THEN Mishap /\ overlaps' = overlaps + 1 ELSE UNCHANGED overlaps
  /\ UNCHANGED <<crashes, reworks>>

OnMain(p) == \E i \in DOMAIN main :
               /\ main[i].what = "merge" /\ main[i].adds /\ ~main[i].undone
               /\ Of(main[i].of) = p
MergedIn(m) == \E i \in DOMAIN main : main[i].what = "merge" /\ main[i].of = m

-----------------------------------------------------------------------------
(* prepare: nothing but the patch's row is asked whether it may be merged,  *)
(* and a patch may have several candidates.                                 *)

(* A mistake: evidence is enough, no decision is asked for. *)
ReadyUndecided(p) ==
  patch[p].evidence /\ PStatus(p) \in {"merged", "evidence_recorded"}

ReadyForPrepare(p) ==
  /\ patch[p].evidence /\ patch[p].decision = "merge"
  /\ PStatus(p) \in {"merged", "evidence_recorded"}

Prepare(m) ==
  /\ Status(m) = "absent" /\ ReadyForPrepare(Of(m))
  /\ wt' = [wt EXCEPT ![m] = "clean"]
  /\ \E s \in {"created", "merge_conflict"} :
       /\ OnMain(Of(m)) => s = "merge_conflict"
       /\ SaveRow(m, [NoCand EXCEPT !.status = s])
  /\ UNCHANGED <<patch, main, call, vetted, again, overlaps, crashes, reworks>>

-----------------------------------------------------------------------------
(* apply_workspace *)

ApplyWorkspace(c, m) ==
  /\ Doing(c, "idle") /\ Enter(m)
  /\ Status(m) \in {"created", "preparing", "failed"} /\ ~cand[m].applied
  /\ LET row == [cand[m] EXCEPT !.status = "preparing"] IN
       SaveRow(m, row) /\ Goto(c, "apply", m, row)
  /\ UNCHANGED <<patch, wt, main, vetted, again>>

(* git apply fails on a worktree that has the patch. *)
GitApply(c) ==
  /\ Doing(c, "apply")
  /\ LET m == call[c].m IN
     IF wt[m] = "clean"
     THEN /\ wt' = [wt EXCEPT ![m] = "applied"]
          /\ Goto(c, "applied", m, Row(c))
          /\ UNCHANGED cand
     ELSE /\ SaveRow(m, [Row(c) EXCEPT !.status = "merge_conflict"])
          /\ Return(c) /\ UNCHANGED wt
  /\ UNCHANGED <<patch, main, vetted, again, overlaps, crashes, reworks>>

(* The main tree changed, or a path is not allowed: failed, not applied.    *)
SaveApplied(c) ==
  /\ Doing(c, "applied")
  /\ \/ SaveRow(call[c].m, [Row(c) EXCEPT !.applied = TRUE])
     \/ SaveRow(call[c].m, [Row(c) EXCEPT !.status = "failed"])
  /\ Return(c)
  /\ UNCHANGED <<patch, wt, main, vetted, again, overlaps, crashes, reworks>>

-----------------------------------------------------------------------------
(* run_tests *)

(* A mistake: a candidate a human has rejected may be tested again. *)
TestableAny(m) ==
  cand[m].applied /\ Status(m) \notin {"merge_conflict", "rolled_back", "merged"}

Testable(m) ==
  cand[m].applied
  /\ Status(m) \notin {"merge_conflict", "rejected", "rolled_back", "merged"}

RunTests(c, m) ==
  /\ Doing(c, "idle") /\ Enter(m) /\ Testable(m)
  /\ LET row == [cand[m] EXCEPT !.status = "testing"] IN
       SaveRow(m, row) /\ Goto(c, "tests", m, row)
  /\ UNCHANGED <<patch, wt, main, vetted, again>>

SaveTests(c) ==
  /\ Doing(c, "tests")
  /\ LET m == call[c].m IN
     /\ \/ /\ SaveRow(m, [Row(c) EXCEPT !.status = "failed"])  \* main changed
           /\ UNCHANGED vetted
        \/ /\ \E ok \in BOOLEAN :
                SaveRow(m, [Row(c) EXCEPT !.tested = ok,
                              !.status = IF ok THEN "waiting_approval" ELSE "failed"])
           /\ vetted' = vetted \ {m}
     /\ Return(c)
  /\ UNCHANGED <<patch, wt, main, again, overlaps, crashes, reworks>>

-----------------------------------------------------------------------------
(* approve, reject *)

Approve(m) ==
  /\ Enter(m) /\ Status(m) = "waiting_approval" /\ cand[m].tested
  /\ SaveRow(m, [cand[m] EXCEPT !.status = "approved"])
  /\ vetted' = vetted \cup {m}
  /\ UNCHANGED <<patch, wt, main, call, again>>

(* A candidate that failed its check on main may be rejected: its merge     *)
(* stays.                                                                   *)
Reject(m) ==
  /\ Enter(m)
  /\ Status(m) \in {"waiting_approval", "approved", "preparing", "created", "failed"}
  /\ SaveRow(m, [cand[m] EXCEPT !.status = "rejected"])
  /\ UNCHANGED <<patch, wt, main, call, vetted, again>>

-----------------------------------------------------------------------------
(* commit_candidate *)

(* A mistake: tests are enough, no approval is asked for. *)
CommittableTested(m) ==
  Status(m) \in {"approved", "waiting_approval"} /\ cand[m].applied /\ ~cand[m].commit

Committable(m) == Status(m) = "approved" /\ cand[m].applied /\ ~cand[m].commit

CommitCandidate(c, m) ==
  /\ Doing(c, "idle") /\ Enter(m) /\ Committable(m)
  /\ LET row == [cand[m] EXCEPT !.status = "committing"] IN
       SaveRow(m, row) /\ Goto(c, "commit", m, row)
  /\ UNCHANGED <<patch, wt, main, vetted, again>>

(* There is nothing to commit in a worktree that has been committed.        *)
GitCommit(c) ==
  /\ Doing(c, "commit")
  /\ LET m == call[c].m IN
     \/ /\ wt[m] = "applied"
        /\ wt' = [wt EXCEPT ![m] = "committed"]
        /\ Goto(c, "committed", m, Row(c))
        /\ UNCHANGED cand
     \/ /\ SaveRow(m, [Row(c) EXCEPT !.status = "failed"])
        /\ Return(c) /\ UNCHANGED wt
  /\ UNCHANGED <<patch, main, vetted, again, overlaps, crashes, reworks>>

SaveCommitted(c) ==
  /\ Doing(c, "committed")
  /\ \/ SaveRow(call[c].m, [Row(c) EXCEPT !.commit = TRUE])
     \/ SaveRow(call[c].m, [Row(c) EXCEPT !.status = "failed"])  \* main changed
  /\ Return(c)
  /\ UNCHANGED <<patch, wt, main, vetted, again, overlaps, crashes, reworks>>

-----------------------------------------------------------------------------
(* finalize: git merge --no-ff.  A commit that main has already is "Already *)
(* up to date": no merge is made and the head, whatever it is, is taken for *)
(* it.                                                                      *)
Finalize(c, m) ==
  /\ Doing(c, "idle") /\ Enter(m)
  /\ Status(m) \in {"committing", "approved"} /\ cand[m].commit
  /\ IF MergedIn(m)
     THEN /\ Goto(c, "merged", m, [cand[m] EXCEPT !.merge = Len(main)])
          /\ again' = TRUE
          /\ UNCHANGED <<main, cand>>
     ELSE /\ UNCHANGED again
          /\ \/ /\ main' = Append(main, [what |-> "merge", of |-> m,
                             adds |-> ~OnMain(Of(m)), undone |-> FALSE,
                             reverts |-> 0])
                /\ Goto(c, "merged", m, [cand[m] EXCEPT !.merge = Len(main) + 1])
                /\ UNCHANGED cand
             \/ /\ SaveRow(m, [cand[m] EXCEPT !.status = "merge_conflict"])
                /\ UNCHANGED <<main, call>>
  /\ UNCHANGED <<patch, wt, vetted>>

SaveMerged(c) ==
  /\ Doing(c, "merged")
  /\ LET row == [Row(c) EXCEPT !.status = "merged"] IN
       /\ SaveRow(call[c].m, row)
       /\ \/ Return(c)                                \* no post-merge profile
          \/ Goto(c, "postcheck", call[c].m, row)
  /\ UNCHANGED <<patch, wt, main, vetted, again, overlaps, crashes, reworks>>

(* The check's result is saved; if it failed, the merge is rolled back or   *)
(* the candidate is left failed with its merge on main.                     *)
PostCheck(c) ==
  /\ Doing(c, "postcheck")
  /\ \/ SaveRow(call[c].m, Row(c)) /\ Return(c)
     \/ /\ SaveRow(call[c].m, Row(c))
        /\ Goto(c, "rollback", call[c].m, Row(c))
     \/ SaveRow(call[c].m, [Row(c) EXCEPT !.status = "failed"]) /\ Return(c)
  /\ UNCHANGED <<patch, wt, main, vetted, again, overlaps, crashes, reworks>>

-----------------------------------------------------------------------------
(* RollbackService.rollback: git revert -m 1 of the merge on record, or of  *)
(* the worktree's commit, which is no merge.  A revert that would change    *)
(* nothing fails, as does one in conflict; the status is left then.         *)

ToRevert(m) ==
  {i \in DOMAIN main :
     i = cand[m].merge /\ main[i].what = "merge" /\ ~main[i].undone /\ main[i].adds}

(* A mistake: a revert that failed counts as one that was made. *)
RevertAnyway(c, m) ==
  /\ Status(m) \in {"merged", "failed"}
  /\ Goto(c, "reverted", m, cand[m])
  /\ \/ \E i \in ToRevert(m) :
          main' = Append([main EXCEPT ![i].undone = TRUE],
                         [what |-> "revert", of |-> m, adds |-> FALSE,
                          undone |-> FALSE, reverts |-> i])
     \/ UNCHANGED main

Revert(c, m) ==
  \/ /\ Status(m) \in {"merged", "failed"}
     /\ \E i \in ToRevert(m) :
          main' = Append([main EXCEPT ![i].undone = TRUE],
                         [what |-> "revert", of |-> m, adds |-> FALSE,
                          undone |-> FALSE, reverts |-> i])
     /\ Goto(c, "reverted", m, cand[m])
  \/ ~Doing(c, "idle") /\ Return(c) /\ UNCHANGED main

Rollback(c, m) ==
  /\ Doing(c, "idle") /\ Enter(m) /\ Revert(c, m)
  /\ UNCHANGED <<patch, cand, wt, vetted, again>>

AutoRollback(c) ==
  /\ Doing(c, "rollback") /\ Revert(c, call[c].m)
  /\ UNCHANGED <<patch, cand, wt, vetted, again, overlaps, crashes, reworks>>

SaveRolledBack(c) ==
  /\ Doing(c, "reverted")
  /\ SaveRow(call[c].m, [Row(c) EXCEPT !.status = "rolled_back"])
  /\ Return(c)
  /\ UNCHANGED <<patch, wt, main, vetted, again, overlaps, crashes, reworks>>

-----------------------------------------------------------------------------
Crash ==
  /\ (\E m \in Cand : Busy(m)) /\ Mishap
  /\ crashes' = crashes + 1
  /\ call' = [c \in Caller |-> Idle]
  /\ UNCHANGED <<patch, cand, wt, main, vetted, again, overlaps, reworks>>

PatchNext ==
  /\ \E p \in Patch :
       /\ PatchStep(p)
       /\ IF \E m \in Cand : Status(m) # "absent" /\ Of(m) = p
          THEN Mishap /\ reworks' = reworks + 1 ELSE UNCHANGED reworks
  /\ UNCHANGED <<cand, wt, main, call, vetted, again, overlaps, crashes>>

Continue(c) ==
  \/ GitApply(c) \/ SaveApplied(c) \/ SaveTests(c)
  \/ GitCommit(c) \/ SaveCommitted(c)
  \/ SaveMerged(c) \/ PostCheck(c) \/ AutoRollback(c) \/ SaveRolledBack(c)

Request(c, m) ==
  \/ ApplyWorkspace(c, m) \/ RunTests(c, m) \/ CommitCandidate(c, m)
  \/ Finalize(c, m) \/ Rollback(c, m)

Next ==
  \/ PatchNext
  \/ \E m \in Cand : Prepare(m) \/ Approve(m) \/ Reject(m)
  \/ \E c \in Caller : Continue(c) \/ \E m \in Cand : Request(c, m)
  \/ Crash

Spec == Init /\ [][Next]_vars

-----------------------------------------------------------------------------
(* Types of the rows, the branch and the copies requests hold.              *)
TypeOK ==
  /\ patch \in [Patch -> PatchRow]
  /\ cand \in [Cand -> CandRow]
  /\ wt \in [Cand -> {"none", "clean", "applied", "committed"}]
  /\ main \in Seq(Entry)
  /\ call \in [Caller -> {Idle} \cup Working]
  /\ vetted \subseteq Cand /\ again \in BOOLEAN
  /\ overlaps \in 0..MaxMishaps /\ crashes \in 0..MaxMishaps
  /\ reworks \in 0..MaxMishaps

(* Requests overlapped on a candidate, or a crash broke one off. *)
Disturbed == overlaps > 0 \/ crashes > 0

(* Between two requests that work on it, a candidate's row tells the truth  *)
(* about main: a merged one's patch is there, a rolled back one's is not.   *)
(* Two candidates of one patch are an exception: the revert of one takes    *)
(* the patch from both, and a merge of one brings it back.  Another is a    *)
(* candidate finalized twice.                                               *)
LedgerTrue ==
  ~Disturbed /\ ~again =>
    \A m \in Cand :
      (~Busy(m) /\ \A n \in Cand \ {m} : Of(n) = Of(m) => ~MergedIn(n)) =>
        /\ Status(m) = "merged" => OnMain(Of(m))
        /\ Status(m) = "rolled_back" => ~OnMain(Of(m))

(* What is reverted for a candidate is its own merge, however many merges   *)
(* of others came between and whatever broke off, unless it was finalized   *)
(* a second time.                                                           *)
RevertsOwn ==
  ~again => \A i \in DOMAIN main :
              main[i].what = "revert" => main[main[i].reverts].of = main[i].of

(* The candidates' rows and main tell the same story, of merges and of       *)
(* reverts, in well-formed rows.                                             *)
LedgerSound == TypeOK /\ LedgerTrue /\ RevertsOwn

(* Whatever is on main has evidence and a human's decision on record,       *)
(* through verifications, approvals and sandboxes repeated in any order.    *)
MainWasDecided ==
  \A p \in Patch : OnMain(p) => patch[p].evidence /\ patch[p].decision # "none"

(* A merge into main is of a worktree whose last tests passed and that a    *)
(* human has approved since, however often it was tested, failed, tested    *)
(* again and committed before.                                              *)
MergeVetted ==
  [][\A m \in Cand : MergedIn(m)' /\ ~MergedIn(m) => Disturbed' \/ m \in vetted]_vars

(* Verdicts stand: a candidate that is rejected, rolled back or in conflict *)
(* keeps its status, and so does a patch that a human has rejected.         *)
VerdictsStand ==
  [][/\ \A m \in Cand : Status(m) \in Closed => Disturbed' \/ Status(m)' = Status(m)
     /\ \A p \in Patch : PStatus(p) = "rejected" => PStatus(p)' = "rejected"]_vars
=============================================================================
