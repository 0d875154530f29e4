----------------------------- MODULE ManagerRun -----------------------------
(***************************************************************************)
(* Manager.step (core/manager.py): one orchestration action per call, read *)
(* from and written to the files of a project directory.                   *)
(*                                                                         *)
(* A step reads experiment_run.json and manager_status.json, applies the   *)
(* stop rules, runs the handler the run facts call for, and writes the two *)
(* documents back in this order: handler files first (plan, contract,      *)
(* handle, result, review, lessons), then experiment_run.json, then the    *)
(* git repository, then manager_status.json.  The process may die between  *)
(* any two of these writes; the next process starts from the files.        *)
(***************************************************************************)
EXTENDS RunState, Integers, Sequences, FiniteSets

CONSTANTS
    FirstRounds,   \* round_index of the seed plans a run may start from
    Preloaded,     \* rounds whose lessons are in memory before the first run
    HasGit,        \* git_root is a repository of its own
    MaxExtra,      \* Manager(max_extra_rounds)
    MaxRounds, MaxDiscards, MaxFailures, MaxRejects,  \* protocol.stop_rules
    MaxCrashes,    \* bound: how often the process dies
    MaxGitErrors   \* bound: how often a git command fails

NoLimit == 0       \* a stop rule the protocol does not set (set ones are >= 1)

ASSUME ConstantsAssumption ==
    /\ FirstRounds \subseteq Nat
    /\ Preloaded \subseteq Nat /\ IsFiniteSet(Preloaded)
    /\ HasGit \in BOOLEAN
    /\ MaxExtra \in Nat
    /\ {MaxRounds, MaxDiscards, MaxFailures, MaxRejects} \subseteq Nat
    /\ {MaxCrashes, MaxGitErrors} \subseteq Nat

VARIABLES
    doc,       \* experiment_run.json: [round, facts]
    status,    \* manager_status.json: the counters of the stop rules
    files,     \* plan, contract, handle, result and review, by round
    lessons,   \* memory/: rounds whose lessons are stored
    archive,   \* runs/: facts of the archived rounds
    git,       \* git pointers and HEAD, as indexes into commits (0: initial)
    commits,   \* the experiment commits: round, and the commits they include
    pc,        \* where the step is: "idle" between two steps
    mem,       \* the step's copies of the two documents, and what follows
    confirm,   \* confirm_human_gate of the current Manager
    gpu,       \* history: rounds whose contract was executed
    approved,  \* history: rounds whose contract passed the gate
    crashes, gitErrors

disk == <<doc, status, files, lessons, archive, git, commits>>
history == <<gpu, approved>>
faults == <<crashes, gitErrors>>
vars == <<disk, pc, mem, confirm, history, faults>>

NoRound == -1      \* no such file yet
Tag == Nat \cup {NoRound}

\* handle.json and result.json: the round they belong to, the execution
\* status, and whether exception_handler.py counts the error as retryable.
ExecStatus == {"completed", "dry_run", "failed", "other"}
Outcome == [round: Tag, status: ExecStatus \cup {"success"}, fatal: BOOLEAN]
NoOutcome == [round |-> NoRound, status |-> "failed", fatal |-> FALSE]

\* The copies of a Manager that is between two steps.
Rest(d, s) == [doc |-> d, status |-> s, then |-> "status"]

Files == [plan: Nat, contract: Tag, review: Tag, handle: Outcome, result: Outcome]
Document == [round: Nat, facts: RunFacts]
Counters == [discards: Nat, failures: Nat, rejects: Nat, extra: Nat]

-----------------------------------------------------------------------------
Init ==
    /\ \E first \in FirstRounds :
          /\ doc = [round |-> first, facts |-> InitialFacts]
          /\ files = [plan |-> first, contract |-> NoRound, review |-> NoRound,
                      handle |-> NoOutcome, result |-> NoOutcome]
    /\ status = [discards |-> 0, failures |-> 0, rejects |-> 0, extra |-> 0]
    /\ lessons = Preloaded
    /\ archive = [r \in {} |-> InitialFacts]
    /\ git = [exp |-> 0, best |-> 0, head |-> 0]
    /\ commits = <<>>
    /\ pc = "idle"
    /\ mem = Rest(doc, status)
    /\ confirm \in BOOLEAN
    /\ gpu = {} /\ approved = {}
    /\ crashes = 0 /\ gitErrors = 0

-----------------------------------------------------------------------------
(* Stop rules *)

Reached(count, limit) == limit # NoLimit /\ count >= limit

\* rounds_without_improvement is a counter nothing ever writes, so its rule
\* never fires and is left out.
StopRule(counters, round) ==
    \/ Reached(round, MaxRounds)
    \/ Reached(counters.discards, MaxDiscards)
    \/ Reached(counters.failures, MaxFailures)
    \/ Reached(counters.rejects, MaxRejects)

\* A mistake: a stop rule parks the run as BLOCKED.
HaltFactsBlocked(f) == To(f, "BLOCKED")

\* STOPPED directly, or through BLOCKED where the table has no direct way.
HaltFacts(f) ==
    IF {"STOPPED", "BLOCKED"} \cap RunTransitions(f.rs) # {}
    THEN To(f, "STOPPED") ELSE f

-----------------------------------------------------------------------------
(* The frame of a step *)

\* The handler for `action` runs: no stop rule fires and the facts call for it.
Handles(action) ==
    /\ pc = "idle"
    /\ ~StopRule(status, doc.round)
    /\ NextAction(doc.facts) = action

\* The handler's last word: save these documents, then go on at `then`.  What
\* transition() refuses is no guard here: FactsConsistent and
\* ImplementsLifecycle show that no handler ever asks for it.
Save(round, facts, counters, then) ==
    /\ mem' = [doc |-> [round |-> round, facts |-> facts],
               status |-> counters, then |-> then]
    /\ pc' = "save"
    /\ UNCHANGED <<doc, status, git, commits, confirm, faults>>

SaveRun ==
    /\ pc = "save"
    /\ doc' = mem.doc
    /\ pc' = mem.then
    /\ UNCHANGED <<status, files, lessons, archive, git, commits, mem, confirm,
                   history, faults>>

SaveStatus ==
    /\ pc = "status"
    /\ status' = mem.status
    /\ mem' = Rest(doc, mem.status)
    /\ pc' = "idle"
    /\ UNCHANGED <<doc, files, lessons, archive, git, commits, confirm,
                   history, faults>>

Halt ==
    /\ pc = "idle"
    /\ StopRule(status, doc.round) \/ NextAction(doc.facts) = "STOP"
    /\ doc.facts.rs # "STOPPED"
    /\ Save(doc.round, HaltFacts(doc.facts), status, "status")
    /\ UNCHANGED <<files, lessons, archive, history>>

-----------------------------------------------------------------------------
(* Plan, contract and gate *)

\* plan.json is on disk before the first step: every caller copies the seed
\* plan there, and a later round's plan is written by NextRound.
NeedPlan ==
    /\ Handles("NEED_PLAN")
    /\ Save(files.plan, To(doc.facts, "PLANNED"), status, "status")
    /\ UNCHANGED <<files, lessons, archive, history>>

\* A mistake: a contract that is already there is taken for this round's.
NeedMaterializeOnce ==
    /\ Handles("NEED_MATERIALIZE")
    /\ files' = [files EXCEPT !.contract = IF @ = NoRound THEN files.plan ELSE @]
    /\ Save(doc.round, To(doc.facts, "MATERIALIZED"), status, "status")
    /\ UNCHANGED <<lessons, archive, history>>

NeedMaterialize ==
    /\ Handles("NEED_MATERIALIZE")
    /\ \/ /\ files' = [files EXCEPT !.contract = files.plan]
          /\ Save(doc.round, To(doc.facts, "MATERIALIZED"), status, "status")
       \/ /\ files' = files                       \* MaterializeRejected
          /\ Save(doc.round, To(doc.facts, "BLOCKED"),
                  [status EXCEPT !.rejects = @ + 1], "status")
    /\ UNCHANGED <<lessons, archive, history>>

GateStatus == {"APPROVED", "HUMAN_REQUIRED", "REJECTED", "BLOCKED"}

\* The campaign's one human gate stands for the human a verdict asks for.
NeedGate ==
    /\ Handles("NEED_GATE")
    /\ \E verdict \in GateStatus :
          LET passes == \/ verdict = "APPROVED"
                        \/ verdict = "HUMAN_REQUIRED" /\ confirm
              next == IF passes THEN "APPROVED"
                      ELSE IF verdict = "HUMAN_REQUIRED" THEN "GATED"
                      ELSE "BLOCKED"
          IN  /\ Save(doc.round, To(doc.facts, next), status, "status")
              /\ approved' = IF passes THEN approved \cup {files.contract}
                             ELSE approved
    /\ UNCHANGED <<files, lessons, archive, gpu>>

\* Without the confirmation, and for an ESCALATE, the step changes nothing.
NeedHuman ==
    /\ Handles("NEED_HUMAN")
    /\ confirm /\ doc.facts.rs = "GATED"
    /\ Save(doc.round, To(doc.facts, "APPROVED"), status, "status")
    /\ approved' = approved \cup {files.contract}
    /\ UNCHANGED <<files, lessons, archive, gpu>>

-----------------------------------------------------------------------------
(* Execution *)

\* A mistake: a failed execution is not counted.
FailedUncounted(counters) == counters

Failed(counters) == [counters EXCEPT !.failures = @ + 1]

\* The CUDA doctor says no: nothing runs.
RefuseExecution ==
    /\ Handles("NEED_EXECUTION")
    /\ Save(doc.round, To(doc.facts, "BLOCKED"), status, "status")
    /\ UNCHANGED <<files, lessons, archive, history>>

\* The adapter runs the contract: it raises (and handle.json stays as it
\* was), ends badly, or leaves something to parse.
NeedExecution ==
    /\ Handles("NEED_EXECUTION")
    /\ gpu' = gpu \cup {files.contract}
    /\ \/ /\ files' = files
          /\ Save(doc.round, To(doc.facts, "FAILED"), Failed(status), "status")
       \/ \E s \in ExecStatus, fatal \in BOOLEAN :
            /\ files' = [files EXCEPT
                  !.handle = [round |-> files.contract, status |-> s,
                              fatal |-> fatal]]
            /\ IF s = "failed"
               THEN Save(doc.round, To(doc.facts, "FAILED"), Failed(status),
                         "status")
               ELSE Save(doc.round, To(doc.facts, "RUNNING"), status, "status")
    /\ UNCHANGED <<lessons, archive, approved>>

\* ResultParser maps what it does not know to "failed".
Normalize(s) == IF s \in {"completed", "dry_run"} THEN "success" ELSE "failed"

NeedParse ==
    /\ Handles("NEED_PARSE")
    /\ files' = [files EXCEPT
          !.result = [files.handle EXCEPT !.status = Normalize(@)]]
    /\ IF Normalize(files.handle.status) = "failed"
       THEN Save(doc.round, To(doc.facts, "FAILED"), Failed(status), "record")
       ELSE Save(doc.round, To(doc.facts, "COMPLETED"), status, "record")
    /\ UNCHANGED <<lessons, archive, history>>

\* What next_exception_action says of a failure; without an opinion the
\* Manager retries.
ExceptionAction(result, ev) ==
    IF ev # "NOT_APPLICABLE" \/ result.status # "failed" THEN "RETRY_EXECUTION"
    ELSE IF result.fatal THEN "NEED_HUMAN" ELSE "RETRY_EXECUTION"

RetryExecution ==
    /\ Handles("RETRY_EXECUTION")
    /\ ExceptionAction(files.result, doc.facts.ev) = "RETRY_EXECUTION"
    /\ Save(doc.round, To(doc.facts, "APPROVED"), status, "status")
    /\ UNCHANGED <<files, lessons, archive, history>>

-----------------------------------------------------------------------------
(* Evidence, review and memory *)

\* The validator's verdict: a dry run proves nothing; a real one may also
\* miss artifacts or not be comparable.
Verdicts(handle) ==
    IF handle.status = "dry_run" THEN {"NOT_APPLICABLE"}
    ELSE {"VALID", "INVALID", "INCOMPLETE"}

NeedEvidence ==
    /\ Handles("NEED_EVIDENCE_CHECK")
    /\ \E ev \in Verdicts(files.handle) :
          Save(doc.round, [doc.facts EXCEPT !.ev = ev], status, "status")
    /\ UNCHANGED <<files, lessons, archive, history>>

\* The rubric decides; a DISCARD lengthens the streak, anything else ends it.
\* An LLM reviewer may also have a lesson stored before the run is saved.
NeedReview ==
    /\ Handles("NEED_REVIEW")
    /\ \E rd \in Scientific :
          Save(doc.round, [doc.facts EXCEPT !.rd = rd],
               [status EXCEPT !.discards = IF rd = "DISCARD" THEN @ + 1 ELSE 0],
               "apply")
    /\ files' = [files EXCEPT !.review = files.result.round]
    /\ lessons' \in {lessons, lessons \cup {files.result.round}}
    /\ UNCHANGED <<archive, history>>

\* Only a reviewed run has lessons to store: those review.json holds.
NeedMemory ==
    /\ Handles("NEED_MEMORY")
    /\ lessons' = IF doc.facts.ev = "VALID" /\ doc.facts.rd # "PENDING"
                     /\ files.review # NoRound
                  THEN lessons \cup {files.review} ELSE lessons
    /\ Save(doc.round, To(doc.facts, "MEMORY_WRITTEN"), status, "status")
    /\ UNCHANGED <<files, archive, history>>

-----------------------------------------------------------------------------
(* Git: the experiment commit after the parse, the pointers after the review *)

GitStep(from) ==
    /\ pc = from
    /\ pc' = "status"
    /\ UNCHANGED <<doc, status, files, lessons, archive, mem, confirm, history,
                   crashes>>

\* A git command fails; the Manager notes it and goes on.
GitFails ==
    /\ HasGit /\ gitErrors < MaxGitErrors
    /\ gitErrors' = gitErrors + 1
    /\ UNCHANGED <<git, commits>>

\* The commits a commit made at HEAD builds on.
Lineage(c) == IF c = 0 THEN {} ELSE commits[c].line \cup {c}

\* A mistake: the newest experiment is taken for the best one.
CommitBest(round) ==
    LET new == Len(commits) + 1 IN
    /\ commits' = Append(commits, [round |-> round, line |-> Lineage(git.head)])
    /\ git' = [exp |-> new, best |-> new, head |-> new]

\* record_experiment commits on HEAD and leaves best_sha alone.
CommitExperiment(round) ==
    LET new == Len(commits) + 1 IN
    /\ commits' = Append(commits, [round |-> round, line |-> Lineage(git.head)])
    /\ git' = [git EXCEPT !.exp = new, !.head = new]

RecordExperiment ==
    /\ GitStep("record")
    /\ \/ /\ IF HasGit THEN CommitExperiment(doc.round)
                       ELSE UNCHANGED <<git, commits>>
          /\ UNCHANGED gitErrors
       \/ GitFails

\* KEEP moves best_sha to experiment_sha; DISCARD brings HEAD back to best_sha.
MovePointers(rd) ==
    CASE rd = "KEEP" -> [git EXCEPT !.best = git.exp]
      [] rd = "DISCARD" -> [git EXCEPT !.head = git.best]
      [] OTHER -> git

ApplyReview ==
    /\ GitStep("apply")
    /\ \/ /\ git' = IF HasGit THEN MovePointers(doc.facts.rd) ELSE git
          /\ UNCHANGED <<commits, gitErrors>>
       \/ doc.facts.rd = "DISCARD" /\ GitFails

-----------------------------------------------------------------------------
(* The next round *)

CanPlan == lessons # {}

\* The old round is archived and the new plan written over plan.json; the
\* other outcomes of the handler (no round left, planner refuses) change
\* nothing, and a stop rule the next round would hit halts.
NextRound ==
    /\ Handles("NEXT_ROUND")
    /\ status.extra < MaxExtra
    /\ ~StopRule(status, doc.round + 1)
    /\ CanPlan
    /\ archive' = [r \in DOMAIN archive \cup {doc.round} |->
                      IF r = doc.round THEN doc.facts ELSE archive[r]]
    /\ files' = [files EXCEPT !.plan = @ + 1]
    /\ pc' = "init"
    /\ UNCHANGED <<doc, status, lessons, git, commits, mem, confirm, history,
                   faults>>

NextRoundHalts ==
    /\ Handles("NEXT_ROUND")
    /\ status.extra < MaxExtra
    /\ StopRule(status, doc.round + 1)
    /\ Save(doc.round, HaltFacts(doc.facts), status, "status")
    /\ UNCHANGED <<files, lessons, archive, history>>

\* A mistake: the round that follows is not counted.
InitializeRunUncounted ==
    /\ pc = "init"
    /\ doc' = [round |-> files.plan, facts |-> InitialFacts]
    /\ mem' = [doc |-> [round |-> files.plan,
                        facts |-> To(InitialFacts, "PLANNED")],
               status |-> status, then |-> "status"]
    /\ pc' = "save"
    /\ UNCHANGED <<status, files, lessons, archive, git, commits, confirm,
                   history, faults>>

\* initialize_run writes a CREATED document; it is saved again as PLANNED.
InitializeRun ==
    /\ pc = "init"
    /\ doc' = [round |-> files.plan, facts |-> InitialFacts]
    /\ mem' = [doc |-> [round |-> files.plan,
                        facts |-> To(InitialFacts, "PLANNED")],
               status |-> [status EXCEPT !.extra = @ + 1], then |-> "status"]
    /\ pc' = "save"
    /\ UNCHANGED <<status, files, lessons, archive, git, commits, confirm,
                   history, faults>>

-----------------------------------------------------------------------------
\* A caller builds another Manager on the same directory between two steps.
Reopen ==
    /\ pc = "idle"
    /\ confirm' = ~confirm
    /\ UNCHANGED <<disk, pc, mem, history, faults>>

\* The process dies inside a step; what it had not written is lost.
Crash ==
    /\ pc # "idle" /\ crashes < MaxCrashes
    /\ crashes' = crashes + 1
    /\ pc' = "idle"
    /\ mem' = Rest(doc, status)
    /\ UNCHANGED <<disk, confirm, history, gitErrors>>

Step ==
    \/ SaveRun \/ SaveStatus \/ Halt
    \/ NeedPlan \/ NeedMaterialize \/ NeedGate \/ NeedHuman
    \/ RefuseExecution \/ NeedExecution \/ NeedParse \/ RetryExecution
    \/ NeedEvidence \/ NeedReview \/ NeedMemory
    \/ RecordExperiment \/ ApplyReview
    \/ NextRound \/ NextRoundHalts \/ InitializeRun

Next == Step \/ Reopen \/ Crash

Spec == Init /\ [][Next]_vars

\* The callers (run_until, the campaign worker, a human who resumes it) keep
\* calling step, and a step that began is finished.
FairSpec == Spec /\ WF_vars(Step)

-----------------------------------------------------------------------------
(* Properties *)

\* Types of the files and of the step's copies.
TypeOK ==
    /\ doc \in Document /\ status \in Counters
    /\ files \in Files
    /\ lessons \subseteq Tag
    /\ DOMAIN archive \subseteq Nat
    /\ \A r \in DOMAIN archive : archive[r] \in RunFacts
    /\ commits \in Seq([round: Nat, line: SUBSET Nat])
    /\ LET Known == 0..Len(commits) IN
          git \in [exp: Known, best: Known, head: Known]
    /\ pc \in {"idle", "save", "record", "apply", "status", "init"}
    /\ mem \in [doc: Document, status: Counters,
               then: {"record", "apply", "status"}]
    /\ confirm \in BOOLEAN
    /\ crashes \in Nat /\ gitErrors \in Nat

\* Whenever the process dies, the run document on disk satisfies the rules
\* transition() checks: no decision without VALID evidence, no VALID evidence
\* of a FAILED run, nothing judged before it ran.  (state_machine.py 143-182;
\* documents are loaded without this check.)
FactsConsistent == Consistent(doc.facts)

\* The files a state is read from are this round's, although NextRound leaves
\* the old round's contract, handle, result and review where they were.
FilesOfThisRound ==
    LET f == doc.facts IN
    /\ f.rs \in {"MATERIALIZED", "GATED", "APPROVED", "RUNNING", "FAILED",
                 "COMPLETED"} => files.contract = doc.round
    /\ f.rs \in {"RUNNING", "COMPLETED"} => files.handle.round = doc.round
    /\ f.rs = "COMPLETED" => files.result.round = doc.round
    /\ f.rd # "PENDING" => files.review = doc.round

\* What a step of the manager starts from can be relied on: facts that agree
\* with each other, and files of the round they speak of.
DocumentsSound == FactsConsistent /\ FilesOfThisRound

\* No contract is executed before it passed the gate, and none of a round at
\* or beyond max_rounds, however the counters and the document were lost or
\* repeated by crashes.  (Manager: "Gate not APPROVED never reaches this path")
ExecutedInBounds ==
    /\ gpu \subseteq approved
    /\ MaxRounds # NoLimit => \A r \in gpu : r < MaxRounds

\* A reviewed round that has a successor has its lessons in memory: the next
\* plan can cite them, and a repeated memory step changes nothing.
SuccessorRemembers ==
    \A r \in DOMAIN archive : archive[r].rd # "PENDING" => r \in lessons

\* At most max_extra_rounds rounds follow the first, plus one for each crash
\* that loses the counter after the new run was written.
RoundsWithinBudget == Cardinality(DOMAIN archive) <= MaxExtra + crashes

\* No round is lost and none is one too many: what is executed passed the gate
\* in a round that may run, the lesson of each round is written before the next
\* starts, and their number stays in the budget.
RoundsAccounted == ExecutedInBounds /\ SuccessorRemembers /\ RoundsWithinBudget

\* What the freeze promises of the run document (RunLifecycle).
Lifecycle == INSTANCE RunLifecycle WITH round <- doc.round, facts <- doc.facts
ImplementsLifecycle == Lifecycle!Spec

\* The decision taken on a round: in the run document or in its archive.
DecisionOn(r) ==
    IF r = doc.round THEN doc.facts.rd
    ELSE IF r \in DOMAIN archive THEN archive[r].rd ELSE "PENDING"

\* best_sha is the initial commit or the experiment of a round that was kept,
\* and builds on no discarded round. ("KEEP updates best_sha. DISCARD restores
\* the worktree to best_sha.")
BestWasKept ==
    git.best # 0 =>
       /\ DecisionOn(commits[git.best].round) = "KEEP"
       /\ \A c \in commits[git.best].line :
             DecisionOn(commits[c].round) # "DISCARD"

\* So it is as long as no process dies and no git command fails.
BestUnlessFaulty == crashes = 0 /\ gitErrors = 0 => BestWasKept

\* With callers that keep stepping, a run comes to rest: stopped, waiting for
\* a human, or with no round left to start.
AtRest ==
    /\ pc = "idle"
    /\ \/ doc.facts.rs \in {"STOPPED", "GATED"}
       \/ /\ doc.facts.rs = "MEMORY_WRITTEN"
          /\ status.extra >= MaxExtra \/ ~CanPlan
RunsRest == <>[]AtRest

-----------------------------------------------------------------------------
(* The inductive invariant *)

\* Nothing is judged before it ran, and nothing decided without evidence:
\* what the handlers keep, and stronger than what transition() checks.
Judged(f) ==
    /\ f.rs \notin {"COMPLETED", "MEMORY_WRITTEN", "STOPPED"} =>
          f.ev = "PENDING" /\ f.rd = "PENDING"
    /\ f.rd \in Scientific \cup {"PENDING"}
    /\ f.rd # "PENDING" => f.ev = "VALID"

\* Facts g follow from f by at most two legal transitions.
Reach(f, g) ==
    \E s \in RunStates : Legal(f, To(f, s)) /\ Legal(To(f, s), g)

\* The files hold what a run document d needs of them.
Fits(d) ==
    LET rs == d.facts.rs IN
    /\ Judged(d.facts)
    /\ files.plan >= d.round
    /\ rs \notin {"MEMORY_WRITTEN", "STOPPED"} => files.plan = d.round
    /\ rs \in {"MATERIALIZED", "GATED", "APPROVED", "RUNNING", "FAILED",
               "COMPLETED", "CONTRACTED"} => files.contract = d.round
    /\ rs \in {"RUNNING", "COMPLETED"} => files.handle.round = d.round
    /\ rs = "COMPLETED" => files.result.round = d.round
    /\ d.facts.rd # "PENDING" => files.review = d.round
    /\ rs \in {"APPROVED", "CONTRACTED", "RUNNING", "FAILED"} =>
          d.round \in approved
    /\ rs = "MEMORY_WRITTEN" /\ d.facts.rd # "PENDING" => d.round \in lessons

\* The document on disk fits, and so does the one about to replace it.
DocsFit ==
    /\ Fits(doc)
    /\ pc = "save" => /\ Fits(mem.doc)
                      /\ mem.doc.round = doc.round
                      /\ Reach(doc.facts, mem.doc.facts)
    /\ pc = "init" => /\ NextAction(doc.facts) = "NEXT_ROUND"
                      /\ files.plan > doc.round

\* Rounds started, with those whose count a crash may still lose.
Started ==
    CASE pc = "init" -> status.extra + 1
      [] pc = "idle" -> status.extra
      [] OTHER -> mem.status.extra

BudgetKept ==
    /\ IsFiniteSet(DOMAIN archive)
    /\ Cardinality(DOMAIN archive) <= Started + crashes
    /\ Started <= MaxExtra
    /\ status.extra <= Started /\ Started <= status.extra + 1
=============================================================================
