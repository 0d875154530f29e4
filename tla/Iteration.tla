------------------------------ MODULE Iteration ------------------------------
(***************************************************************************)
(* iteration/service.py: one iteration of the optimisation loop, from a    *)
(* proposal over its approval and its seed runs to a decision.             *)
(*                                                                         *)
(* Every request reads the whole session row, works on its copy, and       *)
(* writes the whole copy back, several times in the longer ones, without   *)
(* a lock or a version: requests on one iteration overlap freely.  A crash *)
(* of the process loses the requests; the rows and the runs stay.          *)
(***************************************************************************)
EXTENDS Naturals, FiniteSets, Sequences

CONSTANTS Iter,
          Requester,      \* request threads
          Seeds,       \* seeds of an iteration
          MinSeeds,    \* minimum_successful_seeds
          MaxRuns,     \* bound on seed runs
          MaxDecisions, \* bound on decisions of one iteration
          MaxRewrites,  \* bound on rows of ended runs written again
          MaxDeaths   \* bound on crashes of the process

ASSUME IterationBounds ==
  /\ Seeds \in Nat \ {0} /\ MinSeeds \in 1..Seeds
  /\ MaxRuns \in Nat /\ MaxDecisions \in Nat
  /\ MaxRewrites \in Nat /\ MaxDeaths \in Nat
ASSUME IterExists == Iter # {}

VARIABLES session,    \* iteration_sessions
          approvals,  \* iterations with an approval record
          decisions,  \* decisions recorded for an iteration
          runs,       \* the executions of seeds, in the order of their submission
          shown,      \* runs whose row has ever said completed
          rewrites,   \* bounded by MaxRewrites
          request,    \* what each caller is doing
          disturbed,  \* iterations two calls overlapped on, or a call broke off
          deaths     \* bounded by MaxDeaths

runVars == <<runs, shown, rewrites>>
iterVars == <<session, approvals, decisions, runVars, request, disturbed, deaths>>

-----------------------------------------------------------------------------
(* models.py: IterationStatus; workflow.py: the statuses nothing leaves *)
Status == {"absent", "created", "feedback_ready", "proposal_ready",
           "waiting_approval", "approved", "running", "comparing",
           "waiting_decision", "completed", "rejected", "failed",
           "cancelled", "stopped_no_recommendation"}

Closed == {"completed", "rejected", "failed", "stopped_no_recommendation"}

(* execution attempts: what advance takes for the end of one leaves out the *)
(* attempts that recovery has interrupted; it does not tell a run that was  *)
(* cancelled or timed out from one that failed.                             *)
Ended == {"completed", "failed"}
RunStatus == {"active", "interrupted"} \cup Ended

Run == 1..MaxRuns
Session == [status: Status, ids: SUBSET Run, decided: BOOLEAN]
NoSession == [status |-> "absent", ids |-> {}, decided |-> FALSE]

RequestLabel == {"idle", "feedback", "propose", "plan", "approve", "start", "seed",
                 "wait", "ids", "reject", "record", "poll", "finish", "compare",
                 "decide", "complete"}

(* copy: the session the call holds; batch: the runs it has submitted or    *)
(* polled; good: those it found completed.                                  *)
Request == [at: RequestLabel, of: Iter, copy: Session, batch: SUBSET Run,
            good: SUBSET Run, sync: BOOLEAN]
NoRequest == [at |-> "idle", of |-> CHOOSE i \in Iter : TRUE, copy |-> NoSession,
              batch |-> {}, good |-> {}, sync |-> FALSE]

Submitted == DOMAIN runs
RunsOf(i) == {x \in Submitted : runs[x].of = i}

IterTypeOK ==
  /\ session \in [Iter -> Session]
  /\ approvals \subseteq Iter
  /\ decisions \in [Iter -> 0..MaxDecisions]
  /\ \E n \in 0..MaxRuns : runs \in [1..n -> [of: Iter, status: RunStatus]]
  /\ shown \subseteq Submitted /\ rewrites \in 0..MaxRewrites
  /\ request \in [Requester -> Request]
  /\ disturbed \subseteq Iter
  /\ deaths \in 0..MaxDeaths

IterInit ==
  /\ session = [i \in Iter |-> NoSession]
  /\ approvals = {}
  /\ decisions = [i \in Iter |-> 0]
  /\ runs = << >> /\ shown = {} /\ rewrites = 0
  /\ request = [c \in Requester |-> NoRequest]
  /\ disturbed = {} /\ deaths = 0

-----------------------------------------------------------------------------
At(c, l) == request[c].at = l
Of(c) == request[c].of
Reply(c) == request' = [request EXCEPT ![c] = NoRequest]
Step(c, from, to) == At(c, from) /\ request' = [request EXCEPT ![c].at = to]

(* transition on the copy, then save_session. *)
SaveAs(c, s, r, to) ==
  /\ session' = [session EXCEPT ![Of(c)] = [r EXCEPT !.status = s]]
  /\ request' = IF to = "idle" THEN [request EXCEPT ![c] = NoRequest]
                ELSE [request EXCEPT ![c].at = to, ![c].copy = [r EXCEPT !.status = s]]
Save(c, s, to) == SaveAs(c, s, request[c].copy, to)

(* A call that raises after it has begun to change things. *)
Broken(i) == disturbed' = disturbed \cup {i}

(* A call begins by reading the row, maybe while others hold copies of it. *)
Overlapping(c, i) == \E b \in Requester \ {c} : ~At(b, "idle") /\ Of(b) = i
EnterWith(c, i, l, sync) ==
  /\ At(c, "idle")
  /\ request' = [request EXCEPT ![c] =
                [NoRequest EXCEPT !.at = l, !.of = i, !.copy = session[i], !.sync = sync]]
  /\ disturbed' = IF Overlapping(c, i) THEN disturbed \cup {i} ELSE disturbed
  /\ UNCHANGED <<session, approvals, decisions, runVars, deaths>>
Enter(c, i, l) == EnterWith(c, i, l, FALSE)

-----------------------------------------------------------------------------
(* start, start_from_plan *)

(* A session of a new id; the feedback is still to come, or, from a plan,   *)
(* the contract is there already.                                           *)
Start(c, i) ==
  /\ At(c, "idle") /\ session[i] = NoSession
  /\ LET s == [NoSession EXCEPT !.status = "created"] IN
       /\ session' = [session EXCEPT ![i] = s]
       /\ \E l \in {"feedback", "plan"} :
            request' = [request EXCEPT ![c] = [NoRequest EXCEPT !.at = l, !.of = i, !.copy = s]]
  /\ UNCHANGED <<approvals, decisions, runVars, disturbed, deaths>>

AnalyzeFeedback(c) ==
  /\ At(c, "feedback")
  /\ Save(c, "feedback_ready", "propose") \/ Save(c, "failed", "idle")
  /\ UNCHANGED <<approvals, decisions, runVars, disturbed, deaths>>

(* propose_next: a contract, no recommendation, or an exception. *)
Propose(c) ==
  /\ At(c, "propose")
  /\ \E s \in {"waiting_approval", "stopped_no_recommendation", "failed"} :
       Save(c, s, "idle")
  /\ UNCHANGED <<approvals, decisions, runVars, disturbed, deaths>>

ProposeFromPlan(c) ==
  /\ At(c, "plan") /\ Save(c, "waiting_approval", "idle")
  /\ UNCHANGED <<approvals, decisions, runVars, disturbed, deaths>>

-----------------------------------------------------------------------------
(* approve_and_run; reject *)

Approve(c, i) == /\ session[i].status = "waiting_approval"
                 /\ \E sync \in BOOLEAN : EnterWith(c, i, "approve", sync)

SaveApproval(c) ==
  /\ Step(c, "approve", "start")
  /\ approvals' = approvals \cup {Of(c)}
  /\ UNCHANGED <<session, decisions, runVars, disturbed, deaths>>

SaveRunning(c) ==
  /\ At(c, "start") /\ Save(c, "running", "seed")
  /\ UNCHANGED <<approvals, decisions, runVars, disturbed, deaths>>

(* run_seeds: one run after the other; each may be refused, which fails the *)
(* session and forgets the runs submitted before.                           *)
SubmitSeed(c) ==
  LET n == Len(runs) + 1 IN
  /\ At(c, "seed") /\ Cardinality(request[c].batch) < Seeds
  /\ \/ /\ n \in Run
        /\ runs' = Append(runs, [of |-> Of(c), status |-> "active"])
        /\ request' = [request EXCEPT ![c].batch = @ \cup {n},
                                      ![c].at = IF request[c].sync THEN "wait" ELSE "seed"]
        /\ UNCHANGED <<session, disturbed>>
     \/ /\ Save(c, "failed", "idle")
        /\ IF request[c].batch = {} THEN UNCHANGED disturbed ELSE Broken(Of(c))
        /\ UNCHANGED runs
  /\ UNCHANGED <<approvals, decisions, shown, rewrites, deaths>>

Completed(X) == {x \in X : runs[x].status = "completed"}

(* run_contract waits for the run, and reports what it finds, or raises. *)
WaitForSeed(c) ==
  /\ At(c, "wait")
  /\ LET n == CHOOSE x \in request[c].batch : \A y \in request[c].batch : y <= x IN
       /\ runs[n].status # "active"
       /\ \/ /\ request' = [request EXCEPT ![c].at = "seed",
                                           ![c].good = @ \cup Completed({n})]
             /\ UNCHANGED <<session, disturbed>>
          \/ /\ Save(c, "failed", "idle")
             /\ Broken(Of(c))
  /\ UNCHANGED <<approvals, decisions, runVars, deaths>>

AllSubmitted(c) ==
  /\ Step(c, "seed", "ids") /\ Cardinality(request[c].batch) = Seeds
  /\ UNCHANGED <<session, approvals, decisions, runVars, disturbed, deaths>>

(* A mistake: the ids are kept for the next save. *)
KeepExecutionIds(c) ==
  LET r == [request[c].copy EXCEPT !.ids = request[c].batch] IN
  /\ At(c, "ids")
  /\ IF request[c].sync
       THEN request' = [request EXCEPT ![c].at = "finish", ![c].copy = r]
       ELSE Reply(c)
  /\ UNCHANGED <<session, approvals, decisions, runVars, disturbed, deaths>>

SaveExecutionIds(c) ==
  LET r == [request[c].copy EXCEPT !.ids = request[c].batch] IN
  /\ At(c, "ids")
  /\ session' = [session EXCEPT ![Of(c)] = r]
  /\ IF request[c].sync
       THEN request' = [request EXCEPT ![c].at = "finish", ![c].copy = r]
       ELSE Reply(c)
  /\ UNCHANGED <<approvals, decisions, runVars, disturbed, deaths>>

Reject(c, i) == session[i].status = "waiting_approval" /\ Enter(c, i, "reject")

SaveRejected(c) ==
  /\ At(c, "reject") /\ Save(c, "rejected", "idle")
  /\ UNCHANGED <<approvals, decisions, runVars, disturbed, deaths>>

-----------------------------------------------------------------------------
(* advance_iteration; get_status(refresh=True) is the same *)

AdvanceIteration(c, i) == session[i].status = "running" /\ Enter(c, i, "poll")

(* A mistake: a run that has failed is waited for. *)
TakenIfCompleted(x) == runs[x].status = "completed"

TakenAsEnded(x) == runs[x].status \in Ended

(* Nothing was submitted, as far as the session knows. *)
NothingToPoll(c) ==
  /\ At(c, "poll") /\ request[c].copy.ids = {}
  /\ Save(c, "failed", "idle")
  /\ UNCHANGED <<approvals, decisions, runVars, disturbed, deaths>>

(* The runs are refreshed one by one: what was found of the first may be    *)
(* old when the last is looked at.  After one that goes on the rest of the  *)
(* call changes nothing here.                                               *)
PollRun(c, x) ==
  LET left == request[c].copy.ids \ request[c].batch IN
  /\ At(c, "poll") /\ x \in left /\ \A y \in left : x <= y
  /\ IF TakenAsEnded(x)
       THEN request' = [request EXCEPT ![c].at = IF left = {x} THEN "finish" ELSE "poll",
                                       ![c].batch = @ \cup {x},
                                       ![c].good = @ \cup Completed({x})]
       ELSE Reply(c)
  /\ UNCHANGED <<session, approvals, decisions, runVars, disturbed, deaths>>

(* A refresh of a run raises, and the call with it. *)
PollFails(c) ==
  /\ At(c, "poll") /\ request[c].copy.ids # {} /\ Reply(c)
  /\ UNCHANGED <<session, approvals, decisions, runVars, disturbed, deaths>>

(* A mistake: every run that was submitted counts. *)
EnoughSeedsSubmitted(c) == Cardinality(request[c].batch) >= MinSeeds

EnoughSeeds(c) == Cardinality(request[c].good) >= MinSeeds

(* _finish_seed_phase *)
FinishSeedPhase(c) ==
  LET r == [request[c].copy EXCEPT !.ids = request[c].batch] IN
  /\ At(c, "finish")
  /\ \/ /\ ~EnoughSeeds(c)
        /\ SaveAs(c, "failed", r, "idle")
     \/ /\ EnoughSeeds(c)
        /\ SaveAs(c, "comparing", r, "compare")
  /\ UNCHANGED <<approvals, decisions, runVars, disturbed, deaths>>

(* analyze_feedback against both sources; an exception fails the session. *)
Compare(c) ==
  /\ At(c, "compare")
  /\ Save(c, "waiting_decision", "idle") \/ Save(c, "failed", "idle")
  /\ UNCHANGED <<approvals, decisions, runVars, disturbed, deaths>>

-----------------------------------------------------------------------------
(* finalize *)

Finalize(c, i) == session[i].status = "waiting_decision" /\ Enter(c, i, "decide")

(* record_decision may refuse, else there is a decision, *)
RecordDecision(c) ==
  /\ \/ /\ At(c, "decide") /\ Reply(c)
        /\ UNCHANGED decisions
     \/ /\ Step(c, "decide", "complete")
        /\ decisions[Of(c)] < MaxDecisions
        /\ decisions' = [decisions EXCEPT ![Of(c)] = @ + 1]
  /\ UNCHANGED <<session, approvals, runVars, disturbed, deaths>>

(* and then the session says so. *)
SaveCompleted(c) ==
  /\ At(c, "complete")
  /\ SaveAs(c, "completed", [request[c].copy EXCEPT !.decided = TRUE], "idle")
  /\ UNCHANGED <<approvals, decisions, runVars, disturbed, deaths>>

-----------------------------------------------------------------------------
(* Executions end by themselves; recovery interrupts some that were active, *)
(* after a crash or when their worker cannot be reached.                    *)
SetRun(x, s) ==
  /\ runs' = [runs EXCEPT ![x].status = s]
  /\ shown' = IF s = "completed" THEN shown \cup {x} ELSE shown
  /\ UNCHANGED <<session, approvals, decisions, request, disturbed, deaths>>

EndRun(x) ==
  /\ x \in Submitted /\ runs[x].status = "active"
  /\ \E s \in Ended \cup {"interrupted"} : SetRun(x, s)
  /\ UNCHANGED rewrites

(* Until an execution settles, the row of one that has ended may be written *)
(* again, by a refresh that asked its runner before or asks another.        *)
Rewrite(x) ==
  /\ x \in Submitted /\ runs[x].status # "active"
  /\ rewrites < MaxRewrites /\ rewrites' = rewrites + 1
  /\ \E s \in RunStatus \ {runs[x].status} : SetRun(x, s)

(* The process dies: what a call had submitted or recorded stays. *)
ProcessDies ==
  /\ deaths < MaxDeaths /\ deaths' = deaths + 1
  /\ disturbed' = disturbed \cup {Of(c) : c \in {d \in Requester : ~At(d, "idle")}}
  /\ request' = [c \in Requester |-> NoRequest]
  /\ UNCHANGED <<session, approvals, decisions, runVars>>

CallStep(c) ==
  \/ AnalyzeFeedback(c) \/ Propose(c) \/ ProposeFromPlan(c)
  \/ SaveApproval(c) \/ SaveRunning(c) \/ SubmitSeed(c) \/ WaitForSeed(c)
  \/ AllSubmitted(c) \/ SaveExecutionIds(c) \/ SaveRejected(c)
  \/ NothingToPoll(c) \/ (\E x \in Run : PollRun(c, x))
  \/ FinishSeedPhase(c) \/ Compare(c)
  \/ RecordDecision(c) \/ SaveCompleted(c)

CallBegin(c, i) == \/ Start(c, i) \/ Approve(c, i) \/ Reject(c, i)
                   \/ AdvanceIteration(c, i) \/ Finalize(c, i)

IterNext ==
  \/ \E c \in Requester : CallStep(c) \/ PollFails(c)
  \/ \E c \in Requester, i \in Iter : CallBegin(c, i)
  \/ \E x \in Run : EndRun(x) \/ Rewrite(x)
  \/ ProcessDies

IterSpec == IterInit /\ [][IterNext]_iterVars

(* Calls are scheduled, runs end, and somebody polls every running session,  *)
(* of whose refreshes of a run not all fail.                                 *)
Fairness ==
  /\ \A c \in Requester : WF_iterVars(CallStep(c))
  /\ \A x \in Run : WF_iterVars(EndRun(x))
  /\ \A i \in Iter : /\ SF_iterVars(\E c \in Requester : AdvanceIteration(c, i))
                     /\ \A x \in Run :
                          SF_iterVars(\E c \in Requester : Of(c) = i /\ PollRun(c, x))

IterFairSpec == IterSpec /\ Fairness

-----------------------------------------------------------------------------
(* However the calls on it race, a session asks for a decision, or has one,  *)
(* only with enough runs of its own that were seen completed, all of them    *)
(* approved.                                                                 *)
DecidedOnEvidence ==
  \A i \in Iter :
    /\ session[i].status \in {"waiting_decision", "completed"} \/ decisions[i] > 0 =>
         Cardinality(RunsOf(i) \cap shown) >= MinSeeds
    /\ session[i].status \in {"waiting_decision", "completed"} =>
         Cardinality(session[i].ids \cap shown) >= MinSeeds
    /\ RunsOf(i) # {} => i \in approvals

(* So it is in every well-formed session, decisions and their number         *)
(* included.                                                                 *)
DecisionsSound == IterTypeOK /\ DecidedOnEvidence

(* If no two calls overlapped and none broke off, the runs of an iteration   *)
(* are one batch that its session names, or the call that submits them will. *)
NoRunForgotten ==
  \A i \in Iter \ disturbed :
    \/ RunsOf(i) = session[i].ids
    \/ \E c \in Requester : Of(c) = i /\ request[c].at \in {"seed", "wait", "ids"}
                              /\ RunsOf(i) = request[c].batch

(* Without overlaps and crashes a closed session is never opened again, its  *)
(* runs and its decision stay, and there is at most one decision.            *)
ClosedStaysClosed ==
  [][\A i \in Iter :
       session[i].status \in Closed /\ i \notin disturbed' =>
         session'[i] = session[i] /\ decisions'[i] = decisions[i]]_iterVars

(* Under polling no iteration hangs: it stays running only with a run that   *)
(* recovery has interrupted, which advance never takes for ended, and        *)
(* between two statuses only after a crash, since no call resumes there.     *)
IterationsProgress ==
  \A i \in Iter :
    <>[](/\ session[i].status = "running" =>
              \E x \in session[i].ids : runs[x].status = "interrupted"
         /\ session[i].status \in {"created", "feedback_ready", "comparing"} =>
              deaths > 0)

(* An iteration concludes, once: it gets on under polling, and where it is   *)
(* closed no later call starts it again or decides a second time.            *)
Concludes == IterationsProgress /\ ClosedStaysClosed
=============================================================================
