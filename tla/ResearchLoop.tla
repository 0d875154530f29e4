---------------------------- MODULE ResearchLoop ----------------------------
(***************************************************************************)
(* research_loop/service.py: a research session of two rounds.  In the     *)
(* first a language model plans, a critic reviews, a human approves one    *)
(* candidate, the experiment runs and its feedback is recorded; the second *)
(* plans with that feedback and is reviewed.                               *)
(*                                                                         *)
(* The session is a row and so is each round.  A request reads the session *)
(* when it begins and writes that copy back when it ends, with the answer  *)
(* of a model or a whole experiment in between; rounds it reads again, or  *)
(* not.  Nothing keeps requests on one session apart.                      *)
(***************************************************************************)
EXTENDS Naturals, FiniteSets

CONSTANTS Requester,       \* request threads
          MaxPlans,        \* bound on plans
          MaxIter,         \* bound on iterations
          MaxDisturbances  \* bound on overlapping requests and crashes together

ASSUME LoopBounds == MaxPlans \in Nat /\ MaxIter \in Nat /\ MaxDisturbances \in Nat

VARIABLES session,     \* real_research_loop_sessions: its status and current round
          rounds,      \* real_research_loop_rounds
          planned,     \* number of plans made
          iterations,  \* the iterations made of approved candidates
          ran,         \* iterations this service has run
          request,     \* what each request thread is doing
          overlaps,    \* requests that began while another went on
          deaths       \* deaths of the process in the middle of a request

loopVars == <<session, rounds, planned, iterations, ran, request, overlaps, deaths>>

-----------------------------------------------------------------------------
(* models.py: REAL_LOOP_STATUSES; nothing sets "cancelled". *)
Failure == {"provider_failed", "planner_failed", "critic_failed",
            "candidate_rejected", "execution_failed", "feedback_incomplete",
            "quality_gate_blocked"}
Closed == Failure \cup {"completed"}
LoopStatus == {"absent", "created", "baseline_ready", "round_1_planning",
               "round_1_reviewing", "round_1_waiting_approval", "round_1_executing",
               "round_1_feedback_ready", "round_2_planning", "round_2_reviewing"}
              \cup Closed

Session == [status: LoopStatus, round: 0..2]
NoSession == [status |-> "absent", round |-> 0]

(* A round's own status is left out: it is written and shown, never read.   *)
(* there: the row exists; plan: the plan of the round; approved: the plan   *)
(* whose candidate was approved; iter: its iteration; fed: a feedback       *)
(* summary is recorded.                                                     *)
Round == [there: BOOLEAN, plan: 0..MaxPlans, approved: 0..MaxPlans,
          iter: 0..MaxIter, fed: BOOLEAN]
NoRound == [there |-> FALSE, plan |-> 0, approved |-> 0, iter |-> 0, fed |-> FALSE]

IterStatus == {"absent", "waiting_approval", "running", "completed", "failed"}

RequestLabel == {"idle", "rounds", "evidence", "feedback", "fed", "context",
                 "planner", "planned", "critic", "reviewed", "iteration", "approved", "save",
                 "rejected", "execute", "approve_and_run", "ran", "ran_session", "fail"}

(* s, r: the copies the request holds; n: the round it is about; why: the   *)
(* status it is going to fail with.                                         *)
Held == [at: RequestLabel, s: Session, r: Round, n: 1..2, why: Failure \cup {"none"},
         wait: BOOLEAN]
NoRequest == [at |-> "idle", s |-> NoSession, r |-> NoRound, n |-> 1, why |-> "none",
              wait |-> FALSE]

LoopInit ==
  /\ session = NoSession
  /\ rounds = [n \in 1..2 |-> NoRound]
  /\ planned = 0
  /\ iterations = [k \in 1..MaxIter |-> "absent"]
  /\ ran = {}
  /\ request = [c \in Requester |-> NoRequest]
  /\ overlaps = 0 /\ deaths = 0

-----------------------------------------------------------------------------
At(c, l) == request[c].at = l
Copy(c) == request[c].s
N(c) == request[c].n
Reply(c) == request' = [request EXCEPT ![c] = NoRequest]
GoOn(c, l) == request' = [request EXCEPT ![c].at = l]
FailWith(c, why) == request' = [request EXCEPT ![c].at = "fail", ![c].why = why]

Busy == \E c \in Requester : ~At(c, "idle")
Mishap == overlaps + deaths < MaxDisturbances

(* _require: a request reads the session. *)
Enter(c) ==
  /\ At(c, "idle") /\ session # NoSession
  /\ IF Busy THEN Mishap /\ overlaps' = overlaps + 1 ELSE UNCHANGED overlaps
  /\ UNCHANGED deaths
BeginWith(c, l, s, n) ==
  /\ Enter(c)
  /\ request' = [request EXCEPT ![c] = [NoRequest EXCEPT !.at = l, !.s = s, !.n = n]]

(* state_machine.py: transition, on the copy, where it may be made.         *)
To(s, from, to) == IF s.status = from THEN [s EXCEPT !.status = to] ELSE s

RoundExists(n) == rounds[n].there
WriteRound(n, r) == rounds' = [rounds EXCEPT ![n] = r]

-----------------------------------------------------------------------------
(* create, mark_baseline_ready *)

Create(c) ==
  /\ At(c, "idle") /\ session = NoSession /\ ~Busy
  /\ session' = [NoSession EXCEPT !.status = "created"]
  /\ request' = [request EXCEPT ![c] = [NoRequest EXCEPT !.at = "rounds"]]
  /\ UNCHANGED <<rounds, planned, iterations, ran, overlaps, deaths>>

(* The shells of the rounds, one after the other. *)
CreateRound(c) ==
  /\ At(c, "rounds")
  /\ LET n == IF RoundExists(1) THEN 2 ELSE 1 IN
       /\ WriteRound(n, [NoRound EXCEPT !.there = TRUE])
       /\ IF n = 2 THEN Reply(c) ELSE UNCHANGED request
  /\ UNCHANGED <<session, planned, iterations, ran, overlaps, deaths>>

MarkBaselineReady(c) ==
  /\ Enter(c) /\ session.status = "created"
  /\ session' = [session EXCEPT !.status = "baseline_ready"]
  /\ UNCHANGED <<rounds, planned, iterations, ran, request>>

-----------------------------------------------------------------------------
(* A mistake: an ended session fails once more. *)
FailAgain(c) ==
  /\ At(c, "fail")
  /\ session' = [Copy(c) EXCEPT !.status = request[c].why]
  /\ Reply(c)
  /\ UNCHANGED <<rounds, planned, iterations, ran, overlaps, deaths>>

(* _fail_round: the session fails unless its copy has ended, whatever the   *)
(* state it is in.                                                          *)

Fail(c) ==
  /\ At(c, "fail")
  /\ session' = IF Copy(c).status \in Closed THEN Copy(c)
                ELSE [Copy(c) EXCEPT !.status = request[c].why]
  /\ Reply(c)
  /\ UNCHANGED <<rounds, planned, iterations, ran, overlaps, deaths>>

-----------------------------------------------------------------------------
(* plan_round.  It may be asked of any round in any state; only from the    *)
(* state before it does it take the session to planning.                    *)

StartPlanning(s, n) == IF n = 1 THEN To(s, "baseline_ready", "round_1_planning")
                       ELSE To(s, "round_1_feedback_ready", "round_2_planning")

PlanRound(c, n) ==
  LET s == StartPlanning(session, n) IN
  \/ /\ BeginWith(c, "context", s, n)
     /\ session' = s
     /\ UNCHANGED <<rounds, planned, iterations, ran>>
  \/ /\ Enter(c)   \* a provider that is not a real one
     /\ request' = [request EXCEPT ![c] = [NoRequest EXCEPT !.at = "fail", !.s = session,
                                       !.n = n, !.why = "provider_failed"]]
     /\ UNCHANGED <<session, rounds, planned, iterations, ran>>

(* build_planning_context_for_round: the second round is only planned with  *)
(* the feedback of the first.                                               *)
FeedbackGate(n) == RoundExists(n) /\ (n = 2 => rounds[1].fed)

PlanContext(c) ==
  /\ At(c, "context")
  /\ \/ FailWith(c, "quality_gate_blocked")
     \/ FeedbackGate(N(c)) /\ GoOn(c, "planner")
     \/ ~FeedbackGate(N(c)) /\ FailWith(c, "feedback_incomplete")
  /\ UNCHANGED <<session, rounds, planned, iterations, ran, overlaps, deaths>>

(* The planner answers, or not; the plan goes into the round's row as it is *)
(* by then, and leaves an approval and an iteration of an older plan there. *)
Planner(c) ==
  /\ At(c, "planner")
  /\ \/ /\ \E why \in {"quality_gate_blocked", "provider_failed", "planner_failed"} :
             FailWith(c, why)
        /\ UNCHANGED <<rounds, planned>>
     \/ /\ planned < MaxPlans
        /\ planned' = planned + 1
        /\ WriteRound(N(c), [rounds[N(c)] EXCEPT !.plan = planned + 1])
        /\ GoOn(c, "planned")
  /\ UNCHANGED <<session, iterations, ran, overlaps, deaths>>

SavePlanned(c) ==
  /\ At(c, "planned")
  /\ LET s == [Copy(c) EXCEPT !.round = N(c)] IN
       session' = IF N(c) = 1 THEN To(s, "round_1_planning", "round_1_reviewing")
                  ELSE To(s, "round_2_planning", "round_2_reviewing")
  /\ Reply(c)
  /\ UNCHANGED <<rounds, planned, iterations, ran, overlaps, deaths>>

-----------------------------------------------------------------------------
(* review_round *)

ReviewRound(c, n) ==
  /\ Enter(c)
  /\ \E l \in {"critic", "fail"} :
       /\ l = "critic" => rounds[n].plan # 0
       /\ request' = [request EXCEPT ![c] =
                     [NoRequest EXCEPT !.at = l, !.s = session, !.r = rounds[n], !.n = n,
                        !.why = IF l = "critic" THEN "none"
                                ELSE IF rounds[n].plan = 0 /\ RoundExists(n)
                                THEN "critic_failed" ELSE "provider_failed"]]
  /\ UNCHANGED <<session, rounds, planned, iterations, ran>>

(* The critic answers, or not; the round is written from the copy.          *)
Critic(c) ==
  /\ At(c, "critic")
  /\ \/ /\ \E why \in {"critic_failed", "provider_failed"} : FailWith(c, why)
        /\ UNCHANGED rounds
     \/ /\ WriteRound(N(c), request[c].r)
        /\ GoOn(c, "reviewed")
  /\ UNCHANGED <<session, planned, iterations, ran, overlaps, deaths>>

(* A mistake: a reviewed second round completes the session from anywhere. *)
SaveReviewedAny(c) ==
  /\ At(c, "reviewed")
  /\ session' = IF N(c) = 1
                THEN To(Copy(c), "round_1_reviewing", "round_1_waiting_approval")
                ELSE IF Copy(c).status \in Closed THEN Copy(c)
                ELSE [Copy(c) EXCEPT !.status = "completed"]
  /\ Reply(c)
  /\ UNCHANGED <<rounds, planned, iterations, ran, overlaps, deaths>>

SaveReviewed(c) ==
  /\ At(c, "reviewed")
  /\ session' = IF N(c) = 1
                THEN To(Copy(c), "round_1_reviewing", "round_1_waiting_approval")
                ELSE To(Copy(c), "round_2_reviewing", "completed")
  /\ Reply(c)
  /\ UNCHANGED <<rounds, planned, iterations, ran, overlaps, deaths>>

-----------------------------------------------------------------------------
(* approve_round, reject_round *)

ApproveRound(c) ==
  /\ session.status = "round_1_waiting_approval" /\ rounds[1].plan # 0
  /\ Enter(c)
  /\ request' = [request EXCEPT ![c] =
                [NoRequest EXCEPT !.at = "iteration", !.s = session, !.r = rounds[1]]]
  /\ UNCHANGED <<session, rounds, planned, iterations, ran>>

(* approve_candidate and start_from_plan, unless the candidate cannot be    *)
(* approved (again); the contract it made may yet be refused.               *)
StartIteration(c) ==
  /\ At(c, "iteration")
  /\ \/ Reply(c) /\ UNCHANGED iterations
     \/ LET k == 1 + Cardinality({i \in 1..MaxIter : iterations[i] # "absent"}) IN
        /\ k <= MaxIter
        /\ iterations' = [iterations EXCEPT ![k] = "waiting_approval"]
        /\ \/ Reply(c)
           \/ request' = [request EXCEPT ![c].at = "approved",
                         ![c].r.approved = request[c].r.plan, ![c].r.iter = k]
  /\ UNCHANGED <<session, rounds, planned, ran, overlaps, deaths>>

(* The round, then the session, from the copies.                            *)
SaveApproved(c) ==
  /\ At(c, "approved")
  /\ WriteRound(1, request[c].r)
  /\ GoOn(c, "save")
  /\ UNCHANGED <<session, planned, iterations, ran, overlaps, deaths>>

SaveSession(c) ==
  /\ At(c, "save")
  /\ session' = Copy(c)
  /\ Reply(c)
  /\ UNCHANGED <<rounds, planned, iterations, ran, overlaps, deaths>>

RejectRound(c, n) ==
  /\ session.status = "round_1_waiting_approval" /\ RoundExists(n)
  /\ Enter(c)
  /\ request' = [request EXCEPT ![c] =
                [NoRequest EXCEPT !.at = "rejected", !.s = session, !.r = rounds[n], !.n = n]]
  /\ UNCHANGED <<session, rounds, planned, iterations, ran>>

SaveRejected(c) ==
  /\ At(c, "rejected")
  /\ WriteRound(N(c), request[c].r)
  /\ session' = [Copy(c) EXCEPT !.status = "candidate_rejected"]
  /\ Reply(c)
  /\ UNCHANGED <<planned, iterations, ran, overlaps, deaths>>

-----------------------------------------------------------------------------
(* execute_round *)

ExecuteRound(c) ==
  /\ session.status = "round_1_waiting_approval"
  /\ rounds[1].iter # 0 /\ rounds[1].approved # 0
  /\ Enter(c)
  /\ \E w \in BOOLEAN :
       request' = [request EXCEPT ![c] =
                  [NoRequest EXCEPT !.at = "execute", !.r = rounds[1],
                     !.s = [session EXCEPT !.status = "round_1_executing"], !.wait = w]]
  /\ UNCHANGED <<session, rounds, planned, iterations, ran>>

SaveExecuting(c) ==
  /\ At(c, "execute")
  /\ WriteRound(1, request[c].r)
  /\ session' = Copy(c)
  /\ GoOn(c, "approve_and_run")
  /\ UNCHANGED <<planned, iterations, ran, overlaps, deaths>>

(* IterationService.approve_and_run: an iteration is only run once.         *)
ApproveAndRun(c) ==
  /\ At(c, "approve_and_run")
  /\ LET k == request[c].r.iter IN
     IF iterations[k] = "waiting_approval"
     THEN /\ iterations' = [iterations EXCEPT ![k] = "running"]
          /\ ran' = ran \cup {k}
          /\ GoOn(c, "ran")
     ELSE FailWith(c, "execution_failed") /\ UNCHANGED <<iterations, ran>>
  /\ UNCHANGED <<session, rounds, planned, overlaps, deaths>>

(* The run has returned, at once or when it was over: the round is written  *)
(* from the copy, the session next, which fails if every seed has.          *)
Returned(c) == request[c].wait => iterations[request[c].r.iter] # "running"
SaveRan(c) ==
  /\ At(c, "ran") /\ Returned(c)
  /\ WriteRound(1, request[c].r)
  /\ GoOn(c, "ran_session")
  /\ UNCHANGED <<session, planned, iterations, ran, overlaps, deaths>>

SaveRanSession(c) ==
  /\ At(c, "ran_session")
  /\ session' = Copy(c)
  /\ IF request[c].wait /\ iterations[request[c].r.iter] = "failed"
     THEN FailWith(c, "execution_failed") ELSE Reply(c)
  /\ UNCHANGED <<rounds, planned, iterations, ran, overlaps, deaths>>

-----------------------------------------------------------------------------
(* record_execution_feedback, record_feedback *)

RecordExecutionFeedback(c) ==
  /\ session.status = "round_1_executing" /\ rounds[1].iter # 0
  /\ BeginWith(c, "evidence", session, 1)
  /\ UNCHANGED <<session, rounds, planned, iterations, ran>>

(* Comparison and evidence of the executed node: there are none while       *)
(* nothing has run.  Then record_feedback, which reads the session again.   *)
HasResults == iterations[rounds[1].iter] \in {"running", "completed"}

BuildEvidence(c) ==
  /\ At(c, "evidence")
  /\ \/ Reply(c)
     \/ /\ rounds[1].iter # 0 /\ HasResults
        /\ request' = [request EXCEPT ![c].at = "feedback", ![c].s = session]
  /\ UNCHANGED <<session, rounds, planned, iterations, ran, overlaps, deaths>>

(* Asked for directly, of any state and with any nodes; feedback of the     *)
(* second round, for a third, is left out.                                  *)
RecordFeedback(c) ==
  /\ RoundExists(1)
  /\ BeginWith(c, "feedback", session, 1)
  /\ UNCHANGED <<session, rounds, planned, iterations, ran>>

SaveFeedback(c) ==
  /\ At(c, "feedback")
  /\ WriteRound(N(c), [rounds[N(c)] EXCEPT !.fed = TRUE])
  /\ GoOn(c, "fed")
  /\ UNCHANGED <<session, planned, iterations, ran, overlaps, deaths>>

(* advance_status, which a direct request may turn off.                     *)
SaveFed(c) ==
  /\ At(c, "fed")
  /\ \/ session' = To(Copy(c), "round_1_executing", "round_1_feedback_ready")
     \/ session' = Copy(c)
  /\ Reply(c)
  /\ UNCHANGED <<rounds, planned, iterations, ran, overlaps, deaths>>

-----------------------------------------------------------------------------
(* prepare_next_round.  The context it goes on to build is only shown.      *)

PrepareNextRound(c) ==
  /\ session.status = "round_1_feedback_ready"
  /\ Enter(c)
  /\ session' = [status |-> "round_2_planning", round |-> 2]
  /\ UNCHANGED <<rounds, planned, iterations, ran, request>>

-----------------------------------------------------------------------------
(* Iterations go on, or are run by a request of their own.                  *)
IterationMoves(k) ==
  /\ \/ iterations[k] = "waiting_approval" /\ iterations' = [iterations EXCEPT ![k] = "running"]
     \/ /\ iterations[k] = "running"
        /\ \E s \in {"completed", "failed"} : iterations' = [iterations EXCEPT ![k] = s]
  /\ UNCHANGED <<session, rounds, planned, ran, request, overlaps, deaths>>

ProcessDies ==
  /\ Busy /\ Mishap
  /\ deaths' = deaths + 1
  /\ request' = [c \in Requester |-> NoRequest]
  /\ UNCHANGED <<session, rounds, planned, iterations, ran, overlaps>>

Proceed(c) ==
  \/ CreateRound(c) \/ Fail(c)
  \/ PlanContext(c) \/ Planner(c) \/ SavePlanned(c)
  \/ Critic(c) \/ SaveReviewed(c)
  \/ StartIteration(c) \/ SaveApproved(c) \/ SaveSession(c) \/ SaveRejected(c)
  \/ SaveExecuting(c) \/ ApproveAndRun(c) \/ SaveRan(c)
  \/ SaveRanSession(c)
  \/ BuildEvidence(c) \/ SaveFeedback(c) \/ SaveFed(c)

NewRequest(c) ==
  \/ Create(c) \/ MarkBaselineReady(c)
  \/ \E n \in 1..2 : PlanRound(c, n) \/ ReviewRound(c, n) \/ RejectRound(c, n)
  \/ RecordFeedback(c) \/ ApproveRound(c) \/ ExecuteRound(c)
  \/ RecordExecutionFeedback(c) \/ PrepareNextRound(c)

LoopNext ==
  \/ \E c \in Requester : NewRequest(c) \/ Proceed(c)
  \/ ProcessDies
  \/ \E k \in 1..MaxIter : IterationMoves(k)

LoopSpec == LoopInit /\ [][LoopNext]_loopVars

-----------------------------------------------------------------------------
(* Types of the rows and of the copies requests hold.                       *)
LoopTypeOK ==
  /\ session \in Session
  /\ rounds \in [1..2 -> Round]
  /\ planned \in 0..MaxPlans
  /\ iterations \in [1..MaxIter -> IterStatus]
  /\ ran \subseteq 1..MaxIter
  /\ request \in [Requester -> Held]
  /\ overlaps \in 0..MaxDisturbances /\ deaths \in 0..MaxDisturbances

(* Requests overlapped, or a crash broke one off. *)
Disturbed == overlaps > 0 \/ deaths > 0

(* Whatever is asked of a session in whatever order, one that counts as     *)
(* past its first round has executed an approved candidate and recorded     *)
(* feedback, and one that is complete has a plan for the second.            *)
PastRound1 == {"round_1_feedback_ready", "round_2_planning", "round_2_reviewing",
               "completed"}
RoundsInOrder ==
  ~Disturbed =>
    /\ session.status \in PastRound1 =>
         /\ rounds[1].approved # 0 /\ rounds[1].fed
         /\ ran # {}
    /\ session.status \in {"round_2_reviewing", "completed"} => rounds[2].plan # 0

(* The gate before the planner of the second round looks once; still no     *)
(* plan of a second round lacks the feedback of the first, since no later   *)
(* request (a new plan of round 1, a failure, a review) takes it away.      *)
SecondPlanHasFeedback == ~Disturbed /\ rounds[2].plan # 0 => rounds[1].fed

(* Experiments are dear: a session runs one, and one more at most for each  *)
(* request that raced with another; a crash does not lead to a second run.  *)
RunsOnce == Cardinality(ran) <= 1 + overlaps

(* The order of the two rounds is kept in a well-formed session, with one    *)
(* experiment in the first and its feedback before the plan of the second.   *)
OrderKept == LoopTypeOK /\ RoundsInOrder /\ RunsOnce /\ SecondPlanHasFeedback

(* Requests may be made of a session that is closed, and plan, review and   *)
(* fail; they leave its status alone.                                       *)
ClosedStaysClosed ==
  [][session.status \in Closed => Disturbed' \/ session'.status = session.status]_loopVars
=============================================================================
