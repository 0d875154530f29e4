------------------------------ MODULE Execution ------------------------------
(***************************************************************************)
(* services/experiment_service.py over runners/local_docker.py: one        *)
(* execution of an experiment, from the contract to the attempt row.       *)
(*                                                                         *)
(* The runner keeps a record of every job in the memory of the process,    *)
(* written without a lock by the job's own thread and by whoever cancels   *)
(* it.  The attempt and node rows are written by the submitting call, by a *)
(* watcher thread per execution, and by requests that refresh, cancel or   *)
(* recover; each reads a row, works on its copy and writes the whole copy  *)
(* back.  A restart forgets threads, calls and job records; the container, *)
(* execution.json and the rows survive it.                                 *)
(***************************************************************************)
EXTENDS Naturals

CONSTANTS Execution,
          Caller,       \* request threads of the API
          Node,
          NodeOf,       \* the node an execution is an attempt of
          MaxRestarts,  \* bound on process restarts
          MaxCancels    \* bound on cancels, by request or at a deadline

ASSUME NodeAssumption == NodeOf \in [Execution -> Node]
ASSUME BoundAssumption == MaxRestarts \in Nat /\ MaxCancels \in Nat

(* An execution, as an actor, is its finalize watcher. *)
Actor == Execution \cup Caller

ASSUME ExecutionAssumption == Execution # {}
ASSUME ActorAssumption == Execution \cap Caller = {}

VARIABLES job,        \* _RuntimeJob of an execution
          thread,     \* where its _run_job thread is
          verdict,    \* the status that thread is about to write, at "status"
          container,
          outputs,    \* what the container wrote: metrics.json alone is partial
          disk,       \* return_code in execution.json
          row,        \* execution attempts
          node,       \* status of the node rows
          tracked,    \* _execution_runners
          call,       \* what each actor is doing
          heeded,     \* cancelled before the exit code was looked at
          disturbed,  \* cancelled, or left behind by a restart or by Docker
          restarts,   \* bounded by MaxRestarts
          cancels     \* cancels begun, bounded by MaxCancels

runnerVars == <<job, thread, verdict, container, outputs, disk>>
rowVars == <<row, node>>
ghosts == <<heeded, disturbed>>
bounds == <<restarts, cancels>>
vars == <<runnerVars, rowVars, tracked, call, ghosts, bounds>>

-----------------------------------------------------------------------------
(* domain: JobStatus; the sets the service and the runner test it against *)
Active == {"queued", "preparing", "running"}
Terminal == {"completed", "failed", "cancelled", "timed_out"}
Status == Active \cup Terminal \cup {"interrupted"}

Job == [known: BOOLEAN, status: Active \cup Terminal, id: BOOLEAN, error: BOOLEAN]
NoJob == [known |-> FALSE, status |-> "queued", id |-> FALSE, error |-> FALSE]

Row == [status: Status \cup {"absent"}, metrics: BOOLEAN, error: BOOLEAN]
NoRow == [status |-> "absent", metrics |-> FALSE, error |-> FALSE]

ThreadLabel == {"none", "start", "plan", "run", "attach", "wait", "save",
                "decide", "status", "error", "remove", "end"}
CallLabel == {"idle", "submit", "track", "insert", "wait", "read", "live",
              "stop", "mark", "reason", "collect", "store", "node",
              "poll", "sync", "inspect", "demote", "recover"}

(* at: where the actor is; of: its execution; copy: the row it read; seen: *)
(* the status it saw or collected; then: where a cancel returns to.        *)
Call == [at: CallLabel, of: Execution, copy: Row, seen: Status \cup {"absent"},
         then: {"read", "collect"}]

TypeOK ==
  /\ job \in [Execution -> Job]
  /\ thread \in [Execution -> ThreadLabel]
  /\ verdict \in [Execution -> Active \cup Terminal]
  /\ container \in [Execution -> {"none", "running", "ok", "bad", "gone"}]
  /\ outputs \in [Execution -> {"none", "partial", "full"}]
  /\ disk \in [Execution -> {"none", "ok", "bad"}]
  /\ row \in [Execution -> Row]
  /\ node \in [Node -> {"none", "running", "succeeded", "cancelled", "failed"}]
  /\ tracked \subseteq Execution
  /\ call \in [Actor -> Call]
  /\ heeded \subseteq Execution
  /\ disturbed \subseteq Execution
  /\ restarts \in 0..MaxRestarts
  /\ cancels \in 0..MaxCancels

Idle == [at |-> "idle", of |-> CHOOSE e \in Execution : TRUE, copy |-> NoRow,
         seen |-> "absent", then |-> "read"]

Init ==
  /\ job = [e \in Execution |-> NoJob]
  /\ thread = [e \in Execution |-> "none"]
  /\ verdict = [e \in Execution |-> "queued"]
  /\ container = [e \in Execution |-> "none"]
  /\ outputs = [e \in Execution |-> "none"]
  /\ disk = [e \in Execution |-> "none"]
  /\ row = [e \in Execution |-> NoRow]
  /\ node = [n \in Node |-> "none"]
  /\ tracked = {}
  /\ call = [a \in Actor |-> Idle]
  /\ heeded = {} /\ disturbed = {}
  /\ restarts = 0 /\ cancels = 0

-----------------------------------------------------------------------------
(* LocalDockerRunner: the job's thread *)

SetStatus(e, s) == job' = [job EXCEPT ![e].status = s]
SetError(e) == job' = [job EXCEPT ![e].error = TRUE]

At(e, l) == thread[e] = l
Go(e, l) == thread' = [thread EXCEPT ![e] = l]

(* The thread leaves its body to write status s, and then the error. *)
Conclude(e, s) == /\ verdict' = [verdict EXCEPT ![e] = s]
                  /\ Go(e, "status")

Exited == {"ok", "bad"}
Stops(e) == \E x \in Exited : container' = [container EXCEPT ![e] = x]

Prepare(e) ==
  /\ At(e, "start") /\ Go(e, "plan")
  /\ SetStatus(e, "preparing")
  /\ UNCHANGED <<verdict, container, disk>>

Plan(e) ==
  /\ At(e, "plan")
  /\ \/ /\ Go(e, "run") /\ SetStatus(e, "running")
        /\ UNCHANGED verdict
     \/ /\ Conclude(e, "failed")
        /\ UNCHANGED job
  /\ UNCHANGED <<container, disk>>

(* containers.run *)
RunContainer(e) ==
  /\ At(e, "run")
  /\ \/ /\ Go(e, "attach")
        /\ container' = [container EXCEPT ![e] = "running"]
        /\ UNCHANGED verdict
     \/ /\ Conclude(e, "failed")
        /\ UNCHANGED container
  /\ UNCHANGED <<job, disk>>

Attach(e) ==
  /\ At(e, "attach") /\ Go(e, "wait")
  /\ job' = [job EXCEPT ![e].id = TRUE]
  /\ UNCHANGED <<verdict, container, disk>>

(* The container has exited, has had its time, or Docker fails. *)
WaitContainer(e) ==
  /\ At(e, "wait")
  /\ \/ /\ container[e] \in Exited
        /\ Go(e, "save")
        /\ UNCHANGED <<verdict, container>>
     \/ /\ container[e] = "running"
        /\ Stops(e)
        /\ \E s \in {"timed_out", "failed"} : Conclude(e, s)
     \/ /\ Conclude(e, "failed")
        /\ UNCHANGED container
  /\ UNCHANGED <<job, disk>>

SaveResult(e) ==
  /\ At(e, "save")
  /\ \/ /\ Go(e, "decide")
        /\ disk' = [disk EXCEPT ![e] = container[e]]
        /\ UNCHANGED verdict
     \/ /\ Conclude(e, "failed")
        /\ UNCHANGED disk
  /\ UNCHANGED <<job, container>>

(* A mistake: a cancelled job is judged by its exit code. *)
DecideBlind(e) ==
  /\ At(e, "decide")
  /\ Conclude(e, IF disk[e] = "ok" THEN "completed" ELSE "failed")
  /\ UNCHANGED <<job, container, disk>>

Decide(e) ==
  /\ At(e, "decide")
  /\ \/ /\ job[e].status = "cancelled"
        /\ Go(e, "remove")
        /\ UNCHANGED verdict
     \/ /\ job[e].status # "cancelled"
        /\ Conclude(e, IF disk[e] = "ok" THEN "completed" ELSE "failed")
  /\ UNCHANGED <<job, container, disk>>

WriteStatus(e) ==
  /\ At(e, "status")
  /\ SetStatus(e, verdict[e])
  /\ Go(e, IF verdict[e] = "completed" THEN "remove" ELSE "error")
  /\ verdict' = [verdict EXCEPT ![e] = "queued"]
  /\ UNCHANGED <<container, disk>>

WriteError(e) ==
  /\ At(e, "error") /\ Go(e, "remove")
  /\ SetError(e)
  /\ UNCHANGED <<verdict, container, disk>>

Thread(e) ==
  \/ Prepare(e) \/ Plan(e) \/ RunContainer(e) \/ Attach(e) \/ WaitContainer(e)
  \/ SaveResult(e) \/ Decide(e) \/ WriteStatus(e) \/ WriteError(e)

(* The finally clause; Docker may refuse the removal. *)
RemoveContainer(e) ==
  /\ At(e, "remove") /\ Go(e, "end")
  /\ \/ /\ container' = [container EXCEPT ![e] = IF @ = "none" THEN @ ELSE "gone"]
        /\ UNCHANGED disturbed
     \/ /\ container[e] # "none"
        /\ disturbed' = disturbed \cup {e}
        /\ UNCHANGED container
  /\ UNCHANGED <<job, verdict, outputs, disk, rowVars, tracked, call, heeded,
                 bounds>>

ThreadStep(e) ==
  \/ /\ Thread(e)
     /\ UNCHANGED <<outputs, rowVars, tracked, call, ghosts, bounds>>
  \/ RemoveContainer(e)

-----------------------------------------------------------------------------
(* The program in the container *)

WriteOutputs(e) ==
  /\ container[e] = "running"
  /\ \/ outputs[e] = "none" /\ outputs' = [outputs EXCEPT ![e] = "partial"]
     \/ outputs[e] = "partial" /\ outputs' = [outputs EXCEPT ![e] = "full"]
  /\ UNCHANGED <<job, thread, verdict, container, disk, rowVars, tracked, call,
                 ghosts, bounds>>

Exit(e) ==
  /\ container[e] = "running"
  /\ Stops(e)
  /\ UNCHANGED <<job, thread, verdict, outputs, disk, rowVars, tracked, call,
                 ghosts, bounds>>

-----------------------------------------------------------------------------
(* Calls *)

Doing(a, l) == call[a].at = l
Of(a) == call[a].of
Move(a, l) == call' = [call EXCEPT ![a].at = l]
Return(a) == call' = [call EXCEPT ![a] = Idle]
(* Begins or goes on without what it has read so far, *)
Begin(a, e, l) == call' = [call EXCEPT ![a] = [Idle EXCEPT !.at = l, !.of = e]]
(* or begins by reading the row. *)
BeginWithRow(a, e, l) ==
  call' = [call EXCEPT ![a] = [Idle EXCEPT !.at = l, !.of = e, !.copy = row[e]]]

Upsert(e, r) == row' = [row EXCEPT ![e] = r]

(* new_id: an execution no call, row or job has used. *)
Fresh(e) == /\ ~job[e].known /\ e \notin disturbed
            /\ \A a \in Actor : Doing(a, "idle") \/ Of(a) # e

(* run_contract, up to the runner *)
RunContract(c, e) ==
  /\ Doing(c, "idle") /\ Fresh(e)
  /\ node' = [node EXCEPT ![NodeOf[e]] = "running"]
  /\ Begin(c, e, "submit")
  /\ UNCHANGED <<runnerVars, row, tracked, ghosts, bounds>>

(* runner.submit: refused by validate, or the job's thread is started *)
SubmitJob(c) ==
  /\ Doing(c, "submit")
  /\ \/ /\ Return(c)
        /\ UNCHANGED <<job, thread>>
     \/ /\ job' = [job EXCEPT ![Of(c)] = [NoJob EXCEPT !.known = TRUE]]
        /\ Go(Of(c), "start")
        /\ Move(c, "track")
  /\ UNCHANGED <<verdict, container, outputs, disk, rowVars, tracked, ghosts,
                 bounds>>

(* A mistake: the runner of an execution is not remembered. *)
TrackNothing(c) ==
  /\ Doing(c, "track") /\ Move(c, "insert")
  /\ UNCHANGED <<runnerVars, rowVars, tracked, ghosts, bounds>>

Track(c) ==
  /\ Doing(c, "track") /\ Move(c, "insert")
  /\ tracked' = tracked \cup {Of(c)}
  /\ UNCHANGED <<runnerVars, rowVars, ghosts, bounds>>

(* The attempt's row; then the call waits itself, or leaves it to a watcher. *)
InsertAttempt(c) ==
  /\ Doing(c, "insert")
  /\ Upsert(Of(c), [NoRow EXCEPT !.status = "queued"])
  /\ \/ Move(c, "wait")
     \/ call' = [call EXCEPT ![c] = Idle,
                            ![Of(c)] = [Idle EXCEPT !.at = "wait", !.of = Of(c)]]
  /\ UNCHANGED <<runnerVars, node, tracked, ghosts, bounds>>

BeginCancel == cancels < MaxCancels /\ cancels' = cancels + 1

(* wait_until_done: the job is over, or it is cancelled at the deadline. *)
WaitUntilDone(a, l, then) ==
  /\ Doing(a, l)
  /\ \/ /\ job[Of(a)].status \in Terminal
        /\ Move(a, then) /\ UNCHANGED cancels
     \/ /\ job[Of(a)].status \notin Terminal
        /\ BeginCancel
        /\ call' = [call EXCEPT ![a].at = "stop", ![a].then = then]
  /\ UNCHANGED <<runnerVars, rowVars, tracked, ghosts, restarts>>

(* _finalize_execution: the row is read before the job's end is awaited. *)
ReadAttempt(a) ==
  /\ Doing(a, "read")
  /\ call' = [call EXCEPT ![a].copy = row[Of(a)], ![a].at = "live"]
  /\ UNCHANGED <<runnerVars, rowVars, tracked, ghosts, bounds>>

(* runner.cancel: the container, then the status, then the error *)
StopContainer(a) ==
  /\ Doing(a, "stop") /\ Move(a, "mark")
  /\ IF job[Of(a)].id /\ container[Of(a)] = "running"
       THEN Stops(Of(a)) ELSE UNCHANGED container
  /\ UNCHANGED <<job, thread, verdict, outputs, disk, rowVars, tracked, ghosts,
                 bounds>>

MarkCancelled(a) ==
  /\ Doing(a, "mark") /\ Move(a, "reason")
  /\ SetStatus(Of(a), "cancelled")
  /\ disturbed' = disturbed \cup {Of(a)}
  /\ UNCHANGED <<thread, verdict, container, outputs, disk, rowVars, tracked,
                 heeded, bounds>>

GiveReason(a) ==
  /\ Doing(a, "reason")
  /\ call' = [call EXCEPT ![a].at = call[a].then, ![a].then = "read"]
  /\ SetError(Of(a))
  /\ heeded' = IF /\ job[Of(a)].status = "cancelled"
                  /\ thread[Of(a)] \in {"wait", "save"}
                 THEN heeded \cup {Of(a)} ELSE heeded
  /\ UNCHANGED <<thread, verdict, container, outputs, disk, rowVars, tracked,
                 disturbed, bounds>>

(* runner.collect_result: it raises while the job is not over, reports an *)
(* error it finds, and takes everything else for a completed job.          *)
CollectResult(a) ==
  LET e == Of(a)
      errs == job[e].error /\ job[e].status # "completed"
      Collected(s) == call' = [call EXCEPT ![a].seen = s, ![a].at = "store"]
  IN
  /\ Doing(a, "collect")
  /\ \/ /\ job[e].status \notin Terminal
        /\ Return(a)
        /\ UNCHANGED job
     \/ /\ job[e].status \in Terminal /\ errs
        /\ Collected(job[e].status)
        /\ UNCHANGED job
     \/ /\ job[e].status \in Terminal /\ ~errs /\ outputs[e] = "full"
        /\ Collected("completed")
        /\ UNCHANGED job
     \/ /\ job[e].status \in Terminal /\ ~errs /\ outputs[e] # "full"
        /\ Collected("failed")
        /\ job' = [job EXCEPT ![e].status = "failed", ![e].error = TRUE]
  /\ UNCHANGED <<thread, verdict, container, outputs, disk, rowVars, tracked,
                 ghosts, bounds>>

(* A mistake: whatever was collected is taken to hold metrics. *)
FinalizedAlways(c) == [status |-> c.seen, metrics |-> TRUE,
                       error |-> c.copy.error \/ c.seen # "completed"]

(* The copy read before, with what was collected. *)
Finalized(c) == [status |-> c.seen, metrics |-> c.seen = "completed",
                 error |-> c.copy.error \/ c.seen # "completed"]

StoreAttempt(a) ==
  /\ Doing(a, "store")
  /\ call' = [call EXCEPT ![a].at = "node", ![a].copy = NoRow]
  /\ Upsert(Of(a), Finalized(call[a]))
  /\ UNCHANGED <<runnerVars, node, tracked, ghosts, bounds>>

(* A mistake: the attempt's status is stored in the node as it is. *)
NodeStatusRaw(s) == s

NodeStatus(s) == CASE s = "completed" -> "succeeded"
                   [] s = "cancelled" -> "cancelled"
                   [] OTHER           -> "failed"

UpdateNode(a) ==
  /\ Doing(a, "node") /\ Return(a)
  /\ node' = [node EXCEPT ![NodeOf[Of(a)]] = NodeStatus(call[a].seen)]
  /\ UNCHANGED <<runnerVars, row, tracked, ghosts, bounds>>

(* cancel_execution: whatever the job's status *)
CancelExecution(c, e) ==
  /\ Doing(c, "idle") /\ row[e] # NoRow /\ job[e].known
  /\ BeginCancel /\ Begin(c, e, "stop")
  /\ UNCHANGED <<runnerVars, rowVars, tracked, ghosts, restarts>>

(* refresh_execution *)
RefreshExecution(a, e) ==
  /\ Doing(a, "idle") /\ row[e] # NoRow
  /\ BeginWithRow(a, e, "poll")
  /\ UNCHANGED <<runnerVars, rowVars, tracked, ghosts, bounds>>

PollRunner(a) ==
  /\ Doing(a, "poll")
  /\ \/ /\ job[Of(a)].known
        /\ call' = [call EXCEPT ![a].seen = job[Of(a)].status, ![a].at = "sync"]
     \/ ~job[Of(a)].known /\ Move(a, "inspect")
  /\ UNCHANGED <<runnerVars, rowVars, tracked, ghosts, bounds>>

(* A mistake: only a failure is worth finalizing. *)
UnfinalizedFailure(c) == c.seen \in Terminal \ {"completed"} /\ ~c.copy.error

(* Whether the row, as it was read, lacks what its live status should bring. *)
Unfinalized(c) == \/ c.seen = "completed" /\ ~c.copy.metrics
                  \/ c.seen \in Terminal \ {"completed"} /\ ~c.copy.error

SyncAttempt(a) ==
  /\ Doing(a, "sync")
  /\ Upsert(Of(a), [call[a].copy EXCEPT !.status = call[a].seen])
  /\ IF Unfinalized(call[a]) THEN Begin(a, Of(a), "read") ELSE Return(a)
  /\ UNCHANGED <<runnerVars, node, tracked, ghosts, bounds>>

(* training_monitor: what disk and Docker say of a job no runner knows *)
DiskSays(e) == (IF disk[e] = "ok" \/ outputs[e] # "none" THEN {"completed"} ELSE {})
               \cup (IF disk[e] = "bad" THEN {"failed"} ELSE {})

(* A mistake: a container that has exited cleanly leaves the row alone. *)
DockerSaysFailed(e, s) ==
  CASE container[e] = "running"      -> {"running"}
    [] container[e] = "bad"          -> {"failed"}
    [] container[e] = "gone"         -> {s, "interrupted"}
    [] container[e] \in {"ok", "none"} -> {s}

DockerSays(e, s) ==
  CASE container[e] = "running" -> {"running"}
    [] container[e] = "ok"      -> {"interrupted"}
    [] container[e] = "bad"     -> {"failed"}
    [] container[e] = "gone"    -> {s, "interrupted"}
    [] container[e] = "none"    -> {s}

(* metrics.json need not carry a status, so only a return code rules Docker *)
(* out; a removed container counts as dead once its log is stale.           *)
Reconciled(e, s) ==
  IF disk[e] # "none" THEN DiskSays(e) ELSE DiskSays(e) \cup DockerSays(e, s)

ReconcileAttempt(a) ==
  LET c == call[a] IN
  /\ Doing(a, "inspect")
  /\ c.copy.status \in Active
  /\ \E s \in Reconciled(Of(a), c.copy.status) \ {c.copy.status} :
        call' = [call EXCEPT ![a].seen = s, ![a].at = "demote"]
  /\ UNCHANGED <<runnerVars, rowVars, tracked, ghosts, bounds>>

LeaveAttempt(a) ==
  LET c == call[a] IN
  /\ Doing(a, "inspect")
  /\ c.copy.status \in Active => c.copy.status \in Reconciled(Of(a), c.copy.status)
  /\ Return(a)
  /\ UNCHANGED <<runnerVars, rowVars, tracked, ghosts, bounds>>

DemoteAttempt(a) ==
  LET c == call[a] IN
  /\ Doing(a, "demote") /\ Return(a)
  /\ Upsert(Of(a),
       [status |-> c.seen,
        metrics |-> c.copy.metrics \/ outputs[Of(a)] # "none",
        error |-> c.copy.error \/ c.seen \in {"failed", "interrupted"}])
  /\ UNCHANGED <<runnerVars, node, tracked, ghosts, bounds>>

(* RecoveryService: attempts are listed, then those not tracked are marked. *)
Recover(c, e) ==
  /\ Doing(c, "idle") /\ row[e].status \in Active
  /\ BeginWithRow(c, e, "recover")
  /\ UNCHANGED <<runnerVars, rowVars, tracked, ghosts, bounds>>

MarkInterrupted(c) ==
  /\ Doing(c, "recover") /\ Return(c)
  /\ IF Of(c) \in tracked
       THEN UNCHANGED row
       ELSE Upsert(Of(c), [call[c].copy EXCEPT !.status = "interrupted",
                                               !.error = TRUE])
  /\ UNCHANGED <<runnerVars, node, tracked, ghosts, bounds>>

CallStep(a) ==
  \/ SubmitJob(a) \/ Track(a) \/ InsertAttempt(a)
  \/ WaitUntilDone(a, "wait", "read") \/ WaitUntilDone(a, "live", "collect")
  \/ ReadAttempt(a) \/ StopContainer(a) \/ MarkCancelled(a) \/ GiveReason(a)
  \/ CollectResult(a) \/ StoreAttempt(a) \/ UpdateNode(a)
  \/ PollRunner(a) \/ SyncAttempt(a)
  \/ ReconcileAttempt(a) \/ LeaveAttempt(a) \/ DemoteAttempt(a)
  \/ MarkInterrupted(a)

-----------------------------------------------------------------------------
(* The process dies and comes back with empty memory. *)
Restart ==
  /\ restarts < MaxRestarts
  /\ restarts' = restarts + 1
  /\ job' = [e \in Execution |-> NoJob]
  /\ thread' = [e \in Execution |-> "none"]
  /\ tracked' = {}
  /\ call' = [a \in Actor |-> Idle]
  /\ verdict' = [e \in Execution |-> "queued"]
  /\ disturbed' = disturbed \cup {e \in Execution : job[e].known}
  /\ UNCHANGED << container, outputs, disk, rowVars, heeded, cancels>>

CallBegin(c, e) == \/ RunContract(c, e) \/ CancelExecution(c, e)
                   \/ RefreshExecution(c, e) \/ Recover(c, e)

Next ==
  \/ \E e \in Execution : ThreadStep(e) \/ WriteOutputs(e) \/ Exit(e)
  \/ \E a \in Actor : CallStep(a)
  \/ \E e \in Execution, c \in Caller : CallBegin(c, e)
  \/ Restart

Spec == Init /\ [][Next]_vars

(* Threads and calls that have begun are scheduled, programs in containers  *)
(* end, somebody asks for every execution again and again, and logs that    *)
(* are no longer written grow old.                                          *)
Fairness ==
  /\ \A e \in Execution : WF_vars(ThreadStep(e)) /\ WF_vars(Exit(e))
  /\ \A a \in Actor : WF_vars(CallStep(a))
  /\ \A e \in Execution :
       /\ SF_vars(\E c \in Caller : RefreshExecution(c, e))
       /\ SF_vars(\E c \in Caller : Of(c) = e /\ ReconcileAttempt(c))

FairSpec == Spec /\ Fairness

-----------------------------------------------------------------------------
(* Metrics in an attempt's row were written by its container, however many  *)
(* finalizers, refreshes and reconciliations have written the row.          *)
ResultsAreReal ==
  \A e \in Execution : row[e].metrics => outputs[e] # "none"

(* While the process that ran a job lives, its row says completed without   *)
(* the metrics only as long as some call is on its way to store them.       *)
CompletedGetsMetrics ==
  \A e \in Execution :
    /\ job[e].known
    /\ row[e].status = "completed" /\ ~row[e].metrics
    => \E a \in Actor : Of(a) = e /\ call[a].at \in {"read", "live", "collect", "store"}

(* An attempt's result is the container's: nothing else is ever stored as    *)
(* one, and no result of a completed job is left behind.                     *)
ResultsKept == ResultsAreReal /\ CompletedGetsMetrics

(* A cancel that is written down, with its reason, before the job's thread  *)
(* looks at the exit code is not overwritten by a success.                  *)
CancelHeeded == \A e \in heeded : job[e].status # "completed"

(* Recovery and reconciliation call no job interrupted that this process    *)
(* still runs.                                                              *)
LiveJobsSpared ==
  \A e \in Execution : job[e].known => row[e].status # "interrupted"

(* A container runs only under a job thread that will end it, unless the    *)
(* process was restarted, the job cancelled, or Docker refused its removal. *)
ContainerHasThread ==
  \A e \in Execution :
    container[e] = "running" /\ e \notin disturbed => thread[e] \notin {"none", "end"}

(* Who runs is looked after: no live job is called interrupted, and no       *)
(* container runs that nobody will end.                                      *)
ContainersMinded == LiveJobsSpared /\ ContainerHasThread

(* A job of a dead process whose container has not started, or still runs:  *)
(* nothing proves it over.                                                  *)
Orphan(e) == ~job[e].known /\ container[e] \in {"none", "running"}

(* Stale rows written over finished ones are repaired: every attempt ends   *)
(* up out of the active statuses for good, but for an orphan's.             *)
Settles ==
  \A e \in Execution : <>[](row[e].status \in Active => Orphan(e))

(* The only attempt of a node that nobody cancelled, in a process that      *)
(* lives, leaves the node in the state its row says, unless the program     *)
(* wrote its results and failed all the same.                               *)
NodeFollowsRow ==
  \A e \in Execution :
    <>[](\/ e \in disturbed \/ row[e] = NoRow
         \/ outputs[e] = "full" /\ disk[e] # "ok"
         \/ \E d \in Execution \ {e} : NodeOf[d] = NodeOf[e] /\ ~Fresh(d)
         \/ node[NodeOf[e]] = NodeStatus(row[e].status))

(* After all races and restarts the row comes to its end, and the node of    *)
(* the experiment with it.                                                   *)
AllSettles == Settles /\ NodeFollowsRow
=============================================================================
