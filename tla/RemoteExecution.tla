--------------------------- MODULE RemoteExecution ---------------------------
(***************************************************************************)
(* services/experiment_service.py over runners/remote_docker_runner.py:    *)
(* one execution of an experiment on a remote worker.                      *)
(*                                                                         *)
(* The worker is JobService, which WorkerJob implements.  Everything the   *)
(* client learns of it comes over HTTP: a call may fail, before or after   *)
(* the worker has acted on it, and then raises in whoever made it.  The    *)
(* binding file that names a job survives the client's death; its calls    *)
(* and watchers do not.  Rows are read, changed and written back whole.    *)
(***************************************************************************)
EXTENDS Naturals

CONSTANTS Remote,
          Caller,             \* request threads of the API
          NoExecution,
          MaxCancels,         \* bound on cancels, by request or at a deadline
          MaxFaults,          \* bound on failed HTTP calls
          MaxClientRestarts,  \* bound on restarts of the client
          MaxWorkerRestarts   \* bound on restarts of the worker

ASSUME RemoteBounds == /\ MaxCancels \in Nat /\ MaxFaults \in Nat
                       /\ MaxClientRestarts \in Nat /\ MaxWorkerRestarts \in Nat
ASSUME RemoteActors == /\ Remote # {} /\ NoExecution \notin Remote
                       /\ Remote \cap Caller = {}

(* An execution, as an actor, is its finalize watcher. *)
Actor == Remote \cup Caller
CancelCall == 1..MaxCancels

VARIABLES job, phase, asked, pending,  \* the worker's
          bound,     \* executions with a binding file
          attempt,   \* execution attempts
          node,      \* status of the node of an execution
          outputs,   \* executions whose metrics.json was unpacked here
          request,   \* what each actor is doing
          shown,     \* every status the worker gave a job that ends it here
          lost,      \* executions whose submit came to nothing here
          cancels, faults, clientRestarts, workerRestarts

worker == <<job, phase, asked, pending>>
records == <<attempt, node>>
files == <<bound, outputs>>
ghosts == <<shown, lost>>
restartCounts == <<clientRestarts, workerRestarts>>
bounds == <<cancels, faults, restartCounts>>
remoteVars == <<worker, records, files, request, ghosts, bounds>>

Worker == INSTANCE JobService
            WITH Job <- Remote, Canceller <- CancelCall, NoJob <- NoExecution

-----------------------------------------------------------------------------
(* JobStatus: "active" stands for queued, preparing, running, collecting. *)
Ends == {"completed", "failed", "cancelled", "timed_out"}
AttemptStatus == {"absent", "active", "interrupted"} \cup Ends

(* WORKER_TO_JOB_STATUS *)
Seen(s) == CASE s \in Ends     -> s
             [] s = "cancelling"   -> "cancelled"
             [] OTHER              -> "active"

Attempt == [status: AttemptStatus, metrics: BOOLEAN, error: BOOLEAN]
NoAttempt == [status |-> "absent", metrics |-> FALSE, error |-> FALSE]

CallLabel == {"idle", "post", "bind", "insert", "wait", "read", "live", "ask",
              "answer", "status", "download", "explain", "store", "node",
              "poll", "sync", "reread", "interrupt"}

(* at: where the actor is; of: its execution; copy: the row it read; listed: *)
(* the row recovery listed, if it is recovery; seen, metrics: what it has    *)
(* collected; asks: its cancel call; then: where a cancel returns to.        *)
Call == [at: CallLabel, of: Remote, copy: Attempt, listed: Attempt, seen: AttemptStatus,
         metrics: BOOLEAN, asks: CancelCall \cup {0}, then: {"read", "status"}]

Idle == [at |-> "idle", of |-> CHOOSE e \in Remote : TRUE, copy |-> NoAttempt,
         listed |-> NoAttempt, seen |-> "absent", metrics |-> FALSE, asks |-> 0,
         then |-> "read"]

RemoteTypeOK ==
  /\ Worker!TypeOK
  /\ bound \subseteq Remote
  /\ attempt \in [Remote -> Attempt]
  /\ node \in [Remote -> {"none", "running", "succeeded", "cancelled", "failed"}]
  /\ outputs \subseteq Remote
  /\ request \in [Actor -> Call]
  /\ shown \in [Remote -> SUBSET Ends]
  /\ lost \subseteq Remote
  /\ cancels \in 0..MaxCancels /\ faults \in 0..MaxFaults
  /\ clientRestarts \in 0..MaxClientRestarts
  /\ workerRestarts \in 0..MaxWorkerRestarts

RemoteInit ==
  /\ Worker!Init
  /\ bound = {} /\ outputs = {}
  /\ attempt = [e \in Remote |-> NoAttempt]
  /\ node = [e \in Remote |-> "none"]
  /\ request = [a \in Actor |-> Idle]
  /\ shown = [e \in Remote |-> {}] /\ lost = {}
  /\ cancels = 0 /\ faults = 0 /\ clientRestarts = 0 /\ workerRestarts = 0

-----------------------------------------------------------------------------
(* The worker's own steps *)

BeginJob(e) == /\ Worker!Begin(e)
               /\ UNCHANGED <<records, files, request, ghosts, bounds>>

WorkOnJob(e) == /\ Worker!Work(e)
                /\ UNCHANGED <<records, files, request, ghosts, bounds>>

FinishJob(e) == /\ Worker!Finish(e)
                /\ shown' = [shown EXCEPT ![e] = @ \cup {job'[e]}]
                /\ UNCHANGED <<records, files, request, lost, bounds>>

MarkJob(k) == /\ Worker!Mark(k)
              /\ shown' = [shown EXCEPT ![pending[k]] = @ \cup {"cancelled"}]
              /\ UNCHANGED <<records, files, request, lost, bounds>>

-----------------------------------------------------------------------------
(* Calls of the client *)

Doing(a, l) == request[a].at = l
Of(a) == request[a].of
Move(a, l) == request' = [request EXCEPT ![a].at = l]
Reply(a) == request' = [request EXCEPT ![a] = Idle]
Start(e, l) == [Idle EXCEPT !.at = l, !.of = e]
Upsert(e, r) == attempt' = [attempt EXCEPT ![e] = r]

(* An exception ends the call, but recovery catches it. *)
Raised(c) == IF c.listed = NoAttempt THEN Idle
             ELSE [Start(c.of, "interrupt") EXCEPT !.listed = c.listed]
Raise(a) == request' = [request EXCEPT ![a] = Raised(@)]

Fault == faults < MaxFaults /\ faults' = faults + 1
NoFault == UNCHANGED faults

(* A read of the job fails and raises. *)
ReadFails(a) == Fault /\ Raise(a)

(* new_id: an execution no call has used. *)
Fresh(e) == node[e] = "none"

(* run_contract up to the runner: the node is running before anything else. *)
RunContract(c, e) ==
  /\ Doing(c, "idle") /\ Fresh(e)
  /\ node' = [node EXCEPT ![e] = "running"]
  /\ request' = [request EXCEPT ![c] = Start(e, "post")]
  /\ UNCHANGED <<worker, attempt, files, ghosts, bounds>>

(* validate and POST /v1/jobs: refused or unreachable, accepted, or accepted *)
(* with the answer lost; each retry would be another execution.              *)
PostJob(c) ==
  /\ Doing(c, "post")
  /\ \/ /\ Reply(c) /\ NoFault
        /\ lost' = lost \cup {Of(c)}
        /\ UNCHANGED worker
     \/ /\ Worker!Accept(Of(c)) /\ Move(c, "bind")
        /\ NoFault /\ UNCHANGED lost
     \/ /\ Worker!Accept(Of(c)) /\ Reply(c) /\ Fault
        /\ lost' = lost \cup {Of(c)}
  /\ UNCHANGED <<records, files, shown, cancels, restartCounts>>

(* A mistake: the binding is kept in memory. *)
BindInMemory(c) ==
  /\ Doing(c, "bind") /\ Move(c, "insert")
  /\ UNCHANGED <<worker, records, files, ghosts, bounds>>

SaveBinding(c) ==
  /\ Doing(c, "bind") /\ Move(c, "insert")
  /\ bound' = bound \cup {Of(c)}
  /\ UNCHANGED <<worker, records, outputs, ghosts, bounds>>

(* The attempt's row; then the call waits itself, or leaves it to a watcher. *)
InsertAttempt(c) ==
  /\ Doing(c, "insert")
  /\ Upsert(Of(c), [NoAttempt EXCEPT !.status = "active"])
  /\ \/ Move(c, "wait")
     \/ request' = [request EXCEPT ![c] = Idle, ![Of(c)] = Start(Of(c), "wait")]
  /\ UNCHANGED <<worker, node, files, ghosts, bounds>>

BeginCancel == cancels < MaxCancels /\ cancels' = cancels + 1
Asking(c, then) == [c EXCEPT !.at = "ask", !.asks = cancels + 1, !.then = then]

(* wait_until_done: a final status is seen, or the job is cancelled at the  *)
(* deadline; finalize first looks at the status, which is the same poll.    *)
WaitUntilDone(a, l, then) ==
  /\ Doing(a, l)
  /\ \/ /\ Seen(job[Of(a)]) \in Ends
        /\ Move(a, IF l = "wait" THEN "read" ELSE then)
        /\ UNCHANGED <<cancels, faults>>
     \/ /\ Seen(job[Of(a)]) \notin Ends
        /\ BeginCancel /\ NoFault
        /\ request' = [request EXCEPT ![a] = Asking(@, then)]
     \/ ReadFails(a) /\ UNCHANGED cancels
  /\ UNCHANGED <<worker, records, files, ghosts, restartCounts>>

(* POST cancel: a job with a last word is left alone; else the worker is at *)
(* work on it, whether or not the answer will come.                         *)
AskWorker(a) ==
  LET e == Of(a)
      over == job[e] \in Worker!Final
  IN
  /\ Doing(a, "ask")
  /\ \/ /\ over /\ Move(a, request[a].then)
        /\ NoFault /\ UNCHANGED worker
     \/ /\ ~over /\ Worker!Ask(request[a].asks, e)
        /\ Move(a, "answer") /\ NoFault
     \/ ReadFails(a) /\ UNCHANGED worker
     \/ ~over /\ Worker!Ask(request[a].asks, e) /\ ReadFails(a)
  /\ UNCHANGED <<records, files, ghosts, cancels, restartCounts>>

CancelAnswered(a) ==
  /\ Doing(a, "answer")
  /\ \/ /\ pending[request[a].asks] = NoExecution
        /\ Move(a, request[a].then) /\ NoFault
     \/ ReadFails(a)
  /\ UNCHANGED <<worker, records, files, ghosts, cancels, restartCounts>>

(* _finalize_execution *)
ReadAttempt(a) ==
  /\ Doing(a, "read")
  /\ request' = [request EXCEPT ![a].copy = attempt[Of(a)], ![a].at = "live"]
  /\ UNCHANGED <<worker, records, files, ghosts, bounds>>

(* collect_result asks for the status once more. *)
CollectStatus(a) ==
  /\ Doing(a, "status")
  /\ \/ /\ request' = [request EXCEPT ![a].seen = Seen(job[Of(a)]),
                      ![a].at = IF job[Of(a)] = "completed"
                                THEN "download" ELSE "explain"]
        /\ NoFault
     \/ ReadFails(a)
  /\ UNCHANGED <<worker, records, files, ghosts, cancels, restartCounts>>

(* Another download of the same bundle writes the same file. *)
Overlapped(a) == \E b \in Actor \ {a} : Doing(b, "download") /\ Of(b) = Of(a)

(* _download_and_unpack: what fails is reported as a failed result, which   *)
(* may have left metrics.json behind.                                       *)
Download(a) ==
  LET e == Of(a) IN
  /\ Doing(a, "download")
  /\ \/ /\ outputs' = outputs \cup {e}
        /\ request' = [request EXCEPT ![a].metrics = TRUE, ![a].at = "store"]
        /\ NoFault
     \/ /\ outputs' \in {outputs, outputs \cup {e}}
        /\ request' = [request EXCEPT ![a].seen = "failed", ![a].at = "store"]
        /\ \/ Fault
           \/ Overlapped(a) /\ NoFault
  /\ UNCHANGED <<worker, records, bound, ghosts, cancels, restartCounts>>

(* get_result of a job that is not completed, with whatever files are here. *)
Explain(a) ==
  /\ Doing(a, "explain")
  /\ \/ /\ request' = [request EXCEPT ![a].metrics = Of(a) \in outputs, ![a].at = "store"]
        /\ NoFault
     \/ ReadFails(a)
  /\ UNCHANGED <<worker, records, files, ghosts, cancels, restartCounts>>

(* A mistake: whatever was collected is taken to hold metrics. *)
FinalizedAlways(c) == [status |-> c.seen, metrics |-> TRUE,
                       error |-> c.copy.error \/ c.seen # "completed"]

(* The copy read before, with what was collected. *)
Finalized(c) == [status |-> c.seen, metrics |-> c.metrics,
                 error |-> c.copy.error \/ c.seen # "completed"]

StoreAttempt(a) ==
  /\ Doing(a, "store") /\ Move(a, "node")
  /\ Upsert(Of(a), Finalized(request[a]))
  /\ UNCHANGED <<worker, node, files, ghosts, bounds>>

(* A mistake: the attempt's status is stored in the node as it is. *)
NodeStatusRaw(s) == s

NodeStatus(s) == CASE s = "completed" -> "succeeded"
                   [] s = "cancelled" -> "cancelled"
                   [] OTHER           -> "failed"

UpdateNode(a) ==
  /\ Doing(a, "node") /\ Reply(a)
  /\ node' = [node EXCEPT ![Of(a)] = NodeStatus(request[a].seen)]
  /\ UNCHANGED <<worker, attempt, files, ghosts, bounds>>

(* cancel_execution *)
CancelExecution(c, e) ==
  /\ Doing(c, "idle") /\ attempt[e] # NoAttempt
  /\ BeginCancel
  /\ request' = [request EXCEPT ![c] = Asking(Start(e, "ask"), "read")]
  /\ UNCHANGED <<worker, records, files, ghosts, faults, restartCounts>>

(* refresh_execution *)
RefreshExecution(c, e) ==
  /\ Doing(c, "idle") /\ attempt[e] # NoAttempt
  /\ request' = [request EXCEPT ![c] = [Start(e, "poll") EXCEPT !.copy = attempt[e]]]
  /\ UNCHANGED <<worker, records, files, ghosts, bounds>>

PollWorker(a) ==
  /\ Doing(a, "poll")
  /\ \/ /\ request' = [request EXCEPT ![a].seen = Seen(job[Of(a)]), ![a].at = "sync"]
        /\ NoFault
     \/ ReadFails(a)
  /\ UNCHANGED <<worker, records, files, ghosts, cancels, restartCounts>>

(* A mistake: an attempt that has metrics or an error is never looked at again. *)
UnfinalizedOnce(c) ==
  c.seen \in Ends /\ ~c.copy.metrics /\ ~c.copy.error

(* Whether the row, as it was read, lacks what its live status should bring. *)
Unfinalized(c) == \/ c.seen = "completed" /\ ~c.copy.metrics
                  \/ c.seen \in Ends \ {"completed"} /\ ~c.copy.error

SyncAttempt(a) ==
  LET c == request[a] IN
  /\ Doing(a, "sync")
  /\ Upsert(Of(a), [c.copy EXCEPT !.status = c.seen])
  /\ IF Unfinalized(c)
       THEN request' = [request EXCEPT ![a] = [Start(Of(a), "read")
                                           EXCEPT !.listed = c.listed]]
       ELSE Reply(a)
  /\ UNCHANGED <<worker, node, files, ghosts, bounds>>

(* RecoveryService: the active attempts are listed, then each is refreshed; *)
(* if that raises, what was listed is written back as interrupted.          *)
Recover(c, e) ==
  /\ Doing(c, "idle") /\ attempt[e].status = "active"
  /\ request' = [request EXCEPT ![c] = [Start(e, "reread") EXCEPT !.listed = attempt[e]]]
  /\ UNCHANGED <<worker, records, files, ghosts, bounds>>

RecoverRefresh(a) ==
  /\ Doing(a, "reread")
  /\ request' = [request EXCEPT ![a].copy = attempt[Of(a)], ![a].at = "poll"]
  /\ UNCHANGED <<worker, records, files, ghosts, bounds>>

MarkInterrupted(a) ==
  /\ Doing(a, "interrupt") /\ Reply(a)
  /\ Upsert(Of(a), [request[a].listed EXCEPT !.status = "interrupted", !.error = TRUE])
  /\ UNCHANGED <<worker, node, files, ghosts, bounds>>

CallStep(a) ==
  \/ PostJob(a) \/ SaveBinding(a) \/ InsertAttempt(a)
  \/ WaitUntilDone(a, "wait", "read") \/ WaitUntilDone(a, "live", "status")
  \/ AskWorker(a) \/ CancelAnswered(a)
  \/ ReadAttempt(a) \/ CollectStatus(a) \/ Download(a) \/ Explain(a)
  \/ StoreAttempt(a) \/ UpdateNode(a)
  \/ PollWorker(a) \/ SyncAttempt(a) \/ RecoverRefresh(a) \/ MarkInterrupted(a)

CallBegin(c, e) == \/ RunContract(c, e) \/ CancelExecution(c, e)
                   \/ RefreshExecution(c, e) \/ Recover(c, e)

-----------------------------------------------------------------------------
(* The client dies and comes back with its rows and files. *)
Submitting == {Of(a) : a \in {b \in Actor : request[b].at \in {"post", "bind", "insert"}}}

RestartClient ==
  /\ clientRestarts < MaxClientRestarts /\ clientRestarts' = clientRestarts + 1
  /\ request' = [a \in Actor |-> Idle]
  /\ lost' = lost \cup Submitting
  /\ UNCHANGED <<worker, records, files, shown, cancels, faults, workerRestarts>>

(* The worker does; cancel calls it was serving break off. *)
RestartWorker ==
  /\ workerRestarts < MaxWorkerRestarts /\ workerRestarts' = workerRestarts + 1
  /\ Worker!Restart
  /\ request' = [a \in Actor |->
                   IF Doing(a, "answer") /\ pending[request[a].asks] # NoExecution
                   THEN Raised(request[a]) ELSE request[a]]
  /\ UNCHANGED <<records, files, ghosts, cancels, faults, clientRestarts>>

RemoteNext ==
  \/ \E e \in Remote : BeginJob(e) \/ WorkOnJob(e) \/ FinishJob(e)
  \/ \E k \in CancelCall : MarkJob(k)
  \/ \E a \in Actor : CallStep(a)
  \/ \E e \in Remote, c \in Caller : CallBegin(c, e)
  \/ RestartClient \/ RestartWorker

RemoteSpec == RemoteInit /\ [][RemoteNext]_remoteVars

(* The worker ends what it begins (WorkerJob's StartedJobsEnd) and answers;  *)
(* calls are scheduled; somebody asks for every execution again and again.   *)
RemoteFairness ==
  /\ \A e \in Remote : WF_remoteVars(BeginJob(e)) /\ WF_remoteVars(FinishJob(e))
  /\ \A k \in CancelCall : WF_remoteVars(MarkJob(k))
  /\ \A a \in Actor : WF_remoteVars(CallStep(a))
  /\ \A e \in Remote : SF_remoteVars(\E c \in Caller : RefreshExecution(c, e))

RemoteFairSpec == RemoteSpec /\ RemoteFairness

-----------------------------------------------------------------------------
(* What rows and nodes say of a job's end the worker has said at some time,   *)
(* whatever copies were written back late: metrics and success come from a    *)
(* completed job, a missed deadline is the worker's and not the client's, a   *)
(* failure is the job's or its download's, and recovery gives up on a job     *)
(* only after a call has failed.                                              *)
RowsAreWorkers ==
  \A e \in Remote :
    /\ attempt[e].metrics \/ attempt[e].status = "completed" \/ node[e] = "succeeded"
         => "completed" \in shown[e]
    /\ attempt[e].status = "cancelled" \/ node[e] = "cancelled" => "cancelled" \in shown[e]
    /\ attempt[e].status = "timed_out" => "timed_out" \in shown[e]
    /\ attempt[e].status = "failed" => shown[e] \cap {"failed", "completed"} # {}
    /\ attempt[e].status = "interrupted" => faults + workerRestarts > 0

(* A job of the worker has a row here, or is about to get one, unless the    *)
(* answer to its submit was lost or the client died first; a row always has  *)
(* a binding, so polling never falls back on local disks and containers.     *)
JobsAccountedFor ==
  \A e \in Remote :
    /\ phase[e] # "none" => attempt[e] # NoAttempt \/ e \in lost \cup Submitting
    /\ attempt[e] # NoAttempt => e \in bound /\ phase[e] # "none"

(* Jobs and rows account for each other: every row tells of what the worker  *)
(* said, every job has a row, and nothing has a value out of its domain.     *)
Accounted == RemoteTypeOK /\ RowsAreWorkers /\ JobsAccountedFor

(* Once the worker has said its last word, refreshes repair whatever races,  *)
(* failed calls, early cancels and interruptions made of the row: it agrees  *)
(* with the worker for good, with the metrics of a completed job, and the    *)
(* error of any other.                                                       *)
RowsSettle ==
  \A e \in Remote :
    <>[](attempt[e] # NoAttempt /\ Seen(job[e]) \in Ends =>
           /\ attempt[e].status = Seen(job[e])
           /\ IF job[e] = "completed" THEN attempt[e].metrics ELSE attempt[e].error)
=============================================================================
