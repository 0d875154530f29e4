------------------------------ MODULE WorkerJob ------------------------------
(***************************************************************************)
(* worker/scientist_worker: the job service of a remote GPU worker.        *)
(*                                                                         *)
(* A submit call inserts a row of worker_jobs and starts a daemon thread   *)
(* that runs the job and writes the row from a record it keeps in memory.  *)
(* A cancel call reads the row, raises an in-memory flag and writes back   *)
(* the whole row it read.  Every database transaction and every test of    *)
(* the flag is a step; the service may restart between any two, which      *)
(* ends all threads and calls and forgets the flags.                       *)
(***************************************************************************)
EXTENDS Naturals, FiniteSets

CONSTANTS Job,          \* submit calls; each names the job_id it would create
          Canceller,    \* clients that call cancel
          Request, Execution,
          RequestOf,    \* request_id of a submit call
          ExecutionOf,  \* execution_id of a submit call
          MaxRestarts,  \* bound on service restarts
          NoRow, NoJob

ASSUME IdAssumption == /\ RequestOf \in [Job -> Request]
                       /\ ExecutionOf \in [Job -> Execution]
ASSUME RestartAssumption == MaxRestarts \in Nat
ASSUME NoJobAssumption == NoJob \notin Job

VARIABLES row,        \* worker_jobs
          record,     \* the record in the memory of the job's thread
          at,         \* where the job's thread is
          flag,       \* _cancel_flags
          container,  \* the job's Docker container
          call,       \* where each submit call is
          reply,      \* job_id a submit call returned
          cancelAt,   \* where each cancel call is
          copy,       \* [job, row] a cancel call read
          restarts

jobVars == <<row, record, at, flag, container>>
submitVars == <<call, reply>>
cancelVars == <<cancelAt, copy>>
vars == <<jobVars, submitVars, cancelVars, restarts>>

-----------------------------------------------------------------------------
(* models.py: JobStatus and WORKER_TRANSITIONS *)
Status == {"received", "validating", "queued", "preparing", "running",
           "collecting", "completed", "validation_failed", "prepare_failed",
           "failed", "timed_out", "cancelled", "cancel_requested",
           "artifact_failed"}

Terminal == {"completed", "failed", "cancelled", "timed_out",
             "validation_failed", "prepare_failed", "artifact_failed"}

Allowed(s) ==
  CASE s = "received"         -> {"validating", "cancelled"}
    [] s = "validating"       -> {"queued", "validation_failed", "cancelled"}
    [] s = "queued"           -> {"preparing", "cancelled"}
    [] s = "preparing"        -> {"running", "prepare_failed", "cancelled"}
    [] s = "running"          -> {"collecting", "failed", "timed_out",
                                  "cancelled", "cancel_requested"}
    [] s = "cancel_requested" -> {"cancelled", "collecting"}
    [] s = "collecting"       -> {"completed", "artifact_failed"}
    [] OTHER                  -> {}

(* workflow.py: transition *)
CanMove(s, target) == target \in Allowed(s) \cup {s}

(* A row: its status, and whether result_json is set. *)
Row == [status: Status, result: BOOLEAN]
Blank == [status |-> "received", result |-> FALSE]

ASSUME NoRowAssumption == NoRow \notin Row

ThreadLabel == {"none", "load", "validate", "check1", "queue", "prepare",
                "check2", "run", "mode", "mock", "docker", "wait", "exited",
                "record", "check3", "collect", "complete", "timeout",
                "gpu", "abort", "end", "lost"}
Ended == {"none", "end", "lost"}

SubmitLabel == {"idle", "insert", "again", "spawn", "done", "refused", "lost"}

TypeOK ==
  /\ row \in [Job -> Row \cup {NoRow}]
  /\ record \in [Job -> Row]
  /\ at \in [Job -> ThreadLabel]
  /\ flag \in [Job -> BOOLEAN]
  /\ container \in [Job -> {"none", "running", "exited", "killed", "removed"}]
  /\ call \in [Job -> SubmitLabel]
  /\ reply \in [Job -> Job \cup {NoJob}]
  /\ cancelAt \in [Canceller -> {"idle", "flag", "write"}]
  /\ copy \in [Canceller -> [job: Job \cup {NoJob}, row: Row]]
  /\ restarts \in 0..MaxRestarts

Init ==
  /\ row = [j \in Job |-> NoRow]
  /\ record = [j \in Job |-> Blank]
  /\ at = [j \in Job |-> "none"]
  /\ flag = [j \in Job |-> FALSE]
  /\ container = [j \in Job |-> "none"]
  /\ call = [j \in Job |-> "idle"]
  /\ reply = [j \in Job |-> NoJob]
  /\ cancelAt = [c \in Canceller |-> "idle"]
  /\ copy = [c \in Canceller |-> [job |-> NoJob, row |-> Blank]]
  /\ restarts = 0

-----------------------------------------------------------------------------
(* submit *)

Rows == {j \in Job : row[j] # NoRow}
SameRequest(j) == {i \in Rows : RequestOf[i] = RequestOf[j]}

Return(j, i) ==
  /\ call' = [call EXCEPT ![j] = "done"]
  /\ reply' = [reply EXCEPT ![j] = i]

(* get_by_request_id, then validate_submit_payload. *)
Lookup(j) ==
  /\ call[j] = "idle"
  /\ \/ \E i \in SameRequest(j) : Return(j, i)
     \/ /\ SameRequest(j) = {}
        /\ \E to \in {"insert", "refused"} : call' = [call EXCEPT ![j] = to]
        /\ UNCHANGED reply
  /\ UNCHANGED <<jobVars, cancelVars, restarts>>

(* A mistake: a table without the UNIQUE constraints. *)
ConflictsNever(j) == {}

(* INSERT under UNIQUE(request_id) and UNIQUE(execution_id). *)
Conflicts(j) ==
  SameRequest(j) \cup {i \in Rows : ExecutionOf[i] = ExecutionOf[j]}

Insert(j) ==
  /\ call[j] = "insert"
  /\ IF Conflicts(j) = {}
     THEN /\ row' = [row EXCEPT ![j] = Blank]
          /\ call' = [call EXCEPT ![j] = "spawn"]
     ELSE /\ call' = [call EXCEPT ![j] = "again"]
          /\ UNCHANGED row
  /\ UNCHANGED <<record, at, flag, container, reply, cancelVars, restarts>>

(* The insert failed: another submit of the request won, or SecurityError. *)
LookupAgain(j) ==
  /\ call[j] = "again"
  /\ \/ \E i \in SameRequest(j) : Return(j, i)
     \/ /\ SameRequest(j) = {}
        /\ call' = [call EXCEPT ![j] = "refused"]
        /\ UNCHANGED reply
  /\ UNCHANGED <<jobVars, cancelVars, restarts>>

(* The flag is cleared and the thread started after the insert commits. *)
Spawn(j) ==
  /\ call[j] = "spawn"
  /\ flag' = [flag EXCEPT ![j] = FALSE]
  /\ at' = [at EXCEPT ![j] = "load"]
  /\ Return(j, j)
  /\ UNCHANGED <<row, record, container, cancelVars, restarts>>

Submit(j) == Lookup(j) \/ Insert(j) \/ LookupAgain(j) \/ Spawn(j)

-----------------------------------------------------------------------------
(* _run_job *)

Goto(j, to) == at' = [at EXCEPT ![j] = to]

(* repo.update(record): the whole row is overwritten. *)
Update(j, r) ==
  /\ record' = [record EXCEPT ![j] = r]
  /\ row' = [row EXCEPT ![j] = r]

Quiet == UNCHANGED <<flag, container, submitVars, cancelVars, restarts>>

Load(j) ==
  /\ at[j] = "load" /\ Goto(j, "validate")
  /\ record' = [record EXCEPT ![j] = row[j]]
  /\ UNCHANGED row /\ Quiet

(* _set_status: InvalidWorkerTransition goes to the exception handler. *)
SetStatus(j, from, target, to) ==
  /\ at[j] = from
  /\ IF CanMove(record[j].status, target)
     THEN Update(j, [record[j] EXCEPT !.status = target]) /\ Goto(j, to)
     ELSE Goto(j, "abort") /\ UNCHANGED <<row, record>>
  /\ Quiet

(* A mistake: the flag is tested and ignored. *)
CheckFlagIgnored(j, from, to) ==
  /\ at[j] = from /\ Goto(j, to)
  /\ UNCHANGED <<row, record>> /\ Quiet

(* A test of _cancel_flags; raises RuntimeError("cancelled"). *)
CheckFlag(j, from, to) ==
  /\ at[j] = from
  /\ Goto(j, IF flag[j] THEN "abort" ELSE to)
  /\ UNCHANGED <<row, record>> /\ Quiet

(* _resolve_executor_mode *)
ResolveMode(j) ==
  /\ at[j] = "mode"
  /\ \E mode \in {"mock", "docker"} : Goto(j, mode)
  /\ UNCHANGED <<row, record>> /\ Quiet

(* run_mock_job polls the flag between its stages. *)
RunMock(j) ==
  /\ at[j] = "mock"
  /\ \/ Goto(j, "check3")
     \/ flag[j] /\ Goto(j, "abort")
  /\ UNCHANGED <<row, record>> /\ Quiet

(* DockerExecutor.run up to containers.run: capability, image, GPU, code and
   dataset checks may fail, then the flag is tested and the container run. *)
StartContainer(j) ==
  /\ at[j] = "docker"
  /\ \/ /\ ~flag[j] /\ Goto(j, "wait")
        /\ container' = [container EXCEPT ![j] = "running"]
     \/ /\ flag[j] /\ Goto(j, "abort") /\ UNCHANGED container
     \/ /\ \E to \in {"gpu", "abort"} : Goto(j, to)
        /\ UNCHANGED container
  /\ UNCHANGED <<row, record, flag, submitVars, cancelVars, restarts>>

(* container.kill: an exception of it is swallowed. *)
Kill(j) ==
  \E c \in {"killed", container[j]} : container' = [container EXCEPT ![j] = c]

(* _wait_container: cancel, exit, deadline, or an error of the Docker API. *)
WaitContainer(j) ==
  /\ at[j] = "wait"
  /\ \/ flag[j] /\ Kill(j) /\ Goto(j, "abort")
     \/ container[j] = "exited" /\ Goto(j, "exited") /\ UNCHANGED container
     \/ container[j] = "running" /\ Kill(j) /\ Goto(j, "timeout")
     \/ Goto(j, "abort") /\ UNCHANGED container
  /\ UNCHANGED <<row, record, flag, submitVars, cancelVars, restarts>>

(* container.remove may fail silently; a nonzero exit code or an error of
   the packaging raises; otherwise the result is returned. *)
LeaveContainer(j) ==
  /\ at[j] = "exited"
  /\ \E c \in {"removed", container[j]} : container' = [container EXCEPT ![j] = c]
  /\ \E to \in {"record", "abort"} : Goto(j, to)
  /\ UNCHANGED <<row, record, flag, submitVars, cancelVars, restarts>>

(* repo.update with the container id, status still running. *)
RecordContainer(j) ==
  /\ at[j] = "record" /\ Goto(j, "check3")
  /\ Update(j, record[j]) /\ Quiet

(* A mistake: final writes go through transition(), whose exception ends the
   thread. *)
FinishChecked(j, from, status) ==
  /\ at[j] = from /\ Goto(j, "end")
  /\ IF CanMove(record[j].status, status)
     THEN Update(j, [record[j] EXCEPT !.status = status])
     ELSE UNCHANGED <<row, record>>
  /\ Quiet

(* DockerExecutorError timed_out and gpu_unavailable, and the handler of
   every other exception, write the record without transition(). *)
Finish(j, from, status) ==
  /\ at[j] = from /\ Goto(j, "end")
  /\ Update(j, [record[j] EXCEPT !.status = status]) /\ Quiet

(* result_json is set between the collecting and the completed write. *)
Complete(j) ==
  /\ at[j] = "complete" /\ Goto(j, "end")
  /\ Update(j, [status |-> "completed", result |-> TRUE]) /\ Quiet

RunJob(j) ==
  \/ Load(j)
  \/ SetStatus(j, "validate", "validating", "check1")
  \/ CheckFlag(j, "check1", "queue")
  \/ SetStatus(j, "queue", "queued", "prepare")
  \/ SetStatus(j, "prepare", "preparing", "check2")
  \/ CheckFlag(j, "check2", "run")
  \/ SetStatus(j, "run", "running", "mode")
  \/ ResolveMode(j) \/ RunMock(j)
  \/ StartContainer(j) \/ WaitContainer(j) \/ LeaveContainer(j)
  \/ RecordContainer(j)
  \/ CheckFlag(j, "check3", "collect")
  \/ SetStatus(j, "collect", "collecting", "complete")
  \/ Complete(j)
  \/ Finish(j, "timeout", "timed_out")
  \/ Finish(j, "gpu", "failed")
  \/ Finish(j, "abort", IF flag[j] THEN "cancelled" ELSE "failed")

(* The container ends by itself. *)
ContainerExit(j) ==
  /\ container[j] = "running"
  /\ container' = [container EXCEPT ![j] = "exited"]
  /\ UNCHANGED <<row, record, at, flag, submitVars, cancelVars, restarts>>

-----------------------------------------------------------------------------
(* cancel *)

(* A terminal row answers cancelled = False; the set omits the three states
   *_failed of WORKER_TRANSITIONS. *)
CancelRead(c, j) ==
  /\ cancelAt[c] = "idle"
  /\ row[j] # NoRow
  /\ row[j].status \notin {"completed", "failed", "cancelled", "timed_out"}
  /\ copy' = [copy EXCEPT ![c] = [job |-> j, row |-> row[j]]]
  /\ cancelAt' = [cancelAt EXCEPT ![c] = "flag"]
  /\ UNCHANGED <<jobVars, submitVars, restarts>>

CancelFlag(c) ==
  /\ cancelAt[c] = "flag"
  /\ flag' = [flag EXCEPT ![copy[c].job] = TRUE]
  /\ cancelAt' = [cancelAt EXCEPT ![c] = "write"]
  /\ UNCHANGED <<row, record, at, container, submitVars, copy, restarts>>

(* A mistake: the copy goes back as cancelled, while the thread runs on. *)
CancelWriteFinal(c) ==
  /\ cancelAt[c] = "write"
  /\ row' = [row EXCEPT ![copy[c].job] = [copy[c].row EXCEPT !.status = "cancelled"]]
  /\ cancelAt' = [cancelAt EXCEPT ![c] = "idle"]
  /\ UNCHANGED <<record, at, flag, container, submitVars, copy, restarts>>

(* The copy goes back with status cancel_requested, allowed or not, and with
   every other column as it was read. *)
CancelWrite(c) ==
  /\ cancelAt[c] = "write"
  /\ row' = [row EXCEPT ![copy[c].job] =
               [copy[c].row EXCEPT !.status = "cancel_requested"]]
  /\ cancelAt' = [cancelAt EXCEPT ![c] = "idle"]
  /\ UNCHANGED <<record, at, flag, container, submitVars, copy, restarts>>

Cancel(c) == (\E j \in Job : CancelRead(c, j)) \/ CancelFlag(c) \/ CancelWrite(c)

-----------------------------------------------------------------------------
(* The process restarts: rows and containers stay, nothing resumes a job. *)
Restart ==
  /\ restarts < MaxRestarts
  /\ restarts' = restarts + 1
  /\ at' = [j \in Job |-> IF at[j] \in Ended THEN at[j] ELSE "lost"]
  /\ flag' = [j \in Job |-> FALSE]
  /\ call' = [j \in Job |-> IF call[j] \in {"insert", "again", "spawn"}
                            THEN "lost" ELSE call[j]]
  /\ cancelAt' = [c \in Canceller |-> "idle"]
  /\ UNCHANGED <<row, record, container, reply, copy>>

Next ==
  \/ \E j \in Job : Submit(j) \/ RunJob(j) \/ ContainerExit(j)
  \/ \E c \in Canceller : Cancel(c)
  \/ Restart

Spec == Init /\ [][Next]_vars

(* A started call or thread is scheduled until it ends; _wait_container has
   a deadline, so the wait ends whatever the container does. *)
Fairness == \A j \in Job : /\ WF_vars(Insert(j) \/ LookupAgain(j) \/ Spawn(j))
                           /\ WF_vars(RunJob(j))

FairSpec == Spec /\ Fairness

-----------------------------------------------------------------------------
(* However submits of one request race, and across restarts, they create at
   most one job and every answer names it; execution ids stay unique. *)
OneJobPerRequest ==
  /\ \A i, j \in Rows :
       RequestOf[i] = RequestOf[j] \/ ExecutionOf[i] = ExecutionOf[j] => i = j
  /\ \A j \in Job : reply[j] # NoJob => reply[j] \in SameRequest(j)

(* The thread has taken its row into memory. *)
Loaded(j) == at[j] \notin {"none", "load", "lost"}

(* The row of a job whose thread has loaded it shows what the thread last
   wrote or a cancel request, never an older state. *)
RowIsThreadsOrCancel ==
  \A j \in Job : Loaded(j) =>
    /\ row[j] # NoRow
    /\ row[j].status \in {record[j].status, "cancel_requested"}

(* get_result and artifacts: result_json is set exactly when the status says
   completed, also after a cancel wrote back a row it read earlier. *)
ResultIffCompleted ==
  \A j \in Rows : row[j].result <=> row[j].status = "completed"

(* A Docker job is completed only if its container ended by itself: not when
   it was killed, timed out or is still running. *)
CompletedRanToExit ==
  \A j \in Rows : row[j].status = "completed" =>
    container[j] \in {"none", "exited", "removed"}

(* What a client reads of a job can be relied on: one job stands for its     *)
(* request, its row is the thread's but for a cancel, a result is there iff  *)
(* it is completed, and then its container ended by itself.                  *)
RowsSound ==
  /\ OneJobPerRequest
  /\ RowIsThreadsOrCancel
  /\ ResultIffCompleted
  /\ CompletedRanToExit

(* A cancel whose flag is up while the thread has not passed its last test
   sticks: the job is never reported completed, restarts included. *)
CancelInTimeSticks ==
  \A j \in Job :
    [](flag[j] /\ at[j] \in ThreadLabel \ (Ended \cup {"collect", "complete"})
        => [](row[j] # NoRow /\ row[j].status # "completed"))

(* Unless the service restarts, a started job reaches a terminal state,
   whatever the cancels and the container do. *)
StartedJobsEnd ==
  \A j \in Job :
    at[j] = "load" ~>
      \/ row[j] # NoRow /\ row[j].status \in Terminal
      \/ restarts > 0

-----------------------------------------------------------------------------
(* JobService, seen through the rows, the threads and the cancel calls. *)

Shown(r) ==
  IF r = NoRow THEN "none"
  ELSE CASE r.status = "cancel_requested" -> "cancelling"
         [] r.status \in {"completed", "failed", "cancelled", "timed_out"} -> r.status
         [] OTHER -> "open"

PhaseOf(j) == IF row[j] = NoRow THEN "none"
              ELSE IF call[j] = "spawn" THEN "accepted"
              ELSE IF at[j] \in Ended THEN "over" ELSE "running"

PendingOn(c) == IF cancelAt[c] = "idle" THEN NoJob ELSE copy[c].job

Promised == INSTANCE JobService WITH
  job     <- [j \in Job |-> Shown(row[j])],
  phase   <- [j \in Job |-> PhaseOf(j)],
  asked   <- {j \in Job : flag[j] \/ \E c \in Canceller : PendingOn(c) = j},
  pending <- [c \in Canceller |-> PendingOn(c)]

(* What the clients of the worker are promised, and RemoteExecution builds   *)
(* on: every step of the service is a step of JobService or invisible to it. *)
KeepsPromise == Promised!Spec

-----------------------------------------------------------------------------
(* The inductive invariant: what each point of a job's life entails. *)

(* A job's thread is started only after its row was inserted. *)
StartedHasRow ==
  \A j \in Job :
    /\ at[j] # "none" \/ call[j] = "spawn" => row[j] # NoRow
    /\ at[j] # "none" => call[j] = "done"

(* Only the completed write, the thread's last, ever sets a result. *)
RecordInv ==
  \A j \in Job :
    /\ Loaded(j) => (record[j].result <=> record[j].status = "completed")
    /\ at[j] # "end" =>
         /\ record[j].status # "completed"
         /\ row[j] # NoRow => row[j].status # "completed"

(* A cancel in flight holds a copy of some row without a result. *)
CopyInv ==
  \A c \in Canceller : cancelAt[c] # "idle" =>
    copy[c].job \in Rows /\ ~copy[c].row.result

(* The container's state at the points of the thread that rely on it. *)
ContainerInv ==
  \A j \in Job :
    /\ at[j] \in {"none", "load", "validate", "check1", "queue", "prepare",
                  "check2", "run", "mode", "mock", "docker", "gpu"} =>
         container[j] = "none"
    /\ at[j] = "wait" => container[j] \in {"running", "exited"}
    /\ at[j] = "exited" => container[j] = "exited"
    /\ at[j] \in {"record", "check3", "collect", "complete"} =>
         container[j] \in {"none", "exited", "removed"}
=============================================================================
