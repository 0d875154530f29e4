--------------------------- MODULE ExecutionProofs ---------------------------
(* Proofs about executions (Execution), for every number of executions,    *)
(* nodes, request threads, cancels and restarts.                           *)
EXTENDS Execution, TLAPS

-----------------------------------------------------------------------------
(* What a step does to the records of jobs and calls *)

Records == job \in [Execution -> Job] /\ call \in [Actor -> Call]

JobTo(e, k, s, i, r) ==
  /\ \A d \in Execution \ {e} : job'[d] = job[d]
  /\ job'[e].known = k /\ job'[e].status = s /\ job'[e].id = i /\ job'[e].error = r

CallTo(a, l, e, c, s) ==
  /\ \A b \in Actor \ {a} : call'[b] = call[b]
  /\ call'[a].at = l /\ call'[a].of = e /\ call'[a].copy = c /\ call'[a].seen = s

LEMMA Fixed ==
  /\ NoJob \in Job /\ NoRow \in Row
  /\ Idle \in Call /\ Idle.at = "idle" /\ Idle.copy = NoRow /\ Idle.seen = "absent"
  /\ ~NoRow.metrics /\ NoRow.status = "absent" /\ ~NoJob.known
<1>1. NoJob \in Job /\ NoRow \in Row /\ ~NoRow.metrics /\ NoRow.status = "absent"
      /\ ~NoJob.known
  BY DEF NoJob, Job, NoRow, Row, Active
<1>2. (CHOOSE e \in Execution : TRUE) \in Execution
  BY ExecutionAssumption
<1>3. QED BY <1>1, <1>2 DEF Idle, Call, CallLabel

LEMMA ExecutionsAct == Execution \subseteq Actor /\ Caller \subseteq Actor
BY DEF Actor

LEMMA JobFields ==
  ASSUME NEW j \in Job
  PROVE /\ j.known \in BOOLEAN /\ j.status \in Active \cup Terminal
        /\ j.id \in BOOLEAN /\ j.error \in BOOLEAN
BY DEF Job

LEMMA RowFields ==
  ASSUME NEW r \in Row
  PROVE r.status \in Status \cup {"absent"} /\ r.metrics \in BOOLEAN /\ r.error \in BOOLEAN
BY DEF Row

LEMMA CallFields ==
  ASSUME NEW c \in Call
  PROVE /\ c.at \in CallLabel /\ c.of \in Execution /\ c.copy \in Row
        /\ c.seen \in Status \cup {"absent"} /\ c.then \in {"read", "collect"}
BY DEF Call

LEMMA JobMoves ==
  ASSUME Records, NEW e \in Execution, NEW s \in Active \cup Terminal
  PROVE /\ SetStatus(e, s) => /\ job' \in [Execution -> Job]
                              /\ JobTo(e, job[e].known, s, job[e].id, job[e].error)
        /\ SetError(e) => /\ job' \in [Execution -> Job]
                          /\ JobTo(e, job[e].known, job[e].status, job[e].id, TRUE)
        /\ job' = [job EXCEPT ![e].id = TRUE] =>
             /\ job' \in [Execution -> Job]
             /\ JobTo(e, job[e].known, job[e].status, TRUE, job[e].error)
        /\ job' = [job EXCEPT ![e].status = s, ![e].error = TRUE] =>
             /\ job' \in [Execution -> Job]
             /\ JobTo(e, job[e].known, s, job[e].id, TRUE)
        /\ job' = [job EXCEPT ![e] = [NoJob EXCEPT !.known = TRUE]] =>
             /\ job' \in [Execution -> Job]
             /\ JobTo(e, TRUE, "queued", FALSE, FALSE)
<1> USE DEF Records, JobTo
<1>1. SetStatus(e, s) => /\ job' \in [Execution -> Job]
                         /\ JobTo(e, job[e].known, s, job[e].id, job[e].error)
  BY DEF SetStatus, Job
<1>2. SetError(e) => /\ job' \in [Execution -> Job]
                     /\ JobTo(e, job[e].known, job[e].status, job[e].id, TRUE)
  BY DEF SetError, Job
<1>3. job' = [job EXCEPT ![e].id = TRUE] =>
        /\ job' \in [Execution -> Job]
        /\ JobTo(e, job[e].known, job[e].status, TRUE, job[e].error)
  BY DEF Job
<1>4. job' = [job EXCEPT ![e].status = s, ![e].error = TRUE] =>
        /\ job' \in [Execution -> Job]
        /\ JobTo(e, job[e].known, s, job[e].id, TRUE)
  BY ZenonT(30) DEF Job
<1>5. job' = [job EXCEPT ![e] = [NoJob EXCEPT !.known = TRUE]] =>
        /\ job' \in [Execution -> Job]
        /\ JobTo(e, TRUE, "queued", FALSE, FALSE)
  BY DEF Job, NoJob, Active
<1>6. QED BY <1>1, <1>2, <1>3, <1>4, <1>5

LEMMA CallMoves ==
  ASSUME Records, NEW a \in Actor, NEW l \in CallLabel, NEW e \in Execution
  PROVE /\ Move(a, l) =>
             /\ call' \in [Actor -> Call]
             /\ CallTo(a, l, Of(a), call[a].copy, call[a].seen)
        /\ Return(a) =>
             /\ call' \in [Actor -> Call]
             /\ CallTo(a, "idle", Idle.of, NoRow, "absent")
        /\ Begin(a, e, l) =>
             /\ call' \in [Actor -> Call]
             /\ CallTo(a, l, e, NoRow, "absent")
        /\ BeginWithRow(a, e, l) /\ row[e] \in Row =>
             /\ call' \in [Actor -> Call]
             /\ CallTo(a, l, e, row[e], "absent")
        /\ \A t \in {"read", "collect"} : call' = [call EXCEPT ![a].at = l, ![a].then = t] =>
             /\ call' \in [Actor -> Call]
             /\ CallTo(a, l, Of(a), call[a].copy, call[a].seen)
        /\ \A s \in Status \cup {"absent"} : call' = [call EXCEPT ![a].seen = s, ![a].at = l] =>
             /\ call' \in [Actor -> Call]
             /\ CallTo(a, l, Of(a), call[a].copy, s)
        /\ \A r \in Row : call' = [call EXCEPT ![a].copy = r, ![a].at = l]
                          \/ call' = [call EXCEPT ![a].at = l, ![a].copy = r] =>
             /\ call' \in [Actor -> Call]
             /\ CallTo(a, l, Of(a), r, call[a].seen)
<1> USE DEF Records, CallTo, Of
<1>1. Move(a, l) => /\ call' \in [Actor -> Call]
                    /\ CallTo(a, l, Of(a), call[a].copy, call[a].seen)
  BY DEF Move, Call
<1>2. Return(a) => /\ call' \in [Actor -> Call]
                   /\ CallTo(a, "idle", Idle.of, NoRow, "absent")
  BY Fixed DEF Return
<1>3. Begin(a, e, l) => /\ call' \in [Actor -> Call]
                        /\ CallTo(a, l, e, NoRow, "absent")
  <2>1. /\ [Idle EXCEPT !.at = l, !.of = e] \in Call
        /\ [Idle EXCEPT !.at = l, !.of = e].at = l /\ [Idle EXCEPT !.at = l, !.of = e].of = e
        /\ [Idle EXCEPT !.at = l, !.of = e].copy = NoRow
        /\ [Idle EXCEPT !.at = l, !.of = e].seen = "absent"
    BY Fixed DEF Call
  <2>2. QED BY <2>1 DEF Begin
<1>4. ASSUME row[e] \in Row
      PROVE BeginWithRow(a, e, l) => /\ call' \in [Actor -> Call]
                                     /\ CallTo(a, l, e, row[e], "absent")
  <2> DEFINE c == [Idle EXCEPT !.at = l, !.of = e, !.copy = row[e]]
  <2>1. c \in Call /\ c.at = l /\ c.of = e /\ c.copy = row[e] /\ c.seen = "absent"
    BY <1>4, Fixed DEF Call
  <2>2. QED BY <2>1 DEF BeginWithRow
<1>5. ASSUME NEW t \in {"read", "collect"}, call' = [call EXCEPT ![a].at = l, ![a].then = t]
      PROVE /\ call' \in [Actor -> Call]
            /\ CallTo(a, l, Of(a), call[a].copy, call[a].seen)
  BY <1>5 DEF Call
<1>6. ASSUME NEW s \in Status \cup {"absent"}, call' = [call EXCEPT ![a].seen = s, ![a].at = l]
      PROVE /\ call' \in [Actor -> Call]
            /\ CallTo(a, l, Of(a), call[a].copy, s)
  BY <1>6 DEF Call
<1>7. ASSUME NEW r \in Row,
             \/ call' = [call EXCEPT ![a].copy = r, ![a].at = l]
             \/ call' = [call EXCEPT ![a].at = l, ![a].copy = r]
      PROVE /\ call' \in [Actor -> Call]
            /\ CallTo(a, l, Of(a), r, call[a].seen)
  BY <1>7 DEF Call
<1>8. QED BY <1>1, <1>2, <1>3, <1>4, <1>5, <1>6, <1>7

-----------------------------------------------------------------------------
(* Types *)

(* A thread that saves a return code has seen the container exit. *)
SaveInv == \A e \in Execution : At(e, "save") => container[e] \in Exited

TypeInv == TypeOK /\ SaveInv

LEMMA TypeRecords == ASSUME TypeOK PROVE Records
BY DEF TypeOK, Records

LEMMA ThreadType ==
  ASSUME TypeInv, NEW e \in Execution, Thread(e),
         UNCHANGED <<outputs, rowVars, tracked, call, ghosts, bounds>>
  PROVE TypeInv'
<1> DEFINE Rest == UNCHANGED <<outputs, row, node, tracked, call, heeded, disturbed,
                               restarts, cancels>>
<1>1. Rest
  BY DEF rowVars, ghosts, bounds
<1>2. Records
  BY TypeRecords DEF TypeInv
<1> USE <1>1, <1>2 DEF TypeInv, TypeOK, SaveInv, At, Go, ThreadLabel
<1>3. CASE Prepare(e)
  <2>1. job' \in [Execution -> Job]
    BY <1>3, JobMoves DEF Prepare, Active
  <2>2. QED BY <1>3, <2>1 DEF Prepare
<1>4. CASE Plan(e)
  <2>1. job' \in [Execution -> Job]
    BY <1>4, JobMoves DEF Plan, Active
  <2>2. QED BY <1>4, <2>1 DEF Plan, Conclude, Terminal
<1>5. CASE RunContainer(e)
  BY <1>5 DEF RunContainer, Conclude, Terminal
<1>6. CASE Attach(e)
  <2>1. job' \in [Execution -> Job]
    BY <1>6, JobMoves, "running" \in Active DEF Attach, Active
  <2>2. QED BY <1>6, <2>1 DEF Attach
<1>7. CASE WaitContainer(e)
  BY <1>7 DEF WaitContainer, Conclude, Stops, Exited, Terminal
<1>8. CASE SaveResult(e)
  <2>1. container[e] \in {"ok", "bad"}
    BY <1>8 DEF SaveResult, SaveInv, Exited
  <2>2. QED BY <1>8, <2>1 DEF SaveResult, Conclude, Terminal
<1>9. CASE Decide(e)
  BY <1>9 DEF Decide, Conclude, Terminal
<1>10. CASE WriteStatus(e)
  <2>1. verdict[e] \in Active \cup Terminal
    OBVIOUS
  <2>2. job' \in [Execution -> Job]
    BY <1>10, <2>1, JobMoves DEF WriteStatus
  <2>3. QED BY <1>10, <2>2 DEF WriteStatus, Active
<1>11. CASE WriteError(e)
  <2>1. job' \in [Execution -> Job]
    BY <1>11, JobMoves, "queued" \in Active DEF WriteError, Active
  <2>2. QED BY <1>11, <2>1 DEF WriteError
<1>12. QED BY <1>3, <1>4, <1>5, <1>6, <1>7, <1>8, <1>9, <1>10, <1>11 DEF Thread

LEMMA ContainerType ==
  ASSUME TypeInv, NEW e \in Execution, RemoveContainer(e) \/ WriteOutputs(e) \/ Exit(e)
  PROVE TypeInv'
<1> USE DEF TypeInv, TypeOK, SaveInv, At, rowVars, ghosts, bounds
<1>1. CASE RemoveContainer(e)
  BY <1>1 DEF RemoveContainer, Go, ThreadLabel
<1>2. CASE WriteOutputs(e)
  BY <1>2 DEF WriteOutputs
<1>3. CASE Exit(e)
  BY <1>3 DEF Exit, Stops, Exited
<1>4. QED BY <1>1, <1>2, <1>3

LEMMA SubmitType ==
  ASSUME TypeInv, NEW a \in Actor, SubmitJob(a) \/ Track(a) \/ InsertAttempt(a)
  PROVE TypeInv'
<1>1. Records /\ Of(a) \in Execution
  BY TypeRecords, CallFields DEF TypeInv, TypeOK, Of
<1> USE <1>1 DEF TypeInv, TypeOK, SaveInv, At, runnerVars, rowVars, ghosts, bounds
<1>2. CASE SubmitJob(a)
  <2>1. call' \in [Actor -> Call]
    BY <1>2, CallMoves DEF SubmitJob, CallLabel
  <2>2. job' \in [Execution -> Job]
    BY <1>2, JobMoves, "queued" \in Active DEF SubmitJob, Active
  <2>3. QED BY <1>2, <2>1, <2>2 DEF SubmitJob, Go, ThreadLabel
<1>3. CASE Track(a)
  <2>1. call' \in [Actor -> Call]
    BY <1>3, CallMoves DEF Track, CallLabel
  <2>2. QED BY <1>3, <2>1 DEF Track
<1>4. CASE InsertAttempt(a)
  <2>1. [NoRow EXCEPT !.status = "queued"] \in Row
    BY DEF NoRow, Row, Status, Active
  <2>2. [Idle EXCEPT !.at = "wait", !.of = Of(a)] \in Call
    BY Fixed DEF Call, CallLabel
  <2>3. call' \in [Actor -> Call]
    <3>1. CASE Move(a, "wait")
      BY <3>1, CallMoves DEF CallLabel
    <3>2. CASE call' = [call EXCEPT ![a] = Idle,
                          ![Of(a)] = [Idle EXCEPT !.at = "wait", !.of = Of(a)]]
      BY <3>2, <2>2, Fixed
    <3>3. QED BY <1>4, <3>1, <3>2 DEF InsertAttempt
  <2>4. QED BY <1>4, <2>1, <2>3 DEF InsertAttempt, Upsert
<1>5. QED BY <1>2, <1>3, <1>4

LEMMA CancelType ==
  ASSUME TypeInv, NEW a \in Actor,
         \/ WaitUntilDone(a, "wait", "read") \/ WaitUntilDone(a, "live", "collect")
         \/ StopContainer(a) \/ MarkCancelled(a) \/ GiveReason(a)
  PROVE TypeInv'
<1>1. Records /\ Of(a) \in Execution /\ call[a].then \in {"read", "collect"}
  BY TypeRecords, CallFields DEF TypeInv, TypeOK, Of
<1> USE <1>1 DEF TypeInv, TypeOK, SaveInv, At, runnerVars, rowVars, ghosts, bounds
<1>2. ASSUME NEW l \in {"wait", "live"}, NEW t \in {"read", "collect"}, WaitUntilDone(a, l, t)
      PROVE TypeInv'
  <2>1. call' \in [Actor -> Call]
    <3>1. {"read", "collect", "stop"} \subseteq CallLabel
      BY DEF CallLabel
    <3>2. Move(a, t) => call' \in [Actor -> Call]
      BY <3>1, CallMoves
    <3>3. call' = [call EXCEPT ![a].at = "stop", ![a].then = t] => call' \in [Actor -> Call]
      BY <3>1, CallMoves
    <3>4. QED BY <1>2, <3>2, <3>3 DEF WaitUntilDone
  <2>2. cancels' \in 0..MaxCancels
    BY <1>2, BoundAssumption DEF WaitUntilDone, BeginCancel
  <2>3. QED BY <1>2, <2>1, <2>2 DEF WaitUntilDone
<1>3. CASE StopContainer(a)
  <2>1. call' \in [Actor -> Call]
    BY <1>3, CallMoves DEF StopContainer, CallLabel
  <2>2. QED BY <1>3, <2>1 DEF StopContainer, Stops, Exited
<1>4. CASE MarkCancelled(a)
  <2>1. call' \in [Actor -> Call]
    BY <1>4, CallMoves DEF MarkCancelled, CallLabel
  <2>2. job' \in [Execution -> Job]
    BY <1>4, JobMoves DEF MarkCancelled, Terminal
  <2>3. QED BY <1>4, <2>1, <2>2 DEF MarkCancelled
<1>5. CASE GiveReason(a)
  <2>1. call' = [call EXCEPT ![a].at = call[a].then, ![a].then = "read"]
    BY <1>5 DEF GiveReason
  <2>2. call' \in [Actor -> Call]
    BY <2>1, CallMoves DEF CallLabel
  <2>3. job' \in [Execution -> Job]
    BY <1>5, JobMoves DEF GiveReason, Terminal
  <2>4. QED BY <1>5, <2>2, <2>3 DEF GiveReason
<1>6. QED BY <1>2, <1>3, <1>4, <1>5

LEMMA FinalizedType ==
  ASSUME NEW c \in Call, c.seen # "absent" PROVE Finalized(c) \in Row
BY CallFields, RowFields DEF Finalized, Row

LEMMA FinalizeType ==
  ASSUME TypeInv, NEW a \in Actor,
         Doing(a, "store") => call[a].seen # "absent",
         ReadAttempt(a) \/ CollectResult(a) \/ StoreAttempt(a) \/ UpdateNode(a)
  PROVE TypeInv'
<1>1. Records /\ Of(a) \in Execution /\ call[a] \in Call /\ row[Of(a)] \in Row
  BY TypeRecords, CallFields DEF TypeInv, TypeOK, Of
<1> USE <1>1 DEF TypeInv, TypeOK, SaveInv, At, runnerVars, rowVars, ghosts, bounds
<1>2. CASE ReadAttempt(a)
  <2>1. call' \in [Actor -> Call]
    BY <1>2, CallMoves DEF ReadAttempt, CallLabel
  <2>2. QED BY <1>2, <2>1 DEF ReadAttempt
<1>3. CASE CollectResult(a)
  <2>1. job[Of(a)].status \in Active \cup Terminal
    BY JobFields
  <2>2. call' \in [Actor -> Call]
    BY ZenonT(30), <1>3, <2>1, CallMoves
       DEF CollectResult, CallLabel, Status, Terminal, Active
  <2>3. job' \in [Execution -> Job]
    BY <1>3, JobMoves, "failed" \in Terminal DEF CollectResult, Terminal
  <2>4. QED BY <1>3, <2>2, <2>3 DEF CollectResult
<1>4. CASE StoreAttempt(a)
  <2>1. call' \in [Actor -> Call]
    BY <1>4, CallMoves, Fixed DEF StoreAttempt, CallLabel
  <2>2. Finalized(call[a]) \in Row
    BY <1>4, FinalizedType DEF StoreAttempt
  <2>3. QED BY <1>4, <2>1, <2>2 DEF StoreAttempt, Upsert
<1>5. CASE UpdateNode(a)
  <2>1. call' \in [Actor -> Call]
    BY <1>5, CallMoves, "idle" \in CallLabel DEF UpdateNode, CallLabel
  <2>2. NodeStatus(call[a].seen) \in {"succeeded", "cancelled", "failed"}
    BY DEF NodeStatus
  <2>3. NodeOf[Of(a)] \in Node
    BY NodeAssumption
  <2>4. QED BY <1>5, <2>1, <2>2, <2>3 DEF UpdateNode
<1>6. QED BY <1>2, <1>3, <1>4, <1>5

LEMMA RefreshType ==
  ASSUME TypeInv, NEW a \in Actor, Doing(a, "demote") => call[a].seen # "absent",
         \/ PollRunner(a) \/ SyncAttempt(a) \/ ReconcileAttempt(a) \/ LeaveAttempt(a)
         \/ DemoteAttempt(a) \/ MarkInterrupted(a)
  PROVE TypeInv'
<1>1. /\ Records /\ Of(a) \in Execution /\ call[a] \in Call
      /\ call[a].copy \in Row /\ call[a].seen \in Status \cup {"absent"}
  BY TypeRecords, CallFields DEF TypeInv, TypeOK, Of
<1> USE <1>1 DEF TypeInv, TypeOK, SaveInv, At, runnerVars, rowVars, ghosts, bounds
<1>2. CASE PollRunner(a)
  <2>1. job[Of(a)].status \in Status
    BY JobFields DEF Status
  <2>2. call' \in [Actor -> Call]
    <3>1. {"sync", "inspect"} \subseteq CallLabel
      BY DEF CallLabel
    <3>2. Move(a, "inspect") => call' \in [Actor -> Call]
      BY <3>1, CallMoves
    <3>3. call' = [call EXCEPT ![a].seen = job[Of(a)].status, ![a].at = "sync"] =>
            call' \in [Actor -> Call]
      BY <2>1, <3>1, CallMoves
    <3>4. QED BY <1>2, <3>2, <3>3 DEF PollRunner
  <2>3. QED BY <1>2, <2>2 DEF PollRunner
<1>3. CASE SyncAttempt(a)
  <2>1. call' \in [Actor -> Call]
    BY <1>3, CallMoves, "read" \in CallLabel DEF SyncAttempt, CallLabel
  <2>2. [call[a].copy EXCEPT !.status = call[a].seen] \in Row
    BY DEF Row
  <2>3. QED BY <1>3, <2>1, <2>2 DEF SyncAttempt, Upsert
<1>4. CASE ReconcileAttempt(a)
  <2>1. call[a].copy.status \in Status
    BY <1>4 DEF ReconcileAttempt, Status
  <2>2. Reconciled(Of(a), call[a].copy.status) \subseteq Status
    BY <2>1 DEF Reconciled, DiskSays, DockerSays, Status, Active, Terminal
  <2>3. call' \in [Actor -> Call]
    BY <1>4, <2>2, CallMoves DEF ReconcileAttempt, CallLabel
  <2>4. QED BY <1>4, <2>3 DEF ReconcileAttempt
<1>5. CASE LeaveAttempt(a)
  <2>1. call' \in [Actor -> Call]
    BY <1>5, CallMoves, "idle" \in CallLabel DEF LeaveAttempt, CallLabel
  <2>2. QED BY <1>5, <2>1 DEF LeaveAttempt
<1>6. CASE DemoteAttempt(a)
  <2>1. call' \in [Actor -> Call]
    BY <1>6, CallMoves, "idle" \in CallLabel DEF DemoteAttempt, CallLabel
  <2>2. [status |-> call[a].seen,
         metrics |-> call[a].copy.metrics \/ outputs[Of(a)] # "none",
         error |-> call[a].copy.error \/ call[a].seen \in {"failed", "interrupted"}] \in Row
    BY RowFields DEF Row
  <2>3. QED BY <1>6, <2>1, <2>2 DEF DemoteAttempt, Upsert
<1>7. CASE MarkInterrupted(a)
  <2>1. call' \in [Actor -> Call]
    BY <1>7, CallMoves, "idle" \in CallLabel DEF MarkInterrupted, CallLabel
  <2>2. [call[a].copy EXCEPT !.status = "interrupted", !.error = TRUE] \in Row
    BY DEF Row, Status
  <2>3. QED BY <1>7, <2>1, <2>2 DEF MarkInterrupted, Upsert
<1>8. QED BY <1>2, <1>3, <1>4, <1>5, <1>6, <1>7

LEMMA BeginType ==
  ASSUME TypeInv, NEW c \in Caller, NEW e \in Execution, CallBegin(c, e)
  PROVE TypeInv'
<1>1. Records /\ c \in Actor /\ row[e] \in Row /\ NodeOf[e] \in Node
  BY TypeRecords, ExecutionsAct, NodeAssumption DEF TypeInv, TypeOK
<1> USE <1>1 DEF TypeInv, TypeOK, SaveInv, At, runnerVars, rowVars, ghosts, bounds
<1>2. CASE RunContract(c, e)
  <2>1. call' \in [Actor -> Call]
    BY <1>2, CallMoves DEF RunContract, CallLabel
  <2>2. QED BY <1>2, <2>1 DEF RunContract
<1>3. CASE CancelExecution(c, e)
  <2>1. call' \in [Actor -> Call]
    BY <1>3, CallMoves DEF CancelExecution, CallLabel
  <2>2. cancels' \in 0..MaxCancels
    BY <1>3, BoundAssumption DEF CancelExecution, BeginCancel
  <2>3. QED BY <1>3, <2>1, <2>2 DEF CancelExecution
<1>4. CASE RefreshExecution(c, e)
  <2>1. call' \in [Actor -> Call]
    BY <1>4, CallMoves DEF RefreshExecution, CallLabel
  <2>2. QED BY <1>4, <2>1 DEF RefreshExecution
<1>5. CASE Recover(c, e)
  <2>1. call' \in [Actor -> Call]
    BY <1>5, CallMoves DEF Recover, CallLabel
  <2>2. QED BY <1>5, <2>1 DEF Recover
<1>6. QED BY <1>2, <1>3, <1>4, <1>5 DEF CallBegin

LEMMA RestartType == ASSUME TypeInv, Restart PROVE TypeInv'
<1>1. restarts' \in 0..MaxRestarts
  BY BoundAssumption DEF TypeInv, TypeOK, Restart
<1>2. QED
  BY <1>1, Fixed
     DEF TypeInv, TypeOK, SaveInv, At, Restart, rowVars, ThreadLabel, Active

LEMMA InitType == Init => TypeInv
<1>1. Init => SaveInv
  BY DEF Init, SaveInv, At
<1>2. Init => TypeOK
  BY Fixed, BoundAssumption DEF Init, TypeOK, ThreadLabel, Active
<1>3. QED BY <1>1, <1>2 DEF TypeInv

-----------------------------------------------------------------------------
(* What is known of a job where *)

Submitting == {"submit", "track", "insert"}
InService == {"wait", "read", "live", "stop", "mark", "reason", "collect", "store",
              "node", "sync"}
Offline == {"inspect", "demote"}
OldRow == InService \cup Offline \cup {"poll", "recover"}

(* What a call knows of its execution by where it is. *)
CallKnows(a) ==
  /\ Doing(a, "submit") => ~job[Of(a)].known /\ Of(a) \notin disturbed
  /\ call[a].at \in {"track", "insert"} => job[Of(a)].known
  /\ call[a].at \in Submitting => row[Of(a)] = NoRow
  /\ Doing(a, "insert") => Of(a) \in tracked
  /\ call[a].at \in InService => job[Of(a)].known
  /\ call[a].at \in Offline => ~job[Of(a)].known
  /\ call[a].at \in OldRow => row[Of(a)] # NoRow

CallInv == \A a \in Actor : CallKnows(a)

(* An execution that is being submitted has no other call. *)
SubmitInv ==
  \A a, b \in Actor :
    a # b /\ call[a].at \in Submitting /\ ~Doing(b, "idle") => Of(a) # Of(b)

(* What a job, known to this process or not, has left anywhere. *)
JobLeft(e) ==
  /\ ~job[e].known => job[e] = NoJob /\ thread[e] = "none"
  /\ job[e].known => thread[e] # "none"
  /\ container[e] # "none" => job[e].known \/ e \in disturbed
  /\ outputs[e] # "none" => container[e] # "none"
  /\ row[e] # NoRow => job[e].known \/ e \in disturbed
  /\ row[e] # NoRow /\ job[e].known => e \in tracked
  /\ job[e].known /\ container[e] # "none" => thread[e] \notin {"start", "plan", "run"}

JobInv == \A e \in Execution : JobLeft(e)

(* The statuses that calls are about to write. *)
SeenOK(l, s) ==
  /\ l = "sync" => s \in Active \cup Terminal
  /\ l = "store" => s \in Terminal
  /\ l = "demote" => s # "absent"

SeenInv == \A a \in Actor : SeenOK(call[a].at, call[a].seen)

KnowInv == CallInv /\ SubmitInv /\ JobInv /\ SeenInv

(* A step of one call that creates no job and no row. *)
CallOnly(a, l, e, s) ==
  /\ \A b \in Actor \ {a} : call'[b] = call[b]
  /\ call'[a].at = l /\ call'[a].of = e /\ call'[a].seen = s
  /\ \A d \in Execution : /\ job'[d].known = job[d].known
                          /\ ~job[d].known => job'[d] = job[d]
                          /\ container'[d] = "none" <=> container[d] = "none"
                          /\ row'[d] = NoRow <=> row[d] = NoRow
  /\ UNCHANGED <<thread, outputs>>
  /\ tracked \subseteq tracked' /\ disturbed \subseteq disturbed'

LEMMA CallKeepsKnowing ==
  ASSUME TypeInv, KnowInv, NEW a \in Actor, NEW e \in Execution, NEW l, NEW s,
         CallOnly(a, l, e, s), SeenOK(l, s),
         l # "submit" /\ (l \in Submitting => call[a].at \in Submitting /\ Of(a) = e),
         disturbed' = disturbed \/ call[a].at \in InService,
         disturbed' \subseteq disturbed \cup {Of(a)},
         l \in Submitting => job[e].known,
         l = "insert" => e \in tracked',
         l \in InService => job[e].known,
         l \in Offline => ~job[e].known,
         l \in OldRow => row[e] # NoRow,
         l \in {"idle"} \cup Submitting \cup OldRow
  PROVE KnowInv'
<1> USE DEF KnowInv, CallOnly
<1>1. SeenInv'
  BY DEF SeenInv
<1>2. JobInv'
  BY DEF JobInv, JobLeft
<1>3. SubmitInv'
  <2> SUFFICES ASSUME NEW b \in Actor, NEW c \in Actor, b # c,
                      call'[b].at \in Submitting, call'[c].at # "idle"
               PROVE call'[b].of # call'[c].of
    BY DEF SubmitInv, Doing, Of
  <2>1. CASE b = a
    <3>1. call[a].at \in Submitting /\ Of(a) = e /\ call'[c] = call[c]
      BY <2>1
    <3>2. QED BY <2>1, <3>1 DEF SubmitInv, Doing, Of
  <2>2. CASE c = a
    <3>1. call'[b] = call[b] /\ CallKnows(b)
      BY <2>2 DEF CallInv
    <3>2. CASE l \in Submitting
      BY <2>2, <3>1, <3>2 DEF SubmitInv, Doing, Of, Submitting
    <3>3. CASE l \in OldRow
      BY <2>2, <3>1, <3>3 DEF CallKnows, Of
    <3>4. QED BY <2>2, <3>2, <3>3
  <2>3. CASE b # a /\ c # a
    BY <2>3 DEF SubmitInv, Doing, Of
  <2>4. QED BY <2>1, <2>2, <2>3
<1>4. CallInv'
  <2> SUFFICES ASSUME NEW b \in Actor PROVE CallKnows(b)'
    BY DEF CallInv
  <2>1. call'[b].of \in Execution /\ call[b].of \in Execution
    BY CallFields DEF TypeInv, TypeOK
  <2>2. CASE b = a
    <3>1. l \in Submitting => row[e] = NoRow
      BY DEF CallInv, CallKnows
    <3>2. QED BY <2>1, <2>2, <3>1
                 DEF CallKnows, Doing, Of, Submitting, InService, Offline,
                     OldRow
  <2>3. CASE b # a
    <3>1. call'[b] = call[b] /\ CallKnows(b)
      BY <2>3 DEF CallInv
    <3>2. ASSUME Doing(b, "submit") PROVE Of(b) \notin disturbed'
      <4>1. call[a].at \in InService => Of(a) # Of(b)
        BY <2>3, <3>2 DEF SubmitInv, Doing, Submitting, InService
      <4>2. QED BY <3>1, <3>2, <4>1 DEF CallKnows
    <3>3. QED BY <2>1, <3>1, <3>2 DEF CallKnows, Doing, Of
  <2>4. QED BY <2>2, <2>3
<1>5. QED BY <1>1, <1>2, <1>3, <1>4

(* What the moves of a call tell CallOnly. *)
LEMMA CallToOnly ==
  ASSUME NEW a \in Actor, NEW e \in Execution, NEW l, NEW c, NEW s, CallTo(a, l, e, c, s),
         \A d \in Execution : /\ job'[d].known = job[d].known
                              /\ ~job[d].known => job'[d] = job[d]
                              /\ container'[d] = "none" <=> container[d] = "none"
                              /\ row'[d] = NoRow <=> row[d] = NoRow,
         UNCHANGED <<thread, outputs>>,
         tracked \subseteq tracked', disturbed \subseteq disturbed'
  PROVE CallOnly(a, l, e, s)
BY DEF CallTo, CallOnly

LEMMA CancelKnows ==
  ASSUME TypeInv, KnowInv, NEW a \in Actor,
         \/ WaitUntilDone(a, "wait", "read") \/ WaitUntilDone(a, "live", "collect")
         \/ StopContainer(a) \/ MarkCancelled(a) \/ GiveReason(a)
  PROVE KnowInv'
<1> DEFINE e == Of(a)
<1>1. /\ Records /\ e \in Execution /\ call[a].at \in CallLabel /\ CallKnows(a)
      /\ call[a].then \in {"read", "collect"}
      /\ "failed" \in Active \cup Terminal
  BY TypeRecords, CallFields DEF TypeInv, TypeOK, Of, KnowInv, CallInv, Terminal
<1>2. CallLabel = {"idle"} \cup Submitting \cup OldRow
  BY DEF CallLabel, Submitting, OldRow, InService, Offline
<1>3. ASSUME NEW l \in {"read", "collect", "stop", "mark", "reason"},
             CallTo(a, l, e, call[a].copy, call[a].seen), call[a].at \in InService,
             \A d \in Execution : /\ job'[d].known = job[d].known
                                  /\ ~job[d].known => job'[d] = job[d]
                                  /\ container'[d] = "none" <=> container[d] = "none",
             disturbed \subseteq disturbed', disturbed' \subseteq disturbed \cup {e},
             UNCHANGED <<thread, outputs, row, tracked>>
      PROVE KnowInv'
  <2>1. CallOnly(a, l, e, call[a].seen)
    BY <1>1, <1>3, CallToOnly
  <2>2. SeenOK(l, call[a].seen) /\ l \in InService /\ l \notin Submitting /\ l \notin Offline
    BY DEF SeenOK, InService, Submitting, Offline
  <2>3. job[e].known /\ row[e] # NoRow
    BY <1>1, <1>3 DEF CallKnows, OldRow
  <2>4. l # "submit" /\ l # "insert" /\ l \in {"idle"} \cup Submitting \cup OldRow
    BY <2>2 DEF OldRow
  <2>5. QED BY <1>1, <1>3, <2>1, <2>2, <2>3, <2>4, CallKeepsKnowing
<1>4. {"read", "collect", "stop", "mark", "reason"} \subseteq CallLabel
  BY DEF CallLabel
<1> USE DEF runnerVars, rowVars, ghosts, Doing
<1>5. ASSUME NEW l \in {"wait", "live"}, NEW t \in {"read", "collect"}, WaitUntilDone(a, l, t)
      PROVE KnowInv'
  <2>1. Move(a, t) => CallTo(a, t, e, call[a].copy, call[a].seen)
    BY <1>1, <1>4, CallMoves
  <2>2. call' = [call EXCEPT ![a].at = "stop", ![a].then = t] =>
          CallTo(a, "stop", e, call[a].copy, call[a].seen)
    BY <1>1, <1>4, CallMoves
  <2>3. call[a].at \in InService
    BY <1>5 DEF WaitUntilDone, InService
  <2>4. UNCHANGED <<job, container, thread, outputs, row, tracked, disturbed>>
    BY <1>5 DEF WaitUntilDone
  <2>5. \/ CallTo(a, t, e, call[a].copy, call[a].seen)
        \/ CallTo(a, "stop", e, call[a].copy, call[a].seen)
    BY <1>5, <2>1, <2>2 DEF WaitUntilDone
  <2>6. QED BY <1>3, <2>3, <2>4, <2>5
<1>6. CASE StopContainer(a)
  <2>1. CallTo(a, "mark", e, call[a].copy, call[a].seen) /\ call[a].at \in InService
    BY <1>1, <1>4, <1>6, CallMoves DEF StopContainer, InService
  <2>2. \A d \in Execution : container'[d] = "none" <=> container[d] = "none"
    BY <1>6 DEF StopContainer, Stops, Exited, TypeInv, TypeOK
  <2>3. QED BY <1>3, <1>6, <2>1, <2>2 DEF StopContainer
<1>7. CASE MarkCancelled(a)
  <2>1. CallTo(a, "reason", e, call[a].copy, call[a].seen) /\ call[a].at \in InService
    BY <1>1, <1>4, <1>7, CallMoves DEF MarkCancelled, InService
  <2>2. JobTo(e, job[e].known, "cancelled", job[e].id, job[e].error)
    BY <1>1, <1>7, JobMoves, "cancelled" \in Terminal
       DEF MarkCancelled, Terminal
  <2>3. job[e].known
    BY <1>1, <2>1 DEF CallKnows
  <2>4. QED BY <1>3, <1>7, <2>1, <2>2, <2>3 DEF MarkCancelled, JobTo
<1>8. CASE GiveReason(a)
  <2>1. call' = [call EXCEPT ![a].at = call[a].then, ![a].then = "read"]
    BY <1>8 DEF GiveReason
  <2>2. CallTo(a, call[a].then, e, call[a].copy, call[a].seen)
    BY <1>1, <1>4, <2>1, CallMoves
  <2>3. JobTo(e, job[e].known, job[e].status, job[e].id, TRUE)
    BY <1>1, <1>8, JobMoves DEF GiveReason
  <2>4. job[e].known /\ call[a].at \in InService
    BY <1>1, <1>8 DEF CallKnows, GiveReason, InService
  <2>5. QED BY <1>1, <1>3, <1>8, <2>2, <2>3, <2>4 DEF GiveReason, JobTo
<1>9. QED BY <1>5, <1>6, <1>7, <1>8

LEMMA FinalizeKnows ==
  ASSUME TypeInv, KnowInv, NEW a \in Actor,
         ReadAttempt(a) \/ CollectResult(a) \/ StoreAttempt(a) \/ UpdateNode(a)
  PROVE KnowInv'
<1> DEFINE e == Of(a)
<1>1. /\ Records /\ e \in Execution /\ call[a] \in Call /\ row[e] \in Row
      /\ CallKnows(a) /\ SeenOK(call[a].at, call[a].seen)
  BY TypeRecords, CallFields DEF TypeInv, TypeOK, Of, KnowInv, CallInv, SeenInv
<1>2. ASSUME NEW l \in {"idle", "live", "store", "node"}, NEW d \in Execution, NEW c, NEW s,
             l # "idle" => d = e,
             CallTo(a, l, d, c, s), SeenOK(l, s), call[a].at \in InService,
             \A x \in Execution : /\ job'[x].known = job[x].known
                                  /\ ~job[x].known => job'[x] = job[x]
                                  /\ row'[x] = NoRow <=> row[x] = NoRow,
             UNCHANGED <<container, thread, outputs, tracked, disturbed>>
      PROVE KnowInv'
  <2>1. CallOnly(a, l, d, s)
    BY <1>1, <1>2, CallToOnly
  <2>2. l \in {"idle"} \cup InService /\ l \notin Submitting /\ l \notin Offline
    BY DEF InService, Submitting, Offline
  <2>3. job[e].known /\ row[e] # NoRow
    BY <1>1, <1>2 DEF CallKnows, OldRow
  <2>4. /\ l # "submit" /\ l # "insert" /\ l \in {"idle"} \cup Submitting \cup OldRow
        /\ "idle" \notin OldRow /\ "idle" \notin InService
    BY <2>2 DEF OldRow, InService, Offline
  <2>5. QED BY <1>1, <1>2, <2>1, <2>2, <2>3, <2>4, CallKeepsKnowing
<1> USE DEF runnerVars, rowVars, ghosts, Doing
<1>3. {"idle", "live", "store", "node"} \subseteq CallLabel /\ Idle.of \in Execution
  BY Fixed, CallFields DEF CallLabel
<1>4. CASE ReadAttempt(a)
  <2>1. CallTo(a, "live", e, row[e], call[a].seen)
    BY <1>1, <1>3, <1>4, CallMoves DEF ReadAttempt
  <2>2. SeenOK("live", call[a].seen) /\ call[a].at \in InService
    BY <1>4 DEF SeenOK, ReadAttempt, InService
  <2>3. UNCHANGED <<job, row, container, thread, outputs, tracked, disturbed>>
    BY <1>4 DEF ReadAttempt
  <2>4. QED BY <1>1, <1>2, <2>1, <2>2, <2>3
<1>5. CASE CollectResult(a)
  <2>1. /\ job[e].status \in Active \cup Terminal /\ {"completed", "failed"} \subseteq Terminal
        /\ Terminal \subseteq Status
    BY <1>1, JobFields DEF Records, Terminal, Status
  <2>2. \/ CallTo(a, "idle", Idle.of, NoRow, "absent")
        \/ \E s \in Terminal : CallTo(a, "store", e, call[a].copy, s)
    <3>1. Return(a) => CallTo(a, "idle", Idle.of, NoRow, "absent")
      BY <1>1, <1>3, CallMoves
    <3>2. ASSUME NEW s \in Terminal, call' = [call EXCEPT ![a].seen = s, ![a].at = "store"]
          PROVE CallTo(a, "store", e, call[a].copy, s)
      BY <1>1, <1>3, <2>1, <3>2, CallMoves
    <3>3. QED BY <1>5, <2>1, <3>1, <3>2 DEF CollectResult
  <2>3. \/ job' = job
        \/ JobTo(e, job[e].known, "failed", job[e].id, TRUE)
    BY <1>1, <1>5, <2>1, JobMoves DEF CollectResult
  <2>4. job[e].known /\ call[a].at \in InService
    BY <1>1, <1>5 DEF CallKnows, CollectResult, InService
  <2>5. SeenOK("idle", "absent") /\ \A s \in Terminal : SeenOK("store", s)
    BY DEF SeenOK
  <2>6. \A x \in Execution : /\ job'[x].known = job[x].known
                             /\ ~job[x].known => job'[x] = job[x]
    BY <2>3, <2>4 DEF JobTo
  <2>7. UNCHANGED <<row, container, thread, outputs, tracked, disturbed>>
    BY <1>5 DEF CollectResult
  <2>8. CASE CallTo(a, "idle", Idle.of, NoRow, "absent")
    BY <1>2, <1>3, <2>4, <2>5, <2>6, <2>7, <2>8
  <2>9. CASE \E s \in Terminal : CallTo(a, "store", e, call[a].copy, s)
    BY <1>1, <1>2, <2>4, <2>5, <2>6, <2>7, <2>9
  <2>10. QED BY <2>2, <2>8, <2>9
<1>6. CASE StoreAttempt(a)
  <2>1. CallTo(a, "node", e, NoRow, call[a].seen)
    BY <1>1, <1>3, <1>6, CallMoves, Fixed DEF StoreAttempt
  <2>2. call[a].at \in InService /\ call[a].seen \in Terminal
    BY <1>1, <1>6 DEF StoreAttempt, InService, SeenOK
  <2>3. Finalized(call[a]) # NoRow
    BY <2>2 DEF Finalized, NoRow, Terminal
  <2>4. row[e] # NoRow
    BY <1>1, <2>2 DEF CallKnows, OldRow
  <2>5. \A x \in Execution : row'[x] = NoRow <=> row[x] = NoRow
    BY <1>6, <2>3, <2>4 DEF StoreAttempt, Upsert, TypeInv, TypeOK
  <2>6. QED BY <1>1, <1>2, <1>6, <2>1, <2>2, <2>5 DEF StoreAttempt, SeenOK
<1>7. CASE UpdateNode(a)
  <2>1. CallTo(a, "idle", Idle.of, NoRow, "absent")
    BY <1>1, <1>3, <1>7, CallMoves DEF UpdateNode
  <2>2. SeenOK("idle", "absent") /\ call[a].at \in InService
    BY <1>7 DEF SeenOK, UpdateNode, InService
  <2>3. UNCHANGED <<job, row, container, thread, outputs, tracked, disturbed>>
    BY <1>7 DEF UpdateNode
  <2>4. QED BY <1>2, <1>3, <2>1, <2>2, <2>3
<1>8. QED BY <1>4, <1>5, <1>6, <1>7

LEMMA RefreshKnows ==
  ASSUME TypeInv, KnowInv, NEW a \in Actor,
         \/ PollRunner(a) \/ SyncAttempt(a) \/ ReconcileAttempt(a) \/ LeaveAttempt(a)
         \/ DemoteAttempt(a) \/ MarkInterrupted(a)
  PROVE KnowInv'
<1> DEFINE e == Of(a)
<1>1. /\ Records /\ e \in Execution /\ call[a] \in Call /\ row[e] \in Row
      /\ CallKnows(a) /\ SeenOK(call[a].at, call[a].seen) /\ job[e] \in Job
  BY TypeRecords, CallFields DEF TypeInv, TypeOK, Of, KnowInv, CallInv, SeenInv
<1>2. ASSUME NEW l \in {"idle", "read", "sync", "inspect", "demote"}, NEW d \in Execution,
             NEW c, NEW s, l # "idle" => d = e,
             CallTo(a, l, d, c, s), SeenOK(l, s), call[a].at \in OldRow,
             l \in {"read", "sync"} => job[e].known,
             l \in Offline => ~job[e].known,
             row' = row \/ \E r \in Row : r.status # "absent" /\ row' = [row EXCEPT ![e] = r],
             UNCHANGED <<job, container, thread, outputs, tracked, disturbed>>
      PROVE KnowInv'
  <2>1. row[e] # NoRow
    BY <1>1, <1>2 DEF CallKnows
  <2>2. \A x \in Execution : row'[x] = NoRow <=> row[x] = NoRow
    BY <1>2, <2>1, Fixed DEF TypeInv, TypeOK
  <2>3. CallOnly(a, l, d, s)
    BY <1>1, <1>2, <2>2, CallToOnly
  <2>4. /\ l # "submit" /\ l # "insert" /\ l \notin Submitting
        /\ l \in {"idle"} \cup Submitting \cup OldRow
        /\ "idle" \notin OldRow /\ "idle" \notin InService /\ "idle" \notin Offline
        /\ l \in InService => l \in {"read", "sync"}
    BY DEF OldRow, InService, Offline, Submitting
  <2>5. QED BY <1>1, <1>2, <2>1, <2>3, <2>4, CallKeepsKnowing
<1> USE DEF runnerVars, rowVars, ghosts, Doing
<1>3. /\ {"idle", "read", "sync", "inspect", "demote"} \subseteq CallLabel
      /\ Idle.of \in Execution
      /\ "absent" \in Status \cup {"absent"} /\ SeenOK("idle", "absent")
      /\ SeenOK("read", "absent")
  BY Fixed, CallFields DEF CallLabel, SeenOK
<1>4. CASE PollRunner(a)
  <2>1. job[e].status \in Status /\ SeenOK("sync", job[e].status)
    BY <1>1, JobFields DEF Status, SeenOK
  <2>2. call' = [call EXCEPT ![a].seen = job[e].status, ![a].at = "sync"] =>
          CallTo(a, "sync", e, call[a].copy, job[e].status)
    BY <1>1, <1>3, <2>1, CallMoves
  <2>3. Move(a, "inspect") => CallTo(a, "inspect", e, call[a].copy, call[a].seen)
    BY <1>1, <1>3, CallMoves
  <2>4. call[a].at \in OldRow /\ SeenOK("inspect", call[a].seen)
        /\ "sync" \notin Offline /\ "inspect" \notin {"read", "sync"}
    BY <1>4 DEF PollRunner, OldRow, SeenOK, Offline
  <2>5. UNCHANGED <<job, row, container, thread, outputs, tracked, disturbed>>
    BY <1>4 DEF PollRunner
  <2>6. CASE job[e].known /\ call' = [call EXCEPT ![a].seen = job[e].status, ![a].at = "sync"]
    BY <1>1, <1>2, <2>1, <2>2, <2>4, <2>5, <2>6
  <2>7. CASE ~job[e].known /\ Move(a, "inspect")
    BY <1>1, <1>2, <2>3, <2>4, <2>5, <2>7
  <2>8. QED BY <1>4, <2>6, <2>7 DEF PollRunner
<1>5. CASE SyncAttempt(a)
  <2>1. call[a].seen \in Active \cup Terminal /\ call[a].at \in OldRow /\ job[e].known
    BY <1>1, <1>5 DEF SyncAttempt, SeenOK, OldRow, InService, CallKnows
  <2> DEFINE r == [call[a].copy EXCEPT !.status = call[a].seen]
  <2>2. r \in Row /\ r.status # "absent"
    BY <1>1, <2>1, CallFields DEF Row, Status, Active, Terminal
  <2>3. \/ CallTo(a, "read", e, NoRow, "absent")
        \/ CallTo(a, "idle", Idle.of, NoRow, "absent")
    BY <1>1, <1>3, <1>5, CallMoves DEF SyncAttempt
  <2>4. row' = [row EXCEPT ![e] = r]
        /\ UNCHANGED <<job, container, thread, outputs, tracked, disturbed>>
    BY <1>5 DEF SyncAttempt, Upsert
  <2>5. "read" \notin Offline /\ "idle" \notin Offline
    BY DEF Offline
  <2>6. QED BY <1>1, <1>2, <1>3, <2>1, <2>2, <2>3, <2>4, <2>5
<1>6. CASE ReconcileAttempt(a)
  <2>1. call[a].copy.status \in Status /\ call[a].copy.status # "absent"
    BY <1>6 DEF ReconcileAttempt, Status, Active
  <2>2. Reconciled(e, call[a].copy.status) \subseteq Status
        /\ "absent" \notin Reconciled(e, call[a].copy.status)
    BY <1>1, <2>1
       DEF Reconciled, DiskSays, DockerSays, Status, Active, Terminal, TypeInv,
           TypeOK
  <2>3. PICK s \in Reconciled(e, call[a].copy.status) :
          call' = [call EXCEPT ![a].seen = s, ![a].at = "demote"]
    BY <1>6 DEF ReconcileAttempt
  <2>4. CallTo(a, "demote", e, call[a].copy, s) /\ SeenOK("demote", s)
    <3>1. s \in Status \cup {"absent"} /\ "demote" \in CallLabel
      BY <1>3, <2>2
    <3>2. CallTo(a, "demote", e, call[a].copy, s)
      BY <1>1, <2>3, <3>1, CallMoves
    <3>3. QED BY <2>2, <3>2 DEF SeenOK
  <2>5. call[a].at \in OldRow /\ ~job[e].known
    BY <1>1, <1>6 DEF ReconcileAttempt, OldRow, Offline, CallKnows
  <2>6. UNCHANGED <<job, row, container, thread, outputs, tracked, disturbed>>
    BY <1>6 DEF ReconcileAttempt
  <2>7. QED BY <1>1, <1>2, <2>4, <2>5, <2>6
<1>7. CASE LeaveAttempt(a)
  <2>1. CallTo(a, "idle", Idle.of, NoRow, "absent")
    BY <1>1, <1>3, <1>7, CallMoves DEF LeaveAttempt
  <2>2. call[a].at \in OldRow /\ "idle" \notin Offline
    BY <1>7 DEF LeaveAttempt, OldRow, Offline
  <2>3. UNCHANGED <<job, row, container, thread, outputs, tracked, disturbed>>
    BY <1>7 DEF LeaveAttempt
  <2>4. QED BY <1>2, <1>3, <2>1, <2>2, <2>3
<1>8. CASE DemoteAttempt(a)
  <2>1. CallTo(a, "idle", Idle.of, NoRow, "absent")
    BY <1>1, <1>3, <1>8, CallMoves DEF DemoteAttempt
  <2>2. call[a].at \in OldRow /\ "idle" \notin Offline /\ call[a].seen # "absent"
    BY <1>1, <1>8 DEF DemoteAttempt, OldRow, Offline, SeenOK
  <2> DEFINE r == [status |-> call[a].seen,
                   metrics |-> call[a].copy.metrics \/ outputs[e] # "none",
                   error |-> call[a].copy.error \/ call[a].seen \in {"failed", "interrupted"}]
  <2>3. r \in Row /\ r.status # "absent"
    BY <1>1, <2>2, CallFields, RowFields DEF Row
  <2>4. row' = [row EXCEPT ![e] = r]
        /\ UNCHANGED <<job, container, thread, outputs, tracked, disturbed>>
    BY <1>8 DEF DemoteAttempt, Upsert
  <2>5. QED BY <1>2, <1>3, <2>1, <2>2, <2>3, <2>4
<1>9. CASE MarkInterrupted(a)
  <2>1. CallTo(a, "idle", Idle.of, NoRow, "absent")
    BY <1>1, <1>3, <1>9, CallMoves DEF MarkInterrupted
  <2>2. call[a].at \in OldRow /\ "idle" \notin Offline
    BY <1>9 DEF MarkInterrupted, OldRow, Offline
  <2> DEFINE r == [call[a].copy EXCEPT !.status = "interrupted", !.error = TRUE]
  <2>3. r \in Row /\ r.status # "absent"
    BY <1>1, CallFields DEF Row, Status
  <2>4. (row' = row \/ row' = [row EXCEPT ![e] = r])
        /\ UNCHANGED <<job, container, thread, outputs, tracked, disturbed>>
    BY <1>9 DEF MarkInterrupted, Upsert
  <2>5. QED BY <1>2, <1>3, <2>1, <2>2, <2>3, <2>4
<1>10. QED BY <1>4, <1>5, <1>6, <1>7, <1>8, <1>9

LEMMA BeginKnows ==
  ASSUME TypeInv, KnowInv, NEW c \in Caller, NEW e \in Execution, CallBegin(c, e)
  PROVE KnowInv'
<1>1. Records /\ c \in Actor /\ row[e] \in Row
  BY TypeRecords, ExecutionsAct DEF TypeInv, TypeOK
<1>2. ASSUME NEW l \in {"stop", "poll", "recover"}, NEW r, CallTo(c, l, e, r, "absent"),
             row[e] # NoRow, l = "stop" => job[e].known,
             UNCHANGED <<job, container, row, thread, outputs, tracked, disturbed>>
      PROVE KnowInv'
  <2>1. CallOnly(c, l, e, "absent")
    BY <1>1, <1>2, CallToOnly
  <2>2. /\ l \notin Submitting /\ l # "submit" /\ l # "insert" /\ l \notin Offline
        /\ l \in {"idle"} \cup Submitting \cup OldRow /\ (l \in InService => l = "stop")
        /\ SeenOK(l, "absent")
    BY DEF Submitting, Offline, OldRow, InService, SeenOK
  <2>3. QED BY <1>1, <1>2, <2>1, <2>2, CallKeepsKnowing
<1> USE DEF runnerVars, rowVars, ghosts, Doing
<1>3. {"stop", "poll", "recover", "submit"} \subseteq CallLabel
  BY DEF CallLabel
<1>4. CASE RunContract(c, e)
  <2>1. CallTo(c, "submit", e, NoRow, "absent")
    BY <1>1, <1>3, <1>4, CallMoves DEF RunContract
  <2>2. /\ ~job[e].known /\ e \notin disturbed
        /\ \A a \in Actor : call[a].at = "idle" \/ call[a].of # e
        /\ UNCHANGED <<job, container, row, thread, outputs, tracked, disturbed>>
    BY <1>4 DEF RunContract, Fresh, Of
  <2>3. row[e] = NoRow
    BY <2>2 DEF KnowInv, JobInv, JobLeft
  <2>4. JobInv'
    BY <2>2 DEF KnowInv, JobInv, JobLeft
  <2>5. SeenInv'
    <3> SUFFICES ASSUME NEW b \in Actor PROVE SeenOK(call'[b].at, call'[b].seen)
      BY DEF SeenInv, SeenOK
    <3>1. CASE b = c
      BY <2>1, <3>1 DEF CallTo, SeenOK
    <3>2. CASE b # c
      BY <2>1, <3>2 DEF CallTo, KnowInv, SeenInv
    <3>3. QED BY <3>1, <3>2
  <2>6. SubmitInv'
    <3> SUFFICES ASSUME NEW a \in Actor, NEW b \in Actor, a # b,
                        call'[a].at \in Submitting, call'[b].at # "idle"
                 PROVE call'[a].of # call'[b].of
      BY DEF SubmitInv, Of
    <3>1. CASE a = c \/ b = c
      BY <2>1, <2>2, <3>1 DEF CallTo, Submitting
    <3>2. CASE a # c /\ b # c
      BY <2>1, <3>2 DEF CallTo, KnowInv, SubmitInv, Of
    <3>3. QED BY <3>1, <3>2
  <2>7. CallInv'
    <3> SUFFICES ASSUME NEW a \in Actor PROVE CallKnows(a)'
      BY DEF CallInv
    <3>1. CASE a = c
      BY <2>1, <2>2, <2>3, <3>1
         DEF CallKnows, CallTo, Of, Submitting, InService, Offline, OldRow
    <3>2. CASE a # c
      <4>1. call'[a] = call[a] /\ CallKnows(a)
        BY <2>1, <3>2 DEF CallTo, KnowInv, CallInv
      <4>2. QED BY <2>2, <4>1 DEF CallKnows, Of
    <3>3. QED BY <3>1, <3>2
  <2>8. QED BY <2>4, <2>5, <2>6, <2>7 DEF KnowInv
<1>5. CASE CancelExecution(c, e)
  <2>1. CallTo(c, "stop", e, NoRow, "absent")
    BY <1>1, <1>3, <1>5, CallMoves DEF CancelExecution
  <2>2. QED BY <1>2, <1>5, <2>1 DEF CancelExecution
<1>6. CASE RefreshExecution(c, e)
  <2>1. CallTo(c, "poll", e, row[e], "absent")
    BY <1>1, <1>3, <1>6, CallMoves DEF RefreshExecution
  <2>2. QED BY <1>2, <1>6, <2>1 DEF RefreshExecution
<1>7. CASE Recover(c, e)
  <2>1. CallTo(c, "recover", e, row[e], "absent")
    BY <1>1, <1>3, <1>7, CallMoves DEF Recover
  <2>2. row[e] # NoRow
    BY <1>7, Fixed DEF Recover, Active
  <2>3. QED BY <1>2, <1>7, <2>1, <2>2 DEF Recover
<1>8. QED BY <1>4, <1>5, <1>6, <1>7 DEF CallBegin

LEMMA SubmitKnows ==
  ASSUME TypeInv, KnowInv, NEW a \in Actor, SubmitJob(a) \/ Track(a) \/ InsertAttempt(a)
  PROVE KnowInv'
<1> DEFINE e == Of(a)
<1>1. /\ Records /\ e \in Execution /\ call[a] \in Call /\ CallKnows(a)
      /\ Idle.of \in Execution /\ e \in Actor
  BY TypeRecords, CallFields, Fixed, ExecutionsAct
  DEF TypeInv, TypeOK, Of, KnowInv, CallInv
<1> USE DEF runnerVars, rowVars, ghosts, Doing
<1>2. {"idle", "track", "insert", "wait"} \subseteq CallLabel
  BY DEF CallLabel
<1>3. CASE SubmitJob(a)
  <2>1. ~job[e].known /\ e \notin disturbed /\ row[e] = NoRow /\ call[a].at = "submit"
    BY <1>1, <1>3 DEF SubmitJob, CallKnows, Submitting
  <2>2. CASE Return(a) /\ UNCHANGED <<job, thread>>
    <3>1. CallTo(a, "idle", Idle.of, NoRow, "absent")
      BY <1>1, <1>2, <2>2, CallMoves
    <3>2. CallOnly(a, "idle", Idle.of, "absent")
      BY <1>1, <1>3, <2>2, <3>1, CallToOnly DEF SubmitJob
    <3>3. /\ "idle" \notin Submitting /\ "idle" \notin InService /\ "idle" \notin Offline
          /\ "idle" \notin OldRow /\ SeenOK("idle", "absent")
      BY DEF Submitting, InService, Offline, OldRow, SeenOK
    <3>4. QED BY <1>1, <1>3, <3>2, <3>3, CallKeepsKnowing DEF SubmitJob
  <2>3. CASE /\ job' = [job EXCEPT ![e] = [NoJob EXCEPT !.known = TRUE]]
             /\ Go(e, "start") /\ Move(a, "track")
    <3>1. CallTo(a, "track", e, call[a].copy, call[a].seen)
      BY <1>1, <1>2, <2>3, CallMoves
    <3>2. JobTo(e, TRUE, "queued", FALSE, FALSE)
      BY <1>1, <2>3, JobMoves, "queued" \in Active DEF Active
    <3>3. /\ thread' = [thread EXCEPT ![e] = "start"]
          /\ UNCHANGED <<container, row, outputs, tracked, disturbed>>
      BY <1>3, <2>3 DEF SubmitJob, Go
    <3>4. ASSUME NEW b \in Actor, b # a, call[b].at # "idle" PROVE Of(b) # e
      BY <2>1, <3>4 DEF KnowInv, SubmitInv, Submitting
    <3>5. JobInv'
      BY <2>1, <3>2, <3>3 DEF KnowInv, JobInv, JobLeft, JobTo, TypeInv, TypeOK
    <3>6. SeenInv'
      <4> SUFFICES ASSUME NEW b \in Actor PROVE SeenOK(call'[b].at, call'[b].seen)
        BY DEF SeenInv, SeenOK
      <4>1. CASE b = a
        BY <3>1, <4>1 DEF CallTo, SeenOK
      <4>2. CASE b # a
        BY <3>1, <4>2 DEF CallTo, KnowInv, SeenInv
      <4>3. QED BY <4>1, <4>2
    <3>7. SubmitInv'
      <4> SUFFICES ASSUME NEW b \in Actor, NEW d \in Actor, b # d,
                          call'[b].at \in Submitting, call'[d].at # "idle"
                   PROVE call'[b].of # call'[d].of
        BY DEF SubmitInv, Of
      <4>1. CASE b = a \/ d = a
        BY <3>1, <3>4, <4>1 DEF CallTo, Submitting, Of
      <4>2. CASE b # a /\ d # a
        BY <3>1, <4>2 DEF CallTo, KnowInv, SubmitInv, Of
      <4>3. QED BY <4>1, <4>2
    <3>8. CallInv'
      <4> SUFFICES ASSUME NEW b \in Actor PROVE CallKnows(b)'
        BY DEF CallInv
      <4>1. CASE b = a
        BY <2>1, <3>1, <3>2, <3>3, <4>1
        DEF CallKnows, CallTo, JobTo, Of, Submitting, InService, Offline, OldRow
      <4>2. CASE b # a
        <5>1. call'[b] = call[b] /\ CallKnows(b) /\ Of(b) \in Execution
          BY <3>1, <4>2, CallFields
             DEF CallTo, KnowInv, CallInv, Of, TypeInv, TypeOK
        <5>2. CASE call[b].at = "idle"
          BY <5>1, <5>2 DEF CallKnows, Submitting, InService, Offline, OldRow
        <5>3. CASE call[b].at # "idle"
          BY <3>2, <3>3, <3>4, <4>2, <5>1, <5>3 DEF CallKnows, JobTo, Of
        <5>4. QED BY <5>2, <5>3
      <4>3. QED BY <4>1, <4>2
    <3>9. QED BY <3>5, <3>6, <3>7, <3>8 DEF KnowInv
  <2>4. QED BY <1>3, <2>2, <2>3 DEF SubmitJob
<1>4. CASE Track(a)
  <2>1. CallTo(a, "insert", e, call[a].copy, call[a].seen)
    BY <1>1, <1>2, <1>4, CallMoves DEF Track
  <2>2. e \in tracked' /\ job[e].known /\ call[a].at \in Submitting
    BY <1>1, <1>4 DEF Track, CallKnows, Submitting
  <2>3. CallOnly(a, "insert", e, call[a].seen)
    BY <1>1, <1>4, <2>1, CallToOnly DEF Track
  <2>4. /\ "insert" \in Submitting /\ "insert" \notin InService /\ "insert" \notin Offline
        /\ "insert" \notin OldRow /\ SeenOK("insert", call[a].seen)
    BY DEF Submitting, InService, Offline, OldRow, SeenOK
  <2>5. QED BY <1>1, <1>4, <2>2, <2>3, <2>4, CallKeepsKnowing DEF Track
<1>5. CASE InsertAttempt(a)
  <2>1. job[e].known /\ e \in tracked /\ row[e] = NoRow /\ call[a].at = "insert"
    BY <1>1, <1>5 DEF InsertAttempt, CallKnows, Submitting
  <2>2. /\ row' = [row EXCEPT ![e] = [NoRow EXCEPT !.status = "queued"]]
        /\ UNCHANGED <<job, thread, container, outputs, tracked, disturbed>>
    BY <1>5 DEF InsertAttempt, Upsert
  <2>3. /\ row'[e] # NoRow /\ row \in [Execution -> Row]
        /\ \A d \in Execution \ {e} : row'[d] = row[d]
    BY <1>1, <2>2 DEF NoRow, TypeInv, TypeOK
  <2>4. ASSUME NEW b \in Actor, b # a, call[b].at # "idle" PROVE Of(b) # e
    BY <2>1, <2>4 DEF KnowInv, SubmitInv, Submitting
  <2>5. JobInv'
    BY <2>1, <2>2, <2>3 DEF KnowInv, JobInv, JobLeft
  <2>6. ASSUME NEW b \in Actor
        PROVE \/ b # e /\ b # a /\ call'[b] = call[b]
              \/ b \in {a, e} /\ call'[b].at = "idle"
              \/ b \in {a, e} /\ call'[b].at = "wait" /\ call'[b].of = e
              \/ b = e /\ b # a /\ call'[b] = call[b]
    <3>1. CASE Move(a, "wait")
      <4>1. CallTo(a, "wait", e, call[a].copy, call[a].seen)
        BY <1>1, <1>2, <3>1, CallMoves
      <4>2. QED BY <4>1 DEF CallTo
    <3>2. CASE call' = [call EXCEPT ![a] = Idle,
                          ![e] = [Idle EXCEPT !.at = "wait", !.of = e]]
      <4>1. /\ [Idle EXCEPT !.at = "wait", !.of = e].at = "wait"
            /\ [Idle EXCEPT !.at = "wait", !.of = e].of = e /\ Idle.at = "idle"
        BY Fixed DEF Call
      <4>2. QED BY <1>1, <3>2, <4>1 DEF Records
    <3>3. QED BY <1>5, <3>1, <3>2 DEF InsertAttempt
  <2>7. ASSUME NEW b \in Actor
        PROVE \/ call'[b] = call[b] /\ (call[b].at = "idle" \/ call[b].of # e)
              \/ call'[b].at = "idle"
              \/ call'[b].at = "wait" /\ call'[b].of = e
    BY <2>4, <2>6 DEF Of
  <2>8. SeenInv'
    BY <2>7 DEF KnowInv, SeenInv, SeenOK
  <2>9. SubmitInv'
    BY <2>7 DEF KnowInv, SubmitInv, Of, Submitting
  <2>10. CallInv'
    <3> SUFFICES ASSUME NEW b \in Actor PROVE CallKnows(b)'
      BY DEF CallInv
    <3>1. CallKnows(b) /\ Of(b) \in Execution
      BY CallFields DEF KnowInv, CallInv, Of, TypeInv, TypeOK
    <3>2. CASE call'[b] = call[b] /\ call[b].of # e
      BY <2>2, <2>3, <3>1, <3>2 DEF CallKnows, Of
    <3>3. CASE call'[b].at = "idle"
      BY <3>3 DEF CallKnows, Submitting, InService, Offline, OldRow
    <3>4. CASE call'[b].at = "wait" /\ call'[b].of = e
      BY <2>1, <2>2, <2>3, <3>4
         DEF CallKnows, Of, Submitting, InService, Offline, OldRow
    <3>5. QED BY <2>7, <3>2, <3>3, <3>4
  <2>11. QED BY <2>5, <2>8, <2>9, <2>10 DEF KnowInv
<1>6. QED BY <1>3, <1>4, <1>5

(* A step that no call and no row takes part in. *)
LEMMA ThreadKnows ==
  ASSUME TypeInv, KnowInv, NEW e \in Execution,
         ThreadStep(e) \/ WriteOutputs(e) \/ Exit(e)
  PROVE KnowInv'
<1>1. Records /\ JobLeft(e)
  BY TypeRecords DEF TypeInv, KnowInv, JobInv
<1>2. ASSUME UNCHANGED <<call, row, tracked>>, disturbed \subseteq disturbed',
             disturbed' \subseteq disturbed \cup {e}, job[e].known,
             \A d \in Execution : job'[d].known = job[d].known,
             \A d \in Execution \ {e} :
                /\ job'[d] = job[d] /\ thread'[d] = thread[d]
                /\ container'[d] = container[d] /\ outputs'[d] = outputs[d],
             JobLeft(e)'
      PROVE KnowInv'
  <2>1. JobInv'
    BY <1>2 DEF KnowInv, JobInv, JobLeft
  <2>2. CallInv'
    <3> SUFFICES ASSUME NEW b \in Actor PROVE CallKnows(b)'
      BY DEF CallInv
    <3>1. CallKnows(b) /\ Of(b) \in Execution
      BY CallFields DEF KnowInv, CallInv, Of, TypeInv, TypeOK
    <3>2. QED BY <1>2, <3>1 DEF CallKnows, Doing, Of
  <2>3. SubmitInv' /\ SeenInv'
    BY <1>2 DEF KnowInv, SubmitInv, SeenInv, Doing, Of
  <2>4. QED BY <2>1, <2>2, <2>3 DEF KnowInv
<1> USE DEF runnerVars, rowVars, ghosts, bounds
<1>3. CASE Thread(e) /\ UNCHANGED <<outputs, rowVars, tracked, call, ghosts, bounds>>
  <2>1. /\ thread[e] \notin {"none", "remove", "end"}
        /\ thread'[e] \notin {"none", "start"}
        /\ \A d \in Execution \ {e} :
              thread'[d] = thread[d] /\ container'[d] = container[d]
        /\ container[e] = "none" => outputs[e] = "none"
        /\ container[e] # "none" /\ thread[e] \notin {"start", "plan", "run"} =>
              container'[e] # "none" /\ thread'[e] \notin {"plan", "run"}
        /\ thread[e] \in {"start", "plan"} => container' = container
        /\ thread[e] \notin {"start", "plan"} => thread'[e] \notin {"plan", "run"}
    BY <1>1, <1>3
       DEF Thread, Prepare, Plan, RunContainer, Attach, WaitContainer,
           SaveResult, Decide, WriteStatus, WriteError, At, Go, Conclude, Stops,
           Exited, TypeInv, TypeOK, JobLeft
  <2>2. /\ \A d \in Execution : job'[d].known = job[d].known
        /\ \A d \in Execution \ {e} : job'[d] = job[d]
    <3>1. ASSUME NEW s \in Active \cup Terminal,
                 SetStatus(e, s) \/ SetError(e) \/ job' = [job EXCEPT ![e].id = TRUE]
          PROVE <2>2
      BY <1>1, <3>1, JobMoves DEF JobTo
    <3>2. {"queued", "preparing", "running", verdict[e]} \subseteq Active \cup Terminal
      BY DEF Active, TypeInv, TypeOK
    <3>3. QED
      BY <1>3, <3>1, <3>2
         DEF Thread, Prepare, Plan, RunContainer, Attach, WaitContainer,
             SaveResult, Decide, WriteStatus, WriteError
  <2>3. job[e].known
    BY <1>1, <2>1 DEF JobLeft
  <2>4. JobLeft(e)'
    BY <1>1, <1>3, <2>1, <2>2, <2>3 DEF JobLeft
  <2>5. QED BY <1>2, <1>3, <2>1, <2>2, <2>3, <2>4
<1>4. CASE RemoveContainer(e)
  <2>1. job[e].known
    BY <1>1, <1>4 DEF RemoveContainer, At, JobLeft
  <2>2. JobLeft(e)'
    BY <1>1, <1>4, <2>1 DEF RemoveContainer, At, Go, JobLeft, TypeInv, TypeOK
  <2>3. QED BY <1>2, <1>4, <2>1, <2>2
               DEF RemoveContainer, At, Go, TypeInv, TypeOK
<1>5. CASE WriteOutputs(e) \/ Exit(e)
  <2>1. \A d \in Execution : JobLeft(d)'
    <3> SUFFICES ASSUME NEW d \in Execution PROVE JobLeft(d)'
      OBVIOUS
    <3>1. JobLeft(d)
      BY DEF KnowInv, JobInv
    <3>2. QED
      BY <1>5, <3>1
         DEF WriteOutputs, Exit, Stops, Exited, JobLeft, TypeInv, TypeOK
  <2>2. UNCHANGED <<call, row, tracked, disturbed, job>>
    BY <1>5 DEF WriteOutputs, Exit
  <2>3. CallInv' /\ SubmitInv' /\ SeenInv'
    BY <2>2 DEF KnowInv, CallInv, CallKnows, SubmitInv, SeenInv, Doing, Of
  <2>4. QED BY <2>1, <2>3 DEF KnowInv, JobInv
<1>6. QED BY <1>3, <1>4, <1>5 DEF ThreadStep

LEMMA RestartKnows == ASSUME TypeInv, KnowInv, Restart PROVE KnowInv'
<1> USE DEF rowVars
<1>1. CallInv' /\ SubmitInv' /\ SeenInv'
  BY Fixed
     DEF Restart, CallInv, CallKnows, SubmitInv, SeenInv, SeenOK, Doing, Of,
         Submitting, InService, Offline, OldRow
<1>2. JobInv'
  BY Fixed DEF Restart, KnowInv, JobInv, JobLeft
<1>3. QED BY <1>1, <1>2 DEF KnowInv

LEMMA InitKnows == Init => KnowInv
BY Fixed
   DEF Init, KnowInv, CallInv, CallKnows, SubmitInv, SeenInv, SeenOK, JobInv,
       JobLeft, Doing, Of, Submitting, InService, Offline, OldRow

(* The two parts preserve each other. *)
LEMMA NextKnows ==
  ASSUME TypeInv, KnowInv, [Next]_vars
  PROVE TypeInv' /\ KnowInv'
<1>1. CASE UNCHANGED vars
  BY <1>1
     DEF vars, runnerVars, rowVars, ghosts, bounds, TypeInv, TypeOK, SaveInv,
         KnowInv, CallInv, CallKnows, SubmitInv, SeenInv, JobInv, JobLeft, At,
         Doing, Of
<1>2. ASSUME NEW e \in Execution, ThreadStep(e) \/ WriteOutputs(e) \/ Exit(e)
      PROVE TypeInv' /\ KnowInv'
  BY <1>2, ThreadKnows, ThreadType, ContainerType DEF ThreadStep
<1>3. ASSUME NEW a \in Actor, CallStep(a) PROVE TypeInv' /\ KnowInv'
  <2>1. /\ Doing(a, "store") => call[a].seen # "absent"
        /\ Doing(a, "demote") => call[a].seen # "absent"
    BY DEF KnowInv, SeenInv, SeenOK, Doing, Terminal
  <2>2. CASE SubmitJob(a) \/ Track(a) \/ InsertAttempt(a)
    BY <2>2, SubmitType, SubmitKnows
  <2>3. CASE \/ WaitUntilDone(a, "wait", "read") \/ WaitUntilDone(a, "live", "collect")
             \/ StopContainer(a) \/ MarkCancelled(a) \/ GiveReason(a)
    BY <2>3, CancelType, CancelKnows
  <2>4. CASE ReadAttempt(a) \/ CollectResult(a) \/ StoreAttempt(a) \/ UpdateNode(a)
    BY <2>1, <2>4, FinalizeType, FinalizeKnows
  <2>5. CASE \/ PollRunner(a) \/ SyncAttempt(a) \/ ReconcileAttempt(a) \/ LeaveAttempt(a)
             \/ DemoteAttempt(a) \/ MarkInterrupted(a)
    BY <2>1, <2>5, RefreshType, RefreshKnows
  <2>6. QED BY <1>3, <2>2, <2>3, <2>4, <2>5 DEF CallStep
<1>4. ASSUME NEW e \in Execution, NEW c \in Caller, CallBegin(c, e) PROVE TypeInv' /\ KnowInv'
  BY <1>4, BeginType, BeginKnows
<1>5. CASE Restart
  BY <1>5, RestartType, RestartKnows
<1>6. QED BY <1>1, <1>2, <1>3, <1>4, <1>5 DEF Next

-----------------------------------------------------------------------------
(* What steps do to jobs, rows and copies, for the invariants below *)

(* A thread's step: the statuses and the places it can lead to. *)
LEMMA ThreadFacts ==
  ASSUME TypeInv, KnowInv, NEW e \in Execution, Thread(e)
  PROVE /\ job[e].known /\ thread[e] \notin {"none", "remove", "end"}
        /\ \A d \in Execution : job'[d].known = job[d].known
        /\ \A d \in Execution \ {e} :
              /\ job'[d] = job[d] /\ thread'[d] = thread[d]
              /\ verdict'[d] = verdict[d] /\ container'[d] = container[d]
        /\ job[e].error => job'[e].error
        /\ \/ thread[e] \in {"start", "plan"} /\ job'[e].status \in Active
           \/ thread[e] = "status" /\ job'[e].status = verdict[e]
              /\ thread'[e] \in {"remove", "error"}
              /\ (verdict[e] = "completed" => thread'[e] = "remove")
           \/ job'[e].status = job[e].status
        /\ thread'[e] # "end" /\ (thread'[e] \in {"start", "plan"} => thread[e] = "start")
        /\ thread'[e] \in {"run", "attach"} => thread[e] \in {"plan", "run"}
        /\ thread'[e] \in {"wait", "save", "decide"} =>
              thread[e] \in {"attach", "wait", "save"} /\ job'[e].status = job[e].status
        /\ thread'[e] = "status" =>
              /\ verdict'[e] \in Terminal
              /\ verdict'[e] = "completed" =>
                    thread[e] = "decide" /\ job[e].status # "cancelled"
<1>1. Records /\ JobLeft(e) /\ verdict[e] \in Active \cup Terminal
  BY TypeRecords DEF TypeInv, TypeOK, KnowInv, JobInv
<1>2. thread[e] \notin {"none", "remove", "end"}
  BY <1>1
     DEF Thread, Prepare, Plan, RunContainer, Attach, WaitContainer, SaveResult,
         Decide, WriteStatus, WriteError, At
<1>3. ASSUME NEW s \in Active \cup Terminal,
             SetStatus(e, s) \/ SetError(e) \/ job' = [job EXCEPT ![e].id = TRUE]
      PROVE /\ \A d \in Execution : job'[d].known = job[d].known
            /\ \A d \in Execution \ {e} : job'[d] = job[d]
            /\ job[e].error => job'[e].error
  BY <1>1, <1>3, JobMoves DEF JobTo
<1>4. /\ \A s \in Active \cup Terminal : SetStatus(e, s) => job'[e].status = s
      /\ SetError(e) => job'[e].status = job[e].status
      /\ job' = [job EXCEPT ![e].id = TRUE] => job'[e].status = job[e].status
  BY <1>1, JobMoves, "queued" \in Active \cup Terminal DEF JobTo, Active
<1>5. {"queued", "preparing", "running", verdict[e]} \subseteq Active \cup Terminal
      /\ {"queued", "preparing", "running"} \subseteq Active
  BY <1>1 DEF Active
<1>6. /\ \A d \in Execution : job'[d].known = job[d].known
      /\ \A d \in Execution \ {e} : job'[d] = job[d]
      /\ job[e].error => job'[e].error
  BY <1>3, <1>5
     DEF Thread, Prepare, Plan, RunContainer, Attach, WaitContainer, SaveResult,
         Decide, WriteStatus, WriteError
<1>7. /\ \A d \in Execution \ {e} : /\ thread'[d] = thread[d] /\ verdict'[d] = verdict[d]
                                    /\ container'[d] = container[d]
      /\ thread'[e] # "end" /\ (thread'[e] \in {"start", "plan"} => thread[e] = "start")
      /\ thread'[e] \in {"run", "attach"} => thread[e] \in {"plan", "run"}
      /\ thread'[e] \in {"wait", "save", "decide"} => thread[e] \in {"attach", "wait", "save"}
      /\ thread'[e] = "status" =>
            /\ verdict'[e] \in Terminal
            /\ verdict'[e] = "completed" => thread[e] = "decide" /\ job[e].status # "cancelled"
  BY DEF Thread, Prepare, Plan, RunContainer, Attach, WaitContainer, SaveResult,
     Decide, WriteStatus, WriteError, At, Go, Conclude, Stops, Exited, Terminal,
     TypeInv, TypeOK
<1>8. \/ thread[e] \in {"start", "plan"} /\ job'[e].status \in Active
      \/ thread[e] = "status" /\ job'[e].status = verdict[e]
         /\ thread'[e] \in {"remove", "error"}
         /\ (verdict[e] = "completed" => thread'[e] = "remove")
      \/ job'[e].status = job[e].status
  BY <1>4, <1>5
     DEF Thread, Prepare, Plan, RunContainer, Attach, WaitContainer, SaveResult,
         Decide, WriteStatus, WriteError, At, Go, TypeInv, TypeOK
<1>9. job[e].known
  BY <1>1, <1>2 DEF JobLeft
<1>10. thread'[e] \in {"wait", "save", "decide"} => job'[e].status = job[e].status
  BY <1>7, <1>8
<1>11. QED BY <1>2, <1>6, <1>7, <1>8, <1>9, <1>10

(* What a call may do to a job, *)
JobStep(a, e) ==
  \/ job'[e] = job[e] /\ thread'[e] = thread[e]
  \/ /\ Doing(a, "submit") /\ e = Of(a) /\ thread'[e] = "start"
     /\ job'[e].known /\ job'[e].status = "queued"
  \/ /\ e = Of(a) /\ thread'[e] = thread[e] /\ job'[e].known = job[e].known
     /\ \/ /\ Doing(a, "mark")
           /\ job'[e].status = "cancelled" /\ job'[e].error = job[e].error
        \/ /\ Doing(a, "reason")
           /\ job'[e].status = job[e].status /\ job'[e].error
        \/ /\ Doing(a, "collect") /\ ~(job[e].error /\ job[e].status # "completed")
           /\ job'[e].status = "failed" /\ job'[e].error

(* to a row, *)
RowStep(a, e) ==
  \/ row'[e] = row[e]
  \/ /\ e = Of(a)
     /\ \/ Doing(a, "insert") /\ row'[e].status = "queued" /\ ~row'[e].metrics
        \/ Doing(a, "store") /\ row'[e] = Finalized(call[a])
        \/ /\ Doing(a, "sync")
           /\ row'[e].status = call[a].seen /\ row'[e].metrics = call[a].copy.metrics
        \/ /\ Doing(a, "demote")
           /\ row'[e].metrics = (call[a].copy.metrics \/ outputs[e] # "none")
        \/ /\ Doing(a, "recover") /\ e \notin tracked
           /\ row'[e].status = "interrupted" /\ row'[e].metrics = call[a].copy.metrics

(* and to what calls have read. *)
CopyStep(b) ==
  \/ call'[b] = call[b]
  \/ /\ call'[b].copy.metrics =>
          \/ call'[b].of = Of(b) /\ call[b].copy.metrics
          \/ call'[b].of \in Execution /\ row[call'[b].of].metrics
     /\ call'[b].at \in {"store", "sync", "reason"} => call'[b].of = Of(b)
     /\ \/ call'[b].at = "idle" \/ b \in Caller
        \/ call'[b].of = Of(b) /\ ~Doing(b, "idle")
        \/ call'[b].of = b
     /\ call'[b].at = "store" =>
          /\ Doing(b, "collect") /\ job[Of(b)].status \in Terminal
          /\ call'[b].seen = "completed" => outputs[Of(b)] = "full"
     /\ call'[b].at = "sync" => Doing(b, "poll") /\ call'[b].seen = job[Of(b)].status
     /\ call'[b].at = "reason" => Doing(b, "mark") /\ Of(b) \in disturbed'

Table(a) ==
  /\ \A e \in Execution : JobStep(a, e) /\ RowStep(a, e)
  /\ \A b \in Actor : CopyStep(b)
  /\ UNCHANGED <<verdict, outputs>>
  /\ \A e \in Execution : container'[e] = "running" => container[e] = "running"
  /\ disturbed \subseteq disturbed'
  /\ \/ heeded' = heeded
     \/ /\ Doing(a, "reason") /\ heeded' = heeded \cup {Of(a)}
        /\ job[Of(a)].status = "cancelled" /\ job'[Of(a)].error
        /\ thread[Of(a)] \in {"wait", "save"}

(* The part of the table a call's new place and copy decide. *)
LEMMA CopySteps ==
  ASSUME NEW a \in Actor, NEW l, NEW e \in Execution, NEW c, NEW s, CallTo(a, l, e, c, s),
         c.metrics => (e = Of(a) /\ call[a].copy.metrics) \/ row[e].metrics,
         l \in {"store", "sync", "reason"} => e = Of(a),
         l = "idle" \/ (e = Of(a) /\ ~Doing(a, "idle")) \/ a \in Caller,
         l = "store" => /\ Doing(a, "collect") /\ job[e].status \in Terminal
                        /\ s = "completed" => outputs[e] = "full",
         l = "sync" => Doing(a, "poll") /\ s = job[e].status,
         l = "reason" => Doing(a, "mark") /\ e \in disturbed'
  PROVE \A b \in Actor : CopyStep(b)
BY DEF CallTo, CopyStep

LEMMA SubmitTable ==
  ASSUME TypeInv, KnowInv, NEW a \in Actor, SubmitJob(a) \/ Track(a) \/ InsertAttempt(a)
  PROVE Table(a)
<1> DEFINE e == Of(a)
<1>0. ~Doing(a, "idle")
  BY DEF Doing, SubmitJob, Track, InsertAttempt
<1>1. /\ Records /\ e \in Execution /\ call[a] \in Call /\ e \in Actor
      /\ Idle.of \in Execution /\ {"idle", "track", "insert", "wait"} \subseteq CallLabel
  BY TypeRecords, CallFields, Fixed, ExecutionsAct
     DEF TypeInv, TypeOK, Of, CallLabel
<1> USE DEF runnerVars, rowVars, ghosts, Doing, Table
<1>2. CASE SubmitJob(a)
  <2>1. CASE Return(a) /\ UNCHANGED <<job, thread>>
    <3>1. CallTo(a, "idle", Idle.of, NoRow, "absent")
      BY <1>1, <2>1, CallMoves
    <3>2. \A b \in Actor : CopyStep(b)
      BY <1>0, <1>1, <3>1, Fixed, CopySteps
    <3>3. QED BY <1>2, <2>1, <3>2 DEF SubmitJob, JobStep, RowStep
  <2>2. CASE /\ job' = [job EXCEPT ![e] = [NoJob EXCEPT !.known = TRUE]]
             /\ Go(e, "start") /\ Move(a, "track")
    <3>1. CallTo(a, "track", e, call[a].copy, call[a].seen)
      BY <1>1, <2>2, CallMoves
    <3>2. \A b \in Actor : CopyStep(b)
      BY <1>0, <1>1, <3>1, CopySteps
    <3>3. JobTo(e, TRUE, "queued", FALSE, FALSE)
      BY <1>1, <2>2, JobMoves, "queued" \in Active DEF Active
    <3>4. \A d \in Execution : JobStep(a, d)
      BY <1>2, <2>2, <3>3 DEF SubmitJob, JobStep, JobTo, Go, TypeInv, TypeOK
    <3>5. QED BY <1>2, <2>2, <3>2, <3>4 DEF SubmitJob, RowStep
  <2>3. QED BY <1>2, <2>1, <2>2 DEF SubmitJob
<1>3. CASE Track(a)
  <2>1. CallTo(a, "insert", e, call[a].copy, call[a].seen)
    BY <1>1, <1>3, CallMoves DEF Track
  <2>2. \A b \in Actor : CopyStep(b)
    BY <1>0, <1>1, <2>1, CopySteps
  <2>3. QED BY <1>3, <2>2 DEF Track, JobStep, RowStep
<1>4. CASE InsertAttempt(a)
  <2>1. \A b \in Actor : CopyStep(b)
    <3>1. CASE Move(a, "wait")
      <4>1. CallTo(a, "wait", e, call[a].copy, call[a].seen)
        BY <1>1, <3>1, CallMoves
      <4>2. QED BY <1>0, <1>1, <4>1, CopySteps
    <3>2. CASE call' = [call EXCEPT ![a] = Idle,
                          ![e] = [Idle EXCEPT !.at = "wait", !.of = e]]
      <4> DEFINE w == [Idle EXCEPT !.at = "wait", !.of = e]
      <4>1. w.at = "wait" /\ w.of = e /\ w.copy = NoRow
        BY Fixed DEF Call
      <4>2. \A b \in Actor : \/ call'[b] = call[b] \/ call'[b] = Idle
                             \/ b = e /\ call'[b] = w
        BY <1>1, <3>2 DEF Records
      <4>3. ASSUME NEW b \in Actor PROVE CopyStep(b)
        <5>1. CASE call'[b] = Idle
          BY <5>1, Fixed DEF CopyStep
        <5>2. CASE b = e /\ call'[b] = w
          BY <4>1, <5>2, Fixed DEF CopyStep
        <5>3. QED BY <4>2, <5>1, <5>2 DEF CopyStep
      <4>4. QED BY <4>3
    <3>3. QED BY <1>4, <3>1, <3>2 DEF InsertAttempt
  <2>2. \A d \in Execution : RowStep(a, d)
    BY <1>1, <1>4, Fixed
       DEF InsertAttempt, Upsert, RowStep, TypeInv, TypeOK, NoRow
  <2>3. QED BY <1>4, <2>1, <2>2 DEF InsertAttempt, JobStep
<1>5. QED BY <1>2, <1>3, <1>4

LEMMA CancelTable ==
  ASSUME TypeInv, KnowInv, NEW a \in Actor, Doing(a, "reason") => Of(a) \in disturbed,
         \/ WaitUntilDone(a, "wait", "read") \/ WaitUntilDone(a, "live", "collect")
         \/ StopContainer(a) \/ MarkCancelled(a) \/ GiveReason(a)
  PROVE Table(a)
<1> DEFINE e == Of(a)
<1>0. ~Doing(a, "idle")
  BY DEF Doing, WaitUntilDone, StopContainer, MarkCancelled, GiveReason
<1>1. /\ Records /\ e \in Execution /\ call[a] \in Call
      /\ call[a].then \in {"read", "collect"}
      /\ {"read", "collect", "stop", "mark", "reason"} \subseteq CallLabel
  BY TypeRecords, CallFields DEF TypeInv, TypeOK, Of, CallLabel
<1>2. ASSUME NEW l \in {"read", "collect", "stop", "mark", "reason"},
             CallTo(a, l, e, call[a].copy, call[a].seen),
             l = "reason" => Doing(a, "mark") /\ e \in disturbed'
      PROVE \A b \in Actor : CopyStep(b)
  BY <1>0, <1>1, <1>2, CopySteps
<1> USE DEF runnerVars, rowVars, ghosts, Doing, Table
<1>3. ASSUME NEW l \in {"wait", "live"}, NEW t \in {"read", "collect"}, WaitUntilDone(a, l, t)
      PROVE Table(a)
  <2>1. Move(a, t) => CallTo(a, t, e, call[a].copy, call[a].seen)
    BY <1>1, CallMoves
  <2>2. call' = [call EXCEPT ![a].at = "stop", ![a].then = t] =>
          CallTo(a, "stop", e, call[a].copy, call[a].seen)
    BY <1>1, CallMoves
  <2>3. \A b \in Actor : CopyStep(b)
    BY <1>2, <1>3, <2>1, <2>2 DEF WaitUntilDone
  <2>4. QED BY <1>3, <2>3 DEF WaitUntilDone, JobStep, RowStep
<1>4. CASE StopContainer(a)
  <2>1. CallTo(a, "mark", e, call[a].copy, call[a].seen)
    BY <1>1, <1>4, CallMoves DEF StopContainer
  <2>2. \A b \in Actor : CopyStep(b)
    BY <1>2, <2>1
  <2>3. \A d \in Execution : container'[d] = "running" => container[d] = "running"
    BY <1>4 DEF StopContainer, Stops, Exited, TypeInv, TypeOK
  <2>4. QED BY <1>4, <2>2, <2>3 DEF StopContainer, JobStep, RowStep
<1>5. CASE MarkCancelled(a)
  <2>1. CallTo(a, "reason", e, call[a].copy, call[a].seen)
    BY <1>1, <1>5, CallMoves DEF MarkCancelled
  <2>2. \A b \in Actor : CopyStep(b)
    BY <1>2, <1>5, <2>1 DEF MarkCancelled
  <2>3. JobTo(e, job[e].known, "cancelled", job[e].id, job[e].error)
    BY <1>1, <1>5, JobMoves, "cancelled" \in Terminal
       DEF MarkCancelled, Terminal
  <2>4. \A d \in Execution : JobStep(a, d)
    BY <1>1, <1>5, <2>3 DEF MarkCancelled, JobTo, JobStep
  <2>5. QED BY <1>5, <2>2, <2>4 DEF MarkCancelled, RowStep
<1>6. CASE GiveReason(a)
  <2>1. call' = [call EXCEPT ![a].at = call[a].then, ![a].then = "read"]
    BY <1>6 DEF GiveReason
  <2>2. CallTo(a, call[a].then, e, call[a].copy, call[a].seen)
    BY <1>1, <2>1, CallMoves
  <2>3. \A b \in Actor : CopyStep(b)
    BY <1>1, <1>2, <2>2
  <2>4. JobTo(e, job[e].known, job[e].status, job[e].id, TRUE)
    BY <1>1, <1>6, JobMoves, "queued" \in Active DEF GiveReason, Active
  <2>5. \A d \in Execution : JobStep(a, d)
    BY <1>1, <1>6, <2>4 DEF GiveReason, JobTo, JobStep
  <2>6. \/ heeded' = heeded
        \/ /\ heeded' = heeded \cup {e} /\ job[e].status = "cancelled"
           /\ job'[e].error /\ thread[e] \in {"wait", "save"}
    BY <1>6, <2>4 DEF GiveReason, JobTo
  <2>7. QED BY <1>6, <2>3, <2>5, <2>6 DEF GiveReason, RowStep
<1>7. QED BY <1>3, <1>4, <1>5, <1>6

LEMMA FinalizeTable ==
  ASSUME TypeInv, KnowInv, NEW a \in Actor,
         ReadAttempt(a) \/ CollectResult(a) \/ StoreAttempt(a) \/ UpdateNode(a)
  PROVE Table(a)
<1> DEFINE e == Of(a)
<1>0. ~Doing(a, "idle")
  BY DEF Doing, ReadAttempt, CollectResult, StoreAttempt, UpdateNode
<1>1. /\ Records /\ e \in Execution /\ call[a] \in Call /\ row[e] \in Row
      /\ Idle.of \in Execution /\ {"idle", "live", "store", "node"} \subseteq CallLabel
  BY TypeRecords, CallFields, Fixed DEF TypeInv, TypeOK, Of, CallLabel
<1> USE DEF runnerVars, rowVars, ghosts, Doing, Table
<1>2. ASSUME CallTo(a, "idle", Idle.of, NoRow, "absent") PROVE \A b \in Actor : CopyStep(b)
  BY <1>0, <1>1, <1>2, Fixed, CopySteps
<1>3. CASE ReadAttempt(a)
  <2>1. CallTo(a, "live", e, row[e], call[a].seen)
    BY <1>1, <1>3, CallMoves DEF ReadAttempt
  <2>2. \A b \in Actor : CopyStep(b)
    BY <1>0, <1>1, <2>1, CopySteps
  <2>3. QED BY <1>3, <2>2 DEF ReadAttempt, JobStep, RowStep
<1>4. CASE CollectResult(a)
  <2>1. /\ job[e].status \in Active \cup Terminal /\ {"completed", "failed"} \subseteq Terminal
        /\ Terminal \subseteq Status /\ Active \cap Terminal = {}
    BY <1>1, JobFields DEF Records, Terminal, Status, Active
  <2>2. /\ Doing(a, "collect")
        /\ \/ Return(a) /\ job' = job
           \/ /\ job[e].status \in Terminal
              /\ \E s \in Terminal : /\ call' = [call EXCEPT ![a].seen = s, ![a].at = "store"]
                                     /\ s = "completed" => outputs[e] = "full"
              /\ \/ job' = job
                 \/ /\ job' = [job EXCEPT ![e].status = "failed", ![e].error = TRUE]
                    /\ ~(job[e].error /\ job[e].status # "completed")
    BY <1>4, <2>1 DEF CollectResult
  <2>3. Return(a) => CallTo(a, "idle", Idle.of, NoRow, "absent")
    BY <1>1, CallMoves
  <2>4. \A s \in Terminal : call' = [call EXCEPT ![a].seen = s, ![a].at = "store"] =>
                              CallTo(a, "store", e, call[a].copy, s)
    BY <1>1, <2>1, CallMoves
  <2>5. \A b \in Actor : CopyStep(b)
    <3>1. CASE Return(a)
      BY <1>2, <2>3, <3>1
    <3>2. ASSUME NEW s \in Terminal, call' = [call EXCEPT ![a].seen = s, ![a].at = "store"],
                 s = "completed" => outputs[e] = "full", job[e].status \in Terminal
          PROVE \A b \in Actor : CopyStep(b)
      BY <1>0, <1>1, <2>2, <2>4, <3>2, CopySteps
    <3>3. QED BY <2>2, <3>1, <3>2
  <2>6. job' = [job EXCEPT ![e].status = "failed", ![e].error = TRUE] =>
          JobTo(e, job[e].known, "failed", job[e].id, TRUE)
    BY <1>1, <2>1, JobMoves
  <2>7. thread' = thread
    BY <1>4 DEF CollectResult
  <2>8. \A d \in Execution : JobStep(a, d)
    BY <1>1, <2>2, <2>6, <2>7 DEF JobTo, JobStep
  <2>9. QED BY <1>4, <2>5, <2>8 DEF CollectResult, RowStep
<1>5. CASE StoreAttempt(a)
  <2>1. CallTo(a, "node", e, NoRow, call[a].seen)
    BY <1>1, <1>5, CallMoves, Fixed DEF StoreAttempt
  <2>2. \A b \in Actor : CopyStep(b)
    BY <1>0, <1>1, <2>1, Fixed, CopySteps
  <2>3. \A d \in Execution : RowStep(a, d)
    BY <1>1, <1>5 DEF StoreAttempt, Upsert, RowStep, TypeInv, TypeOK
  <2>4. QED BY <1>5, <2>2, <2>3 DEF StoreAttempt, JobStep
<1>6. CASE UpdateNode(a)
  <2>1. CallTo(a, "idle", Idle.of, NoRow, "absent")
    BY <1>1, <1>6, CallMoves DEF UpdateNode
  <2>2. QED BY <1>2, <1>6, <2>1 DEF UpdateNode, JobStep, RowStep
<1>7. QED BY <1>3, <1>4, <1>5, <1>6

LEMMA RefreshTable ==
  ASSUME TypeInv, KnowInv, NEW a \in Actor,
         \/ PollRunner(a) \/ SyncAttempt(a) \/ ReconcileAttempt(a) \/ LeaveAttempt(a)
         \/ DemoteAttempt(a) \/ MarkInterrupted(a)
  PROVE Table(a)
<1> DEFINE e == Of(a)
<1>0. ~Doing(a, "idle")
  BY DEF Doing, PollRunner, SyncAttempt, ReconcileAttempt, LeaveAttempt,
     DemoteAttempt, MarkInterrupted
<1>1. /\ Records /\ e \in Execution /\ call[a] \in Call /\ row[e] \in Row
      /\ Idle.of \in Execution
      /\ {"idle", "read", "sync", "inspect", "demote"} \subseteq CallLabel
      /\ call[a].copy \in Row /\ row \in [Execution -> Row]
      /\ SeenOK(call[a].at, call[a].seen) /\ call[a].seen \in Status \cup {"absent"}
  BY TypeRecords, CallFields, Fixed
     DEF TypeInv, TypeOK, Of, CallLabel, KnowInv, SeenInv
<1> USE DEF runnerVars, rowVars, ghosts, Doing, Table
<1>2. ASSUME CallTo(a, "idle", Idle.of, NoRow, "absent") PROVE \A b \in Actor : CopyStep(b)
  BY <1>0, <1>1, <1>2, Fixed, CopySteps
<1>3. Return(a) => CallTo(a, "idle", Idle.of, NoRow, "absent")
  BY <1>1, CallMoves
<1>4. CASE PollRunner(a)
  <2>1. job[e].status \in Status \cup {"absent"}
    BY <1>1, JobFields DEF Status, Records
  <2>2. call' = [call EXCEPT ![a].seen = job[e].status, ![a].at = "sync"] =>
          CallTo(a, "sync", e, call[a].copy, job[e].status)
    BY <1>1, <2>1, CallMoves
  <2>3. Move(a, "inspect") => CallTo(a, "inspect", e, call[a].copy, call[a].seen)
    BY <1>1, CallMoves
  <2>4. CallTo(a, "inspect", e, call[a].copy, call[a].seen) => \A b \in Actor : CopyStep(b)
    BY <1>0, <1>1, CopySteps
  <2>5. Doing(a, "poll") /\ CallTo(a, "sync", e, call[a].copy, job[e].status) =>
          \A b \in Actor : CopyStep(b)
    BY <1>0, <1>1, CopySteps
  <2>6. QED BY <1>4, <2>2, <2>3, <2>4, <2>5 DEF PollRunner, JobStep, RowStep
<1>5. CASE SyncAttempt(a)
  <2>1. Begin(a, e, "read") => CallTo(a, "read", e, NoRow, "absent")
    BY <1>1, CallMoves
  <2>2. CallTo(a, "read", e, NoRow, "absent") => \A b \in Actor : CopyStep(b)
    BY <1>0, <1>1, Fixed, CopySteps
  <2>3. \A b \in Actor : CopyStep(b)
    BY <1>2, <1>3, <1>5, <2>1, <2>2 DEF SyncAttempt
  <2> DEFINE r == [call[a].copy EXCEPT !.status = call[a].seen]
  <2>4. r.status = call[a].seen /\ r.metrics = call[a].copy.metrics
    BY <1>1 DEF Row
  <2>5. row' = [row EXCEPT ![e] = r]
    BY <1>5 DEF SyncAttempt, Upsert
  <2>6. \A d \in Execution : RowStep(a, d)
    BY <1>1, <1>5, <2>4, <2>5 DEF SyncAttempt, RowStep
  <2>7. QED BY <1>5, <2>3, <2>6 DEF SyncAttempt, JobStep
<1>6. CASE ReconcileAttempt(a)
  <2>1. call[a].copy.status \in Status
    BY <1>6 DEF ReconcileAttempt, Status
  <2>2. Reconciled(e, call[a].copy.status) \subseteq Status
    BY <1>1, <2>1
       DEF Reconciled, DiskSays, DockerSays, Status, Active, Terminal, TypeInv,
           TypeOK
  <2>3. PICK s \in Reconciled(e, call[a].copy.status) :
          call' = [call EXCEPT ![a].seen = s, ![a].at = "demote"]
    BY <1>6 DEF ReconcileAttempt
  <2>4. CallTo(a, "demote", e, call[a].copy, s)
    <3>1. s \in Status \cup {"absent"}
      BY <2>2
    <3>2. QED BY <1>1, <2>3, <3>1, CallMoves
  <2>5. \A b \in Actor : CopyStep(b)
    BY <1>0, <1>1, <2>4, CopySteps
  <2>6. QED BY <1>6, <2>5 DEF ReconcileAttempt, JobStep, RowStep
<1>7. CASE LeaveAttempt(a)
  BY <1>2, <1>3, <1>7 DEF LeaveAttempt, JobStep, RowStep
<1>8. CASE DemoteAttempt(a)
  <2>1. \A d \in Execution : RowStep(a, d)
    BY <1>1, <1>8 DEF DemoteAttempt, Upsert, RowStep
  <2>2. QED BY <1>2, <1>3, <1>8, <2>1 DEF DemoteAttempt, JobStep
<1>9. CASE MarkInterrupted(a)
  <2> DEFINE r == [call[a].copy EXCEPT !.status = "interrupted", !.error = TRUE]
  <2>1. r.status = "interrupted" /\ r.metrics = call[a].copy.metrics
    BY <1>1 DEF Row
  <2>2. \/ row' = row
        \/ e \notin tracked /\ row' = [row EXCEPT ![e] = r]
    BY <1>9 DEF MarkInterrupted, Upsert
  <2>3. \A d \in Execution : RowStep(a, d)
    BY <1>1, <1>9, <2>1, <2>2 DEF MarkInterrupted, RowStep
  <2>4. QED BY <1>2, <1>3, <1>9, <2>3 DEF MarkInterrupted, JobStep
<1>10. QED BY <1>4, <1>5, <1>6, <1>7, <1>8, <1>9

LEMMA BeginTable ==
  ASSUME TypeInv, KnowInv, NEW c \in Caller, NEW e \in Execution, CallBegin(c, e)
  PROVE Table(c)
<1>1. /\ Records /\ c \in Actor /\ row[e] \in Row
      /\ {"stop", "poll", "recover", "submit"} \subseteq CallLabel
  BY TypeRecords, ExecutionsAct DEF TypeInv, TypeOK, CallLabel
<1>2. ASSUME NEW l \in {"stop", "poll", "recover", "submit"},
             Begin(c, e, l) \/ BeginWithRow(c, e, l)
      PROVE \A b \in Actor : CopyStep(b)
  <2>1. \/ CallTo(c, l, e, NoRow, "absent") \/ CallTo(c, l, e, row[e], "absent")
    BY <1>1, <1>2, CallMoves
  <2>2. CallTo(c, l, e, NoRow, "absent") => \A b \in Actor : CopyStep(b)
    BY <1>1, Fixed, CopySteps
  <2>3. CallTo(c, l, e, row[e], "absent") => \A b \in Actor : CopyStep(b)
    BY <1>1, CopySteps
  <2>4. QED BY <2>1, <2>2, <2>3
<1> USE DEF runnerVars, rowVars, ghosts, Doing, Table
<1>3. CASE RunContract(c, e)
  BY <1>2, <1>3 DEF RunContract, JobStep, RowStep
<1>4. CASE CancelExecution(c, e)
  BY <1>2, <1>4 DEF CancelExecution, JobStep, RowStep
<1>5. CASE RefreshExecution(c, e)
  BY <1>2, <1>5 DEF RefreshExecution, JobStep, RowStep
<1>6. CASE Recover(c, e)
  BY <1>2, <1>6 DEF Recover, JobStep, RowStep
<1>7. QED BY <1>3, <1>4, <1>5, <1>6 DEF CallBegin

-----------------------------------------------------------------------------
(* The invariants that follow a result from the container to the row *)

(* A thread that leaves its body has a verdict, a completed job is done, and *)
(* a cancel that is about to give its reason has marked the job.             *)
VerdictInv ==
  /\ \A e \in Execution :
       /\ At(e, "status") => verdict[e] \in Terminal
       /\ job[e].status = "completed" => thread[e] \in {"remove", "end"}
  /\ \A a \in Actor : Doing(a, "reason") => Of(a) \in disturbed

(* A thread that has ended has removed its container, if Docker let it. *)
EndInv ==
  \A e \in Execution : At(e, "end") /\ container[e] = "running" => e \in disturbed

(* Metrics, in a row, a copy of one, or a result, have been written. *)
MetricsInv ==
  /\ ResultsAreReal
  /\ \A a \in Actor :
       /\ call[a].copy.metrics => outputs[Of(a)] # "none"
       /\ Doing(a, "store") /\ call[a].seen = "completed" => outputs[Of(a)] = "full"

(* What a job that was cancelled in time looks like from then on. *)
Heeded(e) ==
  /\ e \in disturbed
  /\ job[e].known =>
       /\ job[e].error /\ job[e].status # "completed"
       /\ thread[e] \notin {"start", "plan", "run", "attach"}
       /\ thread[e] \in {"wait", "save", "decide"} => job[e].status = "cancelled"
       /\ thread[e] = "status" => verdict[e] # "completed"

HeededInv == \A e \in heeded : Heeded(e)

(* A terminal status that stays one: the thread writes no other any more. *)
Over(e) == job[e].status \in Terminal /\ thread[e] \notin {"start", "plan"}

OverInv ==
  /\ \A e \in Execution : job[e].known /\ row[e].status = "completed" => Over(e)
  /\ \A a \in Actor :
       call[a].at \in {"sync", "store"} /\ call[a].seen = "completed" => Over(Of(a))

FinishInv == /\ VerdictInv /\ EndInv /\ LiveJobsSpared /\ MetricsInv /\ HeededInv
             /\ OverInv

LEMMA ThreadFinish ==
  ASSUME TypeInv, KnowInv, FinishInv, NEW e \in Execution,
         ThreadStep(e) \/ WriteOutputs(e) \/ Exit(e)
  PROVE FinishInv'
<1> USE DEF runnerVars, rowVars, ghosts, bounds, FinishInv
<1>1. CASE Thread(e) /\ UNCHANGED <<outputs, rowVars, tracked, call, ghosts, bounds>>
  <2>1. UNCHANGED <<outputs, row, call, heeded, disturbed>>
    BY <1>1
  <2>2. VerdictInv'
    BY <1>1, <2>1, ThreadFacts DEF VerdictInv, At, Doing, Of, Active
  <2>3. EndInv'
    BY <1>1, <2>1, ThreadFacts DEF EndInv, At
  <2>4. LiveJobsSpared'
    BY <1>1, <2>1, ThreadFacts DEF LiveJobsSpared
  <2>5. MetricsInv'
    BY <2>1 DEF MetricsInv, ResultsAreReal, Doing, Of
  <2>6. HeededInv'
    <3> SUFFICES ASSUME NEW d \in heeded PROVE Heeded(d)'
      BY <2>1 DEF HeededInv
    <3>1. Heeded(d) /\ d \in Execution
      BY DEF HeededInv, TypeInv, TypeOK
    <3>2. CASE d # e
      BY <1>1, <2>1, <3>1, <3>2, ThreadFacts DEF Heeded
    <3>3. CASE d = e
      BY <1>1, <2>1, <3>1, <3>3, ThreadFacts DEF Heeded, Active
    <3>4. QED BY <3>2, <3>3
  <2>7. ASSUME NEW d \in Execution, Over(d) PROVE Over(d)'
    <3>1. CASE d # e
      BY <1>1, <2>7, <3>1, ThreadFacts DEF Over
    <3>2. CASE d = e
      BY <1>1, <2>7, <3>2, ThreadFacts DEF Over, VerdictInv, At
    <3>3. QED BY <3>1, <3>2
  <2>8. OverInv'
    <3>1. \A a \in Actor : Of(a) \in Execution
      BY CallFields DEF Of, TypeInv, TypeOK
    <3>2. \A d \in Execution : job'[d].known = job[d].known
      BY <1>1, ThreadFacts
    <3>3. QED BY <2>1, <2>7, <3>1, <3>2 DEF OverInv, Of
  <2>9. QED BY <2>2, <2>3, <2>4, <2>5, <2>6, <2>8
<1>2. CASE RemoveContainer(e)
  <2>1. /\ UNCHANGED <<job, verdict, outputs, row, call, heeded>>
        /\ thread[e] = "remove" /\ thread' = [thread EXCEPT ![e] = "end"]
        /\ disturbed \subseteq disturbed'
        /\ thread \in [Execution -> ThreadLabel]
    BY <1>2 DEF RemoveContainer, At, Go, TypeInv, TypeOK
  <2>2. EndInv'
    BY <1>2, <2>1 DEF EndInv, At, RemoveContainer, TypeInv, TypeOK
  <2>3. VerdictInv' /\ LiveJobsSpared' /\ MetricsInv'
    BY <2>1
       DEF VerdictInv, LiveJobsSpared, MetricsInv, ResultsAreReal, At, Doing, Of
  <2>4. HeededInv'
    BY <2>1 DEF HeededInv, Heeded, TypeInv, TypeOK
  <2>5. OverInv'
    BY <2>1 DEF OverInv, Over, Of
  <2>6. QED BY <2>2, <2>3, <2>4, <2>5
<1>3. CASE WriteOutputs(e) \/ Exit(e)
  <2>1. /\ UNCHANGED <<job, thread, verdict, row, call, heeded, disturbed>>
        /\ \A d \in Execution : /\ container'[d] = "running" => container[d] = "running"
                                /\ outputs[d] # "none" => outputs'[d] # "none"
                                /\ outputs[d] = "full" => outputs'[d] = "full"
    BY <1>3 DEF WriteOutputs, Exit, Stops, Exited, TypeInv, TypeOK
  <2>2. MetricsInv'
    <3>1. \A a \in Actor : Of(a) \in Execution
      BY CallFields DEF Of, TypeInv, TypeOK
    <3>2. QED BY <2>1, <3>1 DEF MetricsInv, ResultsAreReal, Doing, Of
  <2>3. VerdictInv' /\ EndInv' /\ LiveJobsSpared'
    BY <2>1 DEF VerdictInv, EndInv, LiveJobsSpared, At, Doing, Of
  <2>4. HeededInv' /\ OverInv'
    BY <2>1 DEF HeededInv, Heeded, OverInv, Over, Of
  <2>5. QED BY <2>2, <2>3, <2>4
<1>4. QED BY <1>1, <1>2, <1>3 DEF ThreadStep

LEMMA TableFinish ==
  ASSUME TypeInv, KnowInv, TypeInv', KnowInv', FinishInv, NEW a \in Actor, Table(a)
  PROVE FinishInv'
<1> USE DEF FinishInv
<1>1. /\ \A b \in Actor : Of(b) \in Execution /\ CallKnows(b) /\ SeenOK(call[b].at, call[b].seen)
      /\ \A e \in Execution : JobLeft(e)
      /\ \A b \in Actor : call'[b].of \in Execution
  BY CallFields DEF TypeInv, TypeOK, Of, KnowInv, CallInv, SeenInv, JobInv
<1>2. VerdictInv'
  <2>1. ASSUME NEW e \in Execution
        PROVE /\ At(e, "status")' => verdict'[e] \in Terminal
              /\ job'[e].status = "completed" => thread'[e] \in {"remove", "end"}
    <3>1. JobStep(a, e) /\ verdict' = verdict
      BY DEF Table
    <3>2. QED BY <3>1 DEF JobStep, VerdictInv, At
  <2>2. ASSUME NEW b \in Actor, call'[b].at = "reason" PROVE call'[b].of \in disturbed'
    <3>1. CopyStep(b) /\ disturbed \subseteq disturbed'
      BY DEF Table
    <3>2. QED BY <2>2, <3>1 DEF CopyStep, VerdictInv, Doing, Of
  <2>3. QED BY <2>1, <2>2 DEF VerdictInv, Doing, Of
<1>3. EndInv'
  <2> SUFFICES ASSUME NEW e \in Execution, thread'[e] = "end", container'[e] = "running"
               PROVE e \in disturbed'
    BY DEF EndInv, At
  <2>1. JobStep(a, e) /\ container[e] = "running" /\ disturbed \subseteq disturbed'
    BY DEF Table
  <2>2. thread[e] = "end"
    BY <2>1 DEF JobStep
  <2>3. QED BY <2>1, <2>2 DEF EndInv, At
<1>4. LiveJobsSpared'
  <2> SUFFICES ASSUME NEW e \in Execution, job'[e].known, row'[e].status = "interrupted"
               PROVE FALSE
    BY DEF LiveJobsSpared
  <2>1. JobStep(a, e) /\ RowStep(a, e)
    BY DEF Table
  <2>2. CASE row'[e] = row[e]
    <3>1. ~job[e].known
      BY <2>2 DEF LiveJobsSpared
    <3>2. Doing(a, "submit") /\ e = Of(a)
      BY <2>1, <3>1 DEF JobStep
    <3>3. row[e] = NoRow
      BY <1>1, <3>2 DEF CallKnows, Doing, Submitting
    <3>4. QED BY <2>2, <3>3, Fixed
  <2>3. CASE row'[e] # row[e]
    <3>1. e = Of(a) /\ call[a].at \in {"demote", "recover"}
      BY <1>1, <2>1, <2>3
         DEF RowStep, SeenOK, Doing, Finalized, Active, Terminal
    <3>2. ~job[e].known
      BY <1>1, <2>1, <2>3, <3>1
         DEF RowStep, CallKnows, JobLeft, Doing, Offline, OldRow
    <3>3. QED BY <2>1, <3>1, <3>2 DEF JobStep, Doing
  <2>4. QED BY <2>2, <2>3
<1>5. MetricsInv'
  <2>1. outputs' = outputs
    BY DEF Table
  <2>2. ASSUME NEW e \in Execution, row'[e].metrics PROVE outputs[e] # "none"
    <3>1. RowStep(a, e)
      BY DEF Table
    <3>2. Finalized(call[a]).metrics => call[a].seen = "completed"
      BY DEF Finalized
    <3>3. QED BY <2>2, <3>1, <3>2 DEF RowStep, MetricsInv, ResultsAreReal
  <2>3. ASSUME NEW b \in Actor
        PROVE /\ call'[b].copy.metrics => outputs[call'[b].of] # "none"
              /\ call'[b].at = "store" /\ call'[b].seen = "completed" =>
                    outputs[call'[b].of] = "full"
    <3>1. CopyStep(b)
      BY DEF Table
    <3>2. QED BY <1>1, <3>1 DEF CopyStep, MetricsInv, ResultsAreReal, Doing, Of
  <2>4. QED BY <2>1, <2>2, <2>3 DEF MetricsInv, ResultsAreReal, Doing, Of
<1>6. HeededInv'
  <2> SUFFICES ASSUME NEW e \in heeded' PROVE Heeded(e)'
    BY DEF HeededInv
  <2>1. e \in Execution /\ JobStep(a, e) /\ verdict' = verdict /\ disturbed \subseteq disturbed'
    BY DEF Table, TypeInv, TypeOK
  <2>2. CASE e \in heeded
    <3>1. Heeded(e)
      BY <2>2 DEF HeededInv
    <3>2. ~(Doing(a, "submit") /\ e = Of(a))
      BY <1>1, <3>1 DEF Heeded, CallKnows
    <3>3. QED BY <2>1, <3>1, <3>2 DEF Heeded, JobStep
  <2>3. CASE e \notin heeded
    <3>1. /\ Doing(a, "reason") /\ e = Of(a) /\ job[e].status = "cancelled"
          /\ job'[e].error /\ thread[e] \in {"wait", "save"}
      BY <2>3 DEF Table
    <3>2. e \in disturbed
      BY <3>1 DEF VerdictInv
    <3>3. job[e].known
      BY <1>1, <3>1 DEF CallKnows, Doing, InService
    <3>4. QED BY <2>1, <3>1, <3>2, <3>3 DEF Heeded, JobStep, Doing
  <2>4. QED BY <2>2, <2>3
<1>7. OverInv'
  <2>1. ASSUME NEW e \in Execution, Over(e), job[e].known PROVE Over(e)'
    <3>1. JobStep(a, e)
      BY DEF Table
    <3>2. ~(Doing(a, "submit") /\ e = Of(a))
      BY <1>1, <2>1 DEF CallKnows
    <3>3. QED BY <2>1, <3>1, <3>2 DEF Over, JobStep, Terminal
  <2>2. ASSUME NEW e \in Execution, job'[e].known, row'[e].status = "completed"
        PROVE Over(e)'
    <3>1. RowStep(a, e) /\ JobStep(a, e)
      BY DEF Table
    <3>2. job[e].known
      <4>1. CASE ~job[e].known
        <5>1. Doing(a, "submit") /\ e = Of(a)
          BY <2>2, <3>1, <4>1 DEF JobStep
        <5>2. row[e] = NoRow
          BY <1>1, <5>1 DEF CallKnows, Doing, Submitting
        <5>3. row'[e] = row[e]
          BY <3>1, <5>1 DEF RowStep, Doing
        <5>4. QED BY <2>2, <5>2, <5>3, Fixed
      <4>2. QED BY <4>1
    <3>3. CASE row'[e] = row[e]
      BY <2>1, <2>2, <3>2, <3>3 DEF OverInv
    <3>4. CASE row'[e] # row[e]
      <4>1. ~Doing(a, "demote") \/ e # Of(a)
        BY <1>1, <3>2 DEF CallKnows, Doing, Offline
      <4>2. e = Of(a) /\ call[a].at \in {"sync", "store"} /\ call[a].seen = "completed"
        BY <2>2, <3>1, <3>4, <4>1 DEF RowStep, Doing, Finalized
      <4>3. QED BY <2>1, <3>2, <4>2 DEF OverInv
    <3>5. QED BY <3>3, <3>4
  <2>3. ASSUME NEW b \in Actor, call'[b].at \in {"sync", "store"},
               call'[b].seen = "completed"
        PROVE Over(Of(b))'
    <3>1. CopyStep(b)
      BY DEF Table
    <3> DEFINE Kept(d) == job[d].known /\ Over(d) /\ call'[b].of = d
    <3>2. ASSUME NEW d \in Execution, Kept(d) PROVE Over(Of(b))'
      BY <2>1, <3>2 DEF Over, Of
    <3>3. CASE call'[b] = call[b]
      <4>1. Kept(Of(b))
        BY <1>1, <2>3, <3>3 DEF OverInv, CallKnows, InService, Of
      <4>2. QED BY <1>1, <3>2, <4>1
    <3>4. CASE call'[b] # call[b] /\ call'[b].at = "sync"
      <4>1. call'[b].of = Of(b) /\ job[Of(b)].status = "completed"
        BY <2>3, <3>1, <3>4 DEF CopyStep
      <4>2. Over(Of(b))
        BY <1>1, <4>1 DEF VerdictInv, Over, Terminal
      <4>3. job[Of(b)].known
        BY <1>1, <4>1, "completed" # "queued" DEF JobLeft, NoJob
      <4>4. QED BY <1>1, <3>2, <4>1, <4>2, <4>3
    <3>5. CASE call'[b] # call[b] /\ call'[b].at = "store"
      <4>1. call'[b].of = Of(b) /\ job[Of(b)].status \in Terminal /\ outputs[Of(b)] = "full"
            /\ Doing(b, "collect")
        BY <2>3, <3>1, <3>5 DEF CopyStep
      <4>2. job[Of(b)].known
        BY <1>1, <4>1 DEF CallKnows, Doing, InService
      <4>3. Over(Of(b))
        BY <1>1, <4>1, <4>2 DEF JobLeft, Over
      <4>4. QED BY <1>1, <3>2, <4>1, <4>2, <4>3
    <3>6. QED BY <2>3, <3>3, <3>4, <3>5
  <2>4. QED BY <2>2, <2>3 DEF OverInv, Over, Of
<1>8. QED BY <1>2, <1>3, <1>4, <1>5, <1>6, <1>7

LEMMA RestartFinish == ASSUME TypeInv, KnowInv, FinishInv, Restart PROVE FinishInv'
<1> USE DEF rowVars, FinishInv
<1>1. /\ \A e \in Execution : /\ ~job'[e].known /\ job'[e].status = "queued"
                              /\ thread'[e] = "none"
      /\ \A a \in Actor : call'[a].at = "idle" /\ call'[a].seen = "absent"
                          /\ ~call'[a].copy.metrics
      /\ UNCHANGED <<row, outputs, heeded>> /\ disturbed \subseteq disturbed'
  BY Fixed DEF Restart, NoJob
<1>2. VerdictInv' /\ EndInv' /\ LiveJobsSpared' /\ MetricsInv'
  BY <1>1
     DEF VerdictInv, EndInv, LiveJobsSpared, MetricsInv, ResultsAreReal, At,
         Doing, Of
<1>3. HeededInv' /\ OverInv'
  BY <1>1 DEF HeededInv, Heeded, OverInv, TypeInv, TypeOK
<1>4. QED BY <1>2, <1>3

LEMMA InitFinish == Init => FinishInv
<1> SUFFICES ASSUME Init PROVE FinishInv
  OBVIOUS
<1>1. /\ \A e \in Execution : /\ ~job[e].known /\ job[e].status = "queued"
                              /\ thread[e] = "none" /\ ~row[e].metrics
      /\ \A a \in Actor : call[a].at = "idle" /\ call[a].seen = "absent"
                          /\ ~call[a].copy.metrics
      /\ heeded = {}
  BY Fixed DEF Init, NoJob
<1>2. QED
  BY <1>1
     DEF FinishInv, VerdictInv, EndInv, LiveJobsSpared, MetricsInv,
         ResultsAreReal, HeededInv, OverInv, At, Doing

-----------------------------------------------------------------------------
(* The inductive invariant, and the theorems *)

Inv == TypeInv /\ KnowInv /\ FinishInv

LEMMA InvInit == Init => Inv
BY InitType, InitKnows, InitFinish DEF Inv

LEMMA InvNext == Inv /\ [Next]_vars => Inv'
<1> SUFFICES ASSUME TypeInv, KnowInv, FinishInv, [Next]_vars PROVE Inv'
  BY DEF Inv
<1>1. TypeInv' /\ KnowInv'
  BY NextKnows
<1>2. CASE UNCHANGED vars
  BY <1>1, <1>2
     DEF vars, runnerVars, rowVars, ghosts, bounds, Inv, FinishInv, VerdictInv,
         EndInv, LiveJobsSpared, MetricsInv, ResultsAreReal, HeededInv, Heeded,
         OverInv, Over, At, Doing, Of
<1>3. ASSUME NEW e \in Execution, ThreadStep(e) \/ WriteOutputs(e) \/ Exit(e) PROVE Inv'
  BY <1>1, <1>3, ThreadFinish DEF Inv
<1>4. ASSUME NEW a \in Actor, CallStep(a) PROVE Inv'
  <2>1. Doing(a, "reason") => Of(a) \in disturbed
    BY DEF FinishInv, VerdictInv
  <2>2. Table(a)
    BY <1>4, <2>1, SubmitTable, CancelTable, FinalizeTable, RefreshTable
       DEF CallStep
  <2>3. QED BY <1>1, <2>2, TableFinish DEF Inv
<1>5. ASSUME NEW e \in Execution, NEW c \in Caller, CallBegin(c, e) PROVE Inv'
  BY <1>1, <1>5, BeginTable, ExecutionsAct, TableFinish DEF Inv
<1>6. CASE Restart
  BY <1>1, <1>6, RestartFinish DEF Inv
<1>7. QED BY <1>2, <1>3, <1>4, <1>5, <1>6 DEF Next

THEOREM InvHolds == Spec => []Inv
BY InvInit, InvNext, PTL DEF Spec

(* Every variable keeps its type: the bounds are kept, and every row and    *)
(* node has a status the code knows.                                        *)
THEOREM TypeCorrect == Spec => []TypeOK
<1>1. Inv => TypeOK
  BY DEF Inv, TypeInv
<1>2. QED BY <1>1, InvHolds, PTL

(* Metrics in an attempt's row were written by its container, however many  *)
(* finalizers, refreshes and reconciliations have written the row.          *)
THEOREM ResultsReal == Spec => []ResultsAreReal
<1>1. Inv => ResultsAreReal
  BY DEF Inv, FinishInv, MetricsInv
<1>2. QED BY <1>1, InvHolds, PTL

(* A cancel that is written down, with its reason, before the job's thread  *)
(* looks at the exit code is not overwritten by a success.                  *)
THEOREM InTimeCancelHeeded == Spec => []CancelHeeded
<1>1. Inv => CancelHeeded
  <2> SUFFICES ASSUME Inv, NEW e \in heeded PROVE job[e].status # "completed"
    BY DEF CancelHeeded
  <2>1. e \in Execution /\ Heeded(e) /\ JobLeft(e)
    BY DEF Inv, TypeInv, TypeOK, FinishInv, HeededInv, KnowInv, JobInv
  <2>2. CASE job[e].known
    BY <2>1, <2>2 DEF Heeded
  <2>3. CASE ~job[e].known
    BY <2>1, <2>3 DEF JobLeft, NoJob
  <2>4. QED BY <2>2, <2>3
<1>2. QED BY <1>1, InvHolds, PTL

(* Recovery and reconciliation call no job interrupted that this process    *)
(* still runs.                                                              *)
THEOREM LiveSpared == Spec => []LiveJobsSpared
<1>1. Inv => LiveJobsSpared
  BY DEF Inv, FinishInv
<1>2. QED BY <1>1, InvHolds, PTL

(* A container runs only under a job thread that will end it, unless the    *)
(* process was restarted, the job cancelled, or Docker refused its removal. *)
THEOREM ContainersOwned == Spec => []ContainerHasThread
<1>1. Inv => ContainerHasThread
  <2> SUFFICES ASSUME Inv, NEW e \in Execution, container[e] = "running", e \notin disturbed
               PROVE thread[e] \notin {"none", "end"}
    BY DEF ContainerHasThread
  <2>1. JobLeft(e) /\ EndInv
    BY DEF Inv, KnowInv, JobInv, FinishInv
  <2>2. QED BY <2>1 DEF JobLeft, EndInv, At
<1>2. QED BY <1>1, InvHolds, PTL

-----------------------------------------------------------------------------
(* Completed rows get their metrics *)

(* A finalize watcher works for its execution only. *)
WatcherInv == \A e \in Execution : call[e].at = "idle" \/ Of(e) = e

Finalizing(a, e) == Of(a) = e /\ call[a].at \in {"read", "live", "collect", "store"}

LEMMA WatcherTable ==
  ASSUME Inv, WatcherInv, NEW a \in Actor, Table(a) PROVE WatcherInv'
<1> SUFFICES ASSUME NEW e \in Execution, call'[e].at # "idle" PROVE call'[e].of = e
  BY DEF WatcherInv, Of
<1>1. e \notin Caller /\ CopyStep(e) /\ (call[e].at = "idle" \/ Of(e) = e)
  BY ExecutionsAct, ActorAssumption DEF Table, WatcherInv
<1>2. QED BY <1>1 DEF CopyStep, Doing, Of

(* A call on its way to store a result goes on, or stores it. *)
LEMMA FinalizingGoesOn ==
  ASSUME Inv, WatcherInv, NEW a \in Actor, CallStep(a), NEW w \in Actor,
         NEW e \in Execution, Finalizing(w, e), Over(e), job[e].known
  PROVE \/ Finalizing(w, e)'
        \/ row'[e].status = "completed" => row'[e].metrics
<1>1. /\ Records /\ e \in Execution /\ call[a] \in Call /\ call[w] \in Call
      /\ {"read", "live", "collect", "store", "node"} \subseteq CallLabel
      /\ row \in [Execution -> Row] /\ job[e].status \in Terminal
  BY TypeRecords DEF Inv, TypeInv, TypeOK, CallLabel, Over
<1> USE DEF Doing, runnerVars, rowVars
<1>2. CASE w = a
  <2>1. CASE ReadAttempt(a)
    <3>1. CallTo(a, "live", Of(a), row[Of(a)], call[a].seen)
      BY <1>1, <1>2, <2>1, CallMoves DEF ReadAttempt, Finalizing
    <3>2. QED BY <1>2, <3>1 DEF Finalizing, CallTo, Of
  <2>2. CASE WaitUntilDone(a, "live", "collect")
    <3>1. Move(a, "collect")
      BY <1>1, <1>2, <2>2 DEF WaitUntilDone, Finalizing
    <3>2. CallTo(a, "collect", Of(a), call[a].copy, call[a].seen)
      BY <1>1, <1>2, <3>1, CallMoves DEF Finalizing
    <3>3. QED BY <1>2, <3>2 DEF Finalizing, CallTo, Of
  <2>3. CASE CollectResult(a)
    <3>1. PICK s \in Terminal : call' = [call EXCEPT ![a].seen = s, ![a].at = "store"]
      BY <1>1, <1>2, <2>3 DEF CollectResult, Finalizing, Terminal
    <3>2. CallTo(a, "store", Of(a), call[a].copy, s)
      BY <1>1, <1>2, <3>1, CallMoves DEF Finalizing, Status
    <3>3. QED BY <1>2, <3>2 DEF Finalizing, CallTo, Of
  <2>4. CASE StoreAttempt(a)
    <3>1. row'[Of(a)] = Finalized(call[a])
      BY <1>1, <1>2, <2>4 DEF StoreAttempt, Upsert, Finalizing
    <3>2. Finalized(call[a]).status = "completed" => Finalized(call[a]).metrics
      BY DEF Finalized
    <3>3. Of(a) = e
      BY <1>2 DEF Finalizing
    <3>4. QED BY <3>1, <3>2, <3>3
  <2>5. QED
    BY <1>2, <2>1, <2>2, <2>3, <2>4
       DEF CallStep, Finalizing, SubmitJob, Track, InsertAttempt, WaitUntilDone,
           StopContainer, MarkCancelled, GiveReason, UpdateNode, PollRunner,
           SyncAttempt, ReconcileAttempt, LeaveAttempt, DemoteAttempt,
           MarkInterrupted
<1>3. CASE w # a
  <2>1. CASE InsertAttempt(a)
    <3>1. Of(a) # e
      BY <1>3, <2>1
         DEF InsertAttempt, Finalizing, Inv, KnowInv, SubmitInv, Submitting
    <3>2. w # Of(a)
      <4>1. Of(a) \in Execution
        BY <1>1, CallFields DEF Of
      <4>2. QED BY <3>1, <4>1 DEF WatcherInv, Finalizing
    <3>3. call'[w] = call[w]
      BY <1>1, <1>3, <2>1, <3>2 DEF InsertAttempt, Move, Records
    <3>4. QED BY <3>3 DEF Finalizing, Of
  <2>2. CASE ~InsertAttempt(a)
    <3>1. call'[w] = call[w]
      BY <1>1, <1>3, <2>2
         DEF Records, CallStep, SubmitJob, Track, WaitUntilDone, ReadAttempt,
             StopContainer, MarkCancelled, GiveReason, CollectResult,
             StoreAttempt, UpdateNode, PollRunner, SyncAttempt,
             ReconcileAttempt, LeaveAttempt, DemoteAttempt, MarkInterrupted,
             Move, Return, Begin
    <3>2. QED BY <3>1 DEF Finalizing, Of
  <2>3. QED BY <2>1, <2>2
<1>4. QED BY <1>2, <1>3

(* Only a refresh writes completed without metrics, and it goes on to finalize. *)
LEMMA RefreshFinalizes ==
  ASSUME Inv, NEW a \in Actor, CallStep(a), Table(a), NEW e \in Execution, job[e].known,
         row'[e] # row[e], row'[e].status = "completed", ~row'[e].metrics
  PROVE Finalizing(a, e)'
<1>1. /\ Records /\ call[a] \in Call /\ CallKnows(a) /\ "read" \in CallLabel
      /\ Of(a) \in Execution
  BY TypeRecords, CallFields
     DEF Inv, TypeInv, TypeOK, CallLabel, KnowInv, CallInv, Of
<1>2. e = Of(a) /\ Doing(a, "sync") /\ call[a].seen = "completed" /\ ~call[a].copy.metrics
  <2>1. RowStep(a, e)
    BY DEF Table
  <2>2. Finalized(call[a]).status = "completed" => Finalized(call[a]).metrics
    BY DEF Finalized
  <2>3. ~(e = Of(a) /\ Doing(a, "demote"))
    BY <1>1 DEF CallKnows, Doing, Offline
  <2>4. QED BY <2>1, <2>2, <2>3 DEF RowStep
<1>3. SyncAttempt(a)
  BY <1>2
     DEF CallStep, Doing, SubmitJob, Track, InsertAttempt, WaitUntilDone,
         ReadAttempt, StopContainer, MarkCancelled, GiveReason, CollectResult,
         StoreAttempt, UpdateNode, PollRunner, ReconcileAttempt, LeaveAttempt,
         DemoteAttempt, MarkInterrupted
<1>4. Begin(a, Of(a), "read")
  BY <1>2, <1>3 DEF SyncAttempt, Unfinalized
<1>5. CallTo(a, "read", Of(a), NoRow, "absent")
  BY <1>1, <1>4, CallMoves
<1>6. QED BY <1>2, <1>5 DEF Finalizing, CallTo, Of

CompletedInv == WatcherInv /\ CompletedGetsMetrics

LEMMA CompletedInit == Init => CompletedInv
<1> SUFFICES ASSUME Init PROVE CompletedInv
  OBVIOUS
<1>1. \A e \in Execution : call[e].at = "idle" /\ row[e].status = "absent"
  BY Fixed, ExecutionsAct DEF Init
<1>2. QED BY <1>1 DEF CompletedInv, WatcherInv, CompletedGetsMetrics

LEMMA CompletedNext == Inv /\ Inv' /\ CompletedInv /\ [Next]_vars => CompletedInv'
<1> SUFFICES ASSUME Inv, Inv', CompletedInv, [Next]_vars PROVE CompletedInv'
  OBVIOUS
<1> USE DEF CompletedInv
<1>1. ASSUME call' = call, row' = row, \A e \in Execution : job'[e].known = job[e].known
      PROVE CompletedInv'
  BY <1>1 DEF WatcherInv, CompletedGetsMetrics, Of
<1>2. CASE UNCHANGED vars
  BY <1>1, <1>2 DEF vars, runnerVars, rowVars
<1>3. ASSUME NEW e \in Execution, ThreadStep(e) \/ WriteOutputs(e) \/ Exit(e)
      PROVE CompletedInv'
  BY <1>1, <1>3, ThreadFacts
     DEF ThreadStep, RemoveContainer, WriteOutputs, Exit, rowVars, Inv
<1>4. ASSUME NEW a \in Actor, CallStep(a) PROVE CompletedInv'
  <2>1. Doing(a, "reason") => Of(a) \in disturbed
    BY DEF Inv, FinishInv, VerdictInv
  <2>2. Table(a)
    BY <1>4, <2>1, SubmitTable, CancelTable, FinalizeTable, RefreshTable
       DEF CallStep, Inv
  <2>3. WatcherInv'
    BY <2>2, WatcherTable
  <2>4. CompletedGetsMetrics'
    <3> SUFFICES ASSUME NEW e \in Execution, job'[e].known,
                        row'[e].status = "completed", ~row'[e].metrics
                 PROVE \E w \in Actor : Finalizing(w, e)'
      BY DEF CompletedGetsMetrics, Finalizing
    <3>1. JobStep(a, e) /\ RowStep(a, e) /\ CallKnows(a)
      BY <2>2 DEF Table, Inv, KnowInv, CallInv
    <3>2. CASE row'[e] # row[e]
      <4>1. job[e].known
        BY <3>1, <3>2 DEF JobStep, RowStep, Doing
      <4>2. QED BY <1>4, <2>2, <3>2, <4>1, RefreshFinalizes
    <3>3. CASE row'[e] = row[e]
      <4>1. job[e].known
        BY <3>1, <3>3, Fixed DEF JobStep, CallKnows, Doing, Submitting
      <4>2. PICK w \in Actor : Finalizing(w, e)
        BY <3>3, <4>1 DEF CompletedGetsMetrics, Finalizing
      <4>3. Over(e)
        BY <3>3, <4>1 DEF Inv, FinishInv, OverInv
      <4>4. QED BY <1>4, <4>1, <4>2, <4>3, FinalizingGoesOn
    <3>4. QED BY <3>2, <3>3
  <2>5. QED BY <2>3, <2>4
<1>5. ASSUME NEW d \in Execution, NEW c \in Caller, CallBegin(c, d) PROVE CompletedInv'
  <2>1. c \in Actor /\ Table(c)
    BY <1>5, BeginTable, ExecutionsAct DEF Inv
  <2>2. WatcherInv'
    BY <2>1, WatcherTable
  <2>3. /\ UNCHANGED <<job, row>> /\ call[c].at = "idle"
        /\ \A b \in Actor \ {c} : call'[b] = call[b]
    BY <1>5, <2>1
       DEF CallBegin, RunContract, CancelExecution, RefreshExecution, Recover,
           Doing, Begin, BeginWithRow, runnerVars, rowVars, Inv, TypeInv, TypeOK
  <2>4. CompletedGetsMetrics'
    BY <2>3 DEF CompletedGetsMetrics, Of
  <2>5. QED BY <2>2, <2>4
<1>6. CASE Restart
  BY <1>6, Fixed, ExecutionsAct
  DEF Restart, WatcherInv, CompletedGetsMetrics, rowVars
<1>7. QED BY <1>2, <1>3, <1>4, <1>5, <1>6 DEF Next

(* While the process that ran a job lives, its row says completed without   *)
(* the metrics only as long as some call is on its way to store them.       *)
THEOREM MetricsStored == Spec => []CompletedGetsMetrics
<1>1. CompletedInv => CompletedGetsMetrics
  BY DEF CompletedInv
<1>2. QED BY <1>1, CompletedInit, CompletedNext, InvHolds, PTL DEF Spec

(* The metrics in the rows are those the containers wrote, and none of a    *)
(* completed job is left behind while its process lives.                    *)
THEOREM ResultsStored == Spec => []ResultsKept
<1>1. ResultsAreReal /\ CompletedGetsMetrics => ResultsKept
  BY DEF ResultsKept
<1>2. QED BY <1>1, ResultsReal, MetricsStored, PTL

(* No live job is given up, and no container is forgotten.                  *)
THEOREM Minded == Spec => []ContainersMinded
<1>1. LiveJobsSpared /\ ContainerHasThread => ContainersMinded
  BY DEF ContainersMinded
<1>2. QED BY <1>1, LiveSpared, ContainersOwned, PTL
=============================================================================
