--------------------------- MODULE WorkerJobProofs ---------------------------
(* Proofs about the worker's job service, for any number of submits,       *)
(* cancels and restarts, and about the client's account of its jobs, for   *)
(* any number of executions, callers, failed calls and restarts.           *)
EXTENDS WorkerJob, RemoteExecution, TLAPS

(* Writing a status into a row gives a row and keeps its result. *)
LEMMA RowStatus ==
  ASSUME NEW r \in Row, NEW s \in Status
  PROVE  /\ [r EXCEPT !.status = s] \in Row
         /\ [r EXCEPT !.status = s].status = s
         /\ [r EXCEPT !.status = s].result = r.result
BY DEF Row

(* A fresh row, and the row of a completed job. *)
LEMMA BlankRow ==
  /\ Blank \in Row
  /\ [status |-> "completed", result |-> TRUE] \in Row
BY DEF Row, Blank, Status

(* Every step of a job's thread moves its label and at most its row, its
   record and its container, and leaves values of the right type. *)
LEMMA RunJobTypes ==
  ASSUME TypeOK, StartedHasRow, NEW j \in Job, RunJob(j)
  PROVE  TypeOK' /\ StartedHasRow'
<1> USE BlankRow, NoRowAssumption DEF TypeOK, StartedHasRow
<1>1. ASSUME UNCHANGED <<row, record>>, Quiet,
             NEW to \in ThreadLabel \ {"none"}, Goto(j, to), at[j] # "none"
      PROVE  TypeOK' /\ StartedHasRow'
  BY <1>1 DEF Quiet, Goto, submitVars, cancelVars
<1>2. ASSUME NEW r \in Row, Update(j, r), Quiet,
             NEW to \in ThreadLabel \ {"none"}, Goto(j, to), at[j] # "none"
      PROVE  TypeOK' /\ StartedHasRow'
  <2>1. TypeOK'
    BY <1>2 DEF Quiet, Goto, Update, submitVars, cancelVars
  <2>2. StartedHasRow'
    BY <1>2 DEF Quiet, Goto, Update, submitVars
  <2>3. QED BY <2>1, <2>2
<1>3. ASSUME NEW from \in ThreadLabel \ {"none"}, NEW target \in Status,
             NEW to \in ThreadLabel \ {"none"}, SetStatus(j, from, target, to)
      PROVE  TypeOK' /\ StartedHasRow'
  <2>1. [record[j] EXCEPT !.status = target] \in Row
    BY RowStatus
  <2>2. CASE CanMove(record[j].status, target)
    BY <1>2, <1>3, <2>1, <2>2 DEF SetStatus
  <2>3. CASE ~CanMove(record[j].status, target)
    BY <1>1, <1>3, <2>3 DEF SetStatus, ThreadLabel
  <2>4. QED BY <2>2, <2>3
<1>4. ASSUME NEW from \in ThreadLabel \ {"none"},
             NEW to \in ThreadLabel \ {"none"},
             CheckFlag(j, from, to)
      PROVE  TypeOK' /\ StartedHasRow'
  BY <1>1, <1>4 DEF CheckFlag, ThreadLabel
<1>5. ASSUME NEW from \in ThreadLabel \ {"none"}, NEW status \in Status,
             Finish(j, from, status)
      PROVE  TypeOK' /\ StartedHasRow'
  BY <1>2, <1>5, RowStatus DEF Finish, ThreadLabel
<1>6. CASE Load(j)
  BY <1>6 DEF Load, Quiet, Goto, ThreadLabel, submitVars, cancelVars
<1>7. CASE ResolveMode(j) \/ RunMock(j)
  BY <1>1, <1>7 DEF ResolveMode, RunMock, ThreadLabel
<1>8. CASE StartContainer(j) \/ WaitContainer(j) \/ LeaveContainer(j)
  <2>1. UNCHANGED <<row, record, flag, submitVars, cancelVars, restarts>>
    BY <1>8 DEF StartContainer, WaitContainer, LeaveContainer
  <2>2. \E to \in ThreadLabel \ {"none"} : Goto(j, to)
    BY <1>8 DEF StartContainer, WaitContainer, LeaveContainer, ThreadLabel
  <2>3. container' \in [Job -> {"none", "running", "exited", "killed", "removed"}]
    BY <1>8 DEF StartContainer, WaitContainer, LeaveContainer, Kill
  <2>4. row[j] # NoRow
    BY <1>8 DEF StartContainer, WaitContainer, LeaveContainer
  <2>5. call[j] = "done"
    BY <1>8 DEF StartContainer, WaitContainer, LeaveContainer
  <2>6. TypeOK'
    BY <2>1, <2>2, <2>3 DEF Goto, submitVars, cancelVars
  <2>7. StartedHasRow'
    BY <2>1, <2>2, <2>4, <2>5 DEF Goto, submitVars
  <2>8. QED BY <2>6, <2>7
<1>9. CASE RecordContainer(j)
  BY <1>2, <1>9 DEF RecordContainer, ThreadLabel
<1>10. CASE Complete(j)
  BY <1>2, <1>10 DEF Complete, ThreadLabel
<1>11. QED
  BY <1>3, <1>4, <1>5, <1>6, <1>7, <1>8, <1>9, <1>10
     DEF RunJob, ThreadLabel, Status

(* Types of all variables of the job service, proved together with the fact
   that a started thread has a row to load. *)
THEOREM TypeCorrect == Spec => [](TypeOK /\ StartedHasRow)
<1>1. Init => TypeOK /\ StartedHasRow
  BY BlankRow, RestartAssumption DEF TypeOK, Init, ThreadLabel, SubmitLabel,
                                     StartedHasRow
<1>2. TypeOK /\ StartedHasRow /\ [Next]_vars => (TypeOK /\ StartedHasRow)'
  <2> SUFFICES ASSUME TypeOK, StartedHasRow, [Next]_vars
               PROVE TypeOK' /\ StartedHasRow'
    OBVIOUS
  <2> USE IdAssumption, RestartAssumption, BlankRow DEF TypeOK
  <2>1. ASSUME NEW j \in Job, Submit(j) PROVE TypeOK' /\ StartedHasRow'
    <3> DEFINE Returns == \E i \in Job : Return(j, i)
    <3>0. Returns => /\ call' \in [Job -> SubmitLabel]
                     /\ reply' \in [Job -> Job \cup {NoJob}]
      BY DEF Return, SubmitLabel
    <3> HIDE DEF Returns
    <3>1. CASE Lookup(j) \/ LookupAgain(j)
      <4>1. /\ call' \in [Job -> SubmitLabel]
            /\ reply' \in [Job -> Job \cup {NoJob}]
        <5>1. CASE Returns
          BY <5>1, <3>0
        <5>2. CASE ~Returns
          <6>1. UNCHANGED reply
            BY <3>1, <5>2 DEF Lookup, LookupAgain, Returns, SameRequest, Rows
          <6>2. \E to \in SubmitLabel : call' = [call EXCEPT ![j] = to]
            BY <3>1, <5>2 DEF Lookup, LookupAgain, Returns, SameRequest, Rows,
                              SubmitLabel
          <6>3. QED BY <6>1, <6>2
        <5>3. QED BY <5>1, <5>2
      <4>2. UNCHANGED <<jobVars, cancelVars, restarts>>
        BY <3>1 DEF Lookup, LookupAgain
      <4>3. \A i \in Job :
              /\ call'[i] = "spawn" => call[i] = "spawn"
              /\ call[i] = "done" => call'[i] = "done"
        BY <3>1 DEF Lookup, LookupAgain, Return
      <4>4. StartedHasRow'
        BY <4>2, <4>3 DEF jobVars, StartedHasRow
      <4>5. QED BY <4>1, <4>2, <4>4 DEF jobVars, cancelVars
    <3>2. CASE Insert(j)
      <4>1. row' \in [Job -> Row \cup {NoRow}]
        BY <3>2 DEF Insert
      <4>2. call' \in [Job -> SubmitLabel]
        BY <3>2 DEF Insert, SubmitLabel
      <4>3. StartedHasRow'
        BY <3>2, NoRowAssumption DEF Insert, StartedHasRow
      <4>4. QED BY <3>2, <4>1, <4>2, <4>3 DEF Insert, cancelVars
    <3>3. CASE Spawn(j)
      <4>1. Returns
        BY <3>3 DEF Spawn, Returns
      <4>2. at' \in [Job -> ThreadLabel] /\ flag' \in [Job -> BOOLEAN]
        BY <3>3 DEF Spawn, ThreadLabel
      <4>3. StartedHasRow'
        BY <3>3 DEF Spawn, Return, StartedHasRow
      <4>4. QED BY <3>3, <3>0, <4>1, <4>2, <4>3 DEF Spawn, cancelVars
    <3>4. QED BY <2>1, <3>1, <3>2, <3>3 DEF Submit
  <2>2. ASSUME NEW j \in Job, RunJob(j) PROVE TypeOK' /\ StartedHasRow'
    BY <2>2, RunJobTypes
  <2>3. ASSUME NEW j \in Job, ContainerExit(j) PROVE TypeOK' /\ StartedHasRow'
    BY <2>3 DEF ContainerExit, submitVars, cancelVars, StartedHasRow
  <2>4. ASSUME NEW c \in Canceller, Cancel(c) PROVE TypeOK' /\ StartedHasRow'
    <3>1. ASSUME NEW j \in Job, CancelRead(c, j)
          PROVE TypeOK' /\ StartedHasRow'
      BY <3>1 DEF CancelRead, jobVars, submitVars, StartedHasRow
    <3>2. CASE CancelFlag(c)
      BY <3>2 DEF CancelFlag, submitVars, StartedHasRow
    <3>3. CASE CancelWrite(c)
      <4>1. [copy[c].row EXCEPT !.status = "cancel_requested"] \in Row
        BY RowStatus DEF Status
      <4>2. row' \in [Job -> Row \cup {NoRow}]
        BY <3>3, <4>1 DEF CancelWrite
      <4>3. StartedHasRow'
        BY <3>3, <4>1, NoRowAssumption DEF CancelWrite, submitVars,
           StartedHasRow
      <4>4. QED BY <3>3, <4>2, <4>3 DEF CancelWrite, submitVars
    <3>4. QED BY <2>4, <3>1, <3>2, <3>3 DEF Cancel
  <2>5. CASE Restart
    <3>1. at' \in [Job -> ThreadLabel] /\ call' \in [Job -> SubmitLabel]
      BY <2>5 DEF Restart, ThreadLabel, SubmitLabel
    <3>2. flag' \in [Job -> BOOLEAN] /\ restarts' \in 0..MaxRestarts
      BY <2>5 DEF Restart
    <3>3. cancelAt' \in [Canceller -> {"idle", "flag", "write"}]
      BY <2>5 DEF Restart
    <3>4. UNCHANGED <<row, record, container, reply, copy>>
      BY <2>5 DEF Restart
    <3>5. StartedHasRow'
      BY <2>5 DEF Restart, StartedHasRow, Ended
    <3>6. QED BY <3>1, <3>2, <3>3, <3>4, <3>5
  <2>6. CASE UNCHANGED vars
    BY <2>6 DEF vars, jobVars, submitVars, cancelVars, StartedHasRow
  <2>7. QED BY <2>1, <2>2, <2>3, <2>4, <2>5, <2>6 DEF Next
<1>3. QED BY <1>1, <1>2, PTL DEF Spec

-----------------------------------------------------------------------------
(* What the thread of one job relies on, for all jobs and cancels. *)
JobInv ==
  /\ RecordInv /\ CopyInv /\ ContainerInv
  /\ RowIsThreadsOrCancel /\ ResultIffCompleted /\ CompletedRanToExit

(* Every step of a job's thread keeps it. *)
LEMMA RunJobInv ==
  ASSUME TypeOK, StartedHasRow, JobInv, NEW j \in Job, RunJob(j)
  PROVE  JobInv'
<1> USE NoRowAssumption
    DEF JobInv, RecordInv, CopyInv, ContainerInv, RowIsThreadsOrCancel,
        ResultIffCompleted, CompletedRanToExit, Loaded, Rows
<1>0. TypeOK' /\ StartedHasRow'
  BY RunJobTypes
<1>1. CASE Load(j)
  BY <1>0, <1>1 DEF Load, Goto, Quiet, cancelVars, submitVars, TypeOK,
                    StartedHasRow, ThreadLabel
<1>2. ASSUME NEW r \in Row, Update(j, r), Quiet, NEW to \in ThreadLabel,
             Goto(j, to), Loaded(j), row[j] # NoRow,
             r.status = "completed" <=> r.result,
             to = "end" \/ r.status # "completed",
             ContainerInv',
             r.status = "completed" => container[j] \in {"none", "exited", "removed"}
      PROVE  JobInv'
  BY <1>0, <1>2 DEF Update, Goto, Quiet, cancelVars, submitVars, TypeOK,
     StartedHasRow
<1>3. ASSUME UNCHANGED <<row, record, flag, submitVars, cancelVars, restarts>>,
             NEW to \in ThreadLabel \ {"none", "load", "end", "lost"},
                Goto(j, to),
             Loaded(j), at[j] # "end", ContainerInv',
             \A i \in Job : at[i] = "end" => container'[i] = container[i]
      PROVE  JobInv'
  <2>1. RecordInv'
    BY <1>0, <1>3 DEF Goto, cancelVars, submitVars, TypeOK, StartedHasRow
  <2>2. CopyInv'
    BY <1>0, <1>3 DEF Goto, cancelVars, submitVars, TypeOK, StartedHasRow
  <2>3. ContainerInv'
    BY <1>0, <1>3 DEF Goto, cancelVars, submitVars, TypeOK, StartedHasRow
  <2>4. RowIsThreadsOrCancel'
    BY <1>0, <1>3 DEF Goto, cancelVars, submitVars, TypeOK, StartedHasRow
  <2>5. ResultIffCompleted'
    BY <1>0, <1>3 DEF Goto, cancelVars, submitVars, TypeOK, StartedHasRow
  <2>6. CompletedRanToExit'
    BY <1>0, <1>3 DEF Goto, cancelVars, submitVars, TypeOK, StartedHasRow
  <2>7. QED BY <2>1, <2>2, <2>3, <2>4, <2>5, <2>6
<1>4. ASSUME NEW from, NEW target \in Status \ {"completed"},
             NEW to, SetStatus(j, from, target, to),
             <<from, to>> \in {<<"validate", "check1">>, <<"queue", "prepare">>,
                               <<"prepare", "check2">>, <<"run", "mode">>,
                               <<"collect", "complete">>}
      PROVE  JobInv'
  <2>1. [record[j] EXCEPT !.status = target] \in Row
    BY RowStatus DEF TypeOK
  <2>2. ContainerInv'
    BY <1>0, <1>4 DEF SetStatus, Goto, Quiet, TypeOK
  <2>3. CASE CanMove(record[j].status, target)
    <3> DEFINE r == [record[j] EXCEPT !.status = target]
    <3>1. r.status = target /\ r.result = record[j].result
      BY RowStatus DEF TypeOK
    <3>2. Update(j, r) /\ Goto(j, to) /\ Quiet
      BY <1>4, <2>3 DEF SetStatus
    <3>3. Loaded(j) /\ ~record[j].result /\ row[j] # NoRow /\ to \in ThreadLabel
      BY <1>4 DEF SetStatus, TypeOK, ThreadLabel, Row
    <3> HIDE DEF r
    <3>4. QED BY <1>2, <2>1, <2>2, <3>1, <3>2, <3>3 DEF r
  <2>4. CASE ~CanMove(record[j].status, target)
    BY <1>3, <1>4, <2>2, <2>4 DEF SetStatus, Quiet, ThreadLabel
  <2>5. QED BY <2>3, <2>4
<1>5. ASSUME NEW from, NEW to, CheckFlag(j, from, to),
             <<from, to>> \in {<<"check1", "queue">>, <<"check2", "run">>,
                               <<"check3", "collect">>}
      PROVE  JobInv'
  <2>1. ContainerInv'
    BY <1>0, <1>5 DEF CheckFlag, Goto, Quiet, TypeOK
  <2>2. QED BY <1>3, <1>5, <2>1 DEF CheckFlag, Quiet, ThreadLabel
<1>6. ASSUME NEW from \in {"timeout", "gpu", "abort"},
             NEW status \in Status \ {"completed"}, Finish(j, from, status)
      PROVE  JobInv'
  <2> DEFINE r == [record[j] EXCEPT !.status = status]
  <2>1. r \in Row /\ r.status = status /\ r.result = record[j].result
    BY RowStatus DEF TypeOK
  <2>2. ContainerInv'
    BY <1>0, <1>6 DEF Finish, Goto, Quiet, TypeOK
  <2>3. Loaded(j) /\ ~record[j].result /\ row[j] # NoRow
    BY <1>6 DEF Finish, TypeOK, Row
  <2>4. Update(j, r) /\ Goto(j, "end") /\ Quiet
    BY <1>6 DEF Finish
  <2> HIDE DEF r
  <2>5. QED BY <1>2, <2>1, <2>2, <2>3, <2>4 DEF ThreadLabel
<1>7. CASE ResolveMode(j) \/ RunMock(j)
  <2>1. ContainerInv'
    BY <1>0, <1>7 DEF ResolveMode, RunMock, Goto, Quiet, TypeOK
  <2>2. QED BY <1>3, <1>7, <2>1 DEF ResolveMode, RunMock, Quiet, ThreadLabel
<1>8. CASE StartContainer(j) \/ WaitContainer(j) \/ LeaveContainer(j)
  <2>1. \E to \in ThreadLabel \ {"none", "load", "end", "lost"} : Goto(j, to)
    BY <1>8 DEF StartContainer, WaitContainer, LeaveContainer, ThreadLabel
  <2>2. UNCHANGED <<row, record, flag, submitVars, cancelVars, restarts>>
    BY <1>8 DEF StartContainer, WaitContainer, LeaveContainer
  <2>3. Loaded(j) /\ at[j] # "end"
    BY <1>8 DEF StartContainer, WaitContainer, LeaveContainer
  <2>4. \A i \in Job \ {j} : container'[i] = container[i]
    BY <1>8 DEF StartContainer, WaitContainer, LeaveContainer, Kill, TypeOK
  <2>5. ContainerInv'
    BY <1>0, <1>8, <2>4
       DEF StartContainer, WaitContainer, LeaveContainer, Kill, Goto, TypeOK
  <2>6. QED BY <1>3, <2>1, <2>2, <2>3, <2>4, <2>5
<1>9. CASE RecordContainer(j)
  <2>1. ContainerInv'
    BY <1>0, <1>9 DEF RecordContainer, Goto, Quiet, TypeOK
  <2>2. QED BY SMTT(30), <1>2, <1>9, <2>1
               DEF RecordContainer, ThreadLabel, TypeOK, Row
<1>10. CASE Complete(j)
  <2>1. ContainerInv'
    BY <1>0, <1>10 DEF Complete, Goto, Quiet, TypeOK
  <2>2. QED BY SMTT(30), <1>2, <1>10, <2>1, BlankRow
               DEF Complete, ThreadLabel, TypeOK
<1>11. QED
  BY <1>1, <1>4, <1>5, <1>6, <1>7, <1>8, <1>9, <1>10 DEF RunJob, Status

(* Every other step keeps it as well. *)
THEOREM JobInvariant == Spec => []JobInv
<1>1. Init => JobInv
  BY NoRowAssumption
     DEF Init, JobInv, RecordInv, CopyInv, ContainerInv, RowIsThreadsOrCancel,
         ResultIffCompleted, CompletedRanToExit, Loaded, Rows, Blank
<1>2. TypeOK /\ StartedHasRow /\ JobInv /\ [Next]_vars => JobInv'
  <2> SUFFICES ASSUME TypeOK, StartedHasRow, JobInv, [Next]_vars PROVE JobInv'
    OBVIOUS
  <2> USE NoRowAssumption
      DEF JobInv, RecordInv, CopyInv, ContainerInv, RowIsThreadsOrCancel,
          ResultIffCompleted, CompletedRanToExit, Loaded, Rows
  <2>1. ASSUME NEW j \in Job, Lookup(j) \/ LookupAgain(j) PROVE JobInv'
    BY <2>1 DEF Lookup, LookupAgain, jobVars, cancelVars
  <2>2. ASSUME NEW j \in Job, Insert(j) PROVE JobInv'
    <3>1. CASE Conflicts(j) = {}
      <4>1. row[j] = NoRow
        BY <3>1 DEF Conflicts, SameRequest
      <4>2. at[j] = "none" /\ Blank.status = "received" /\ Blank.result = FALSE
        BY <4>1 DEF StartedHasRow, Blank
      <4>3. JobInv'
        <5>1. RecordInv'
          BY <2>2, <3>1, <4>1, <4>2, BlankRow DEF Insert, cancelVars, TypeOK
        <5>2. CopyInv'
          BY <2>2, <3>1, <4>1, <4>2, BlankRow DEF Insert, cancelVars, TypeOK
        <5>3. ContainerInv'
          BY <2>2, <3>1, <4>1, <4>2, BlankRow DEF Insert, cancelVars, TypeOK
        <5>4. RowIsThreadsOrCancel'
          BY <2>2, <3>1, <4>1, <4>2, BlankRow DEF Insert, cancelVars, TypeOK
        <5>5. ResultIffCompleted'
          BY <2>2, <3>1, <4>1, <4>2, BlankRow DEF Insert, cancelVars, TypeOK
        <5>6. CompletedRanToExit'
          BY <2>2, <3>1, <4>1, <4>2, BlankRow DEF Insert, cancelVars, TypeOK
        <5>7. QED BY <5>1, <5>2, <5>3, <5>4, <5>5, <5>6
      <4>4. QED BY <4>3
    <3>2. CASE Conflicts(j) # {}
      BY <2>2, <3>2 DEF Insert, cancelVars
    <3>3. QED BY <3>1, <3>2
  <2>3. ASSUME NEW j \in Job, Spawn(j) PROVE JobInv'
    <3>1. RecordInv'
      BY <2>3 DEF Spawn, cancelVars, TypeOK, StartedHasRow
    <3>2. CopyInv'
      BY <2>3 DEF Spawn, cancelVars, TypeOK, StartedHasRow
    <3>3. ContainerInv'
      BY <2>3 DEF Spawn, cancelVars, TypeOK, StartedHasRow
    <3>4. RowIsThreadsOrCancel'
      BY <2>3 DEF Spawn, cancelVars, TypeOK, StartedHasRow
    <3>5. ResultIffCompleted'
      BY <2>3 DEF Spawn, cancelVars, TypeOK, StartedHasRow
    <3>6. CompletedRanToExit'
      BY <2>3 DEF Spawn, cancelVars, TypeOK, StartedHasRow
    <3>7. QED BY <3>1, <3>2, <3>3, <3>4, <3>5, <3>6
  <2>4. ASSUME NEW j \in Job, RunJob(j) PROVE JobInv'
    BY <2>4, RunJobInv
  <2>5. ASSUME NEW j \in Job, ContainerExit(j) PROVE JobInv'
    BY <2>5 DEF ContainerExit, cancelVars, submitVars, TypeOK
  <2>6. ASSUME NEW c \in Canceller, NEW j \in Job, CancelRead(c, j)
        PROVE JobInv'
    BY <2>6 DEF CancelRead, jobVars, submitVars, TypeOK, Row
  <2>7. ASSUME NEW c \in Canceller, CancelFlag(c) PROVE JobInv'
    BY <2>7 DEF CancelFlag, submitVars, TypeOK
  <2>8. ASSUME NEW c \in Canceller, CancelWrite(c) PROVE JobInv'
    <3> DEFINE r == [copy[c].row EXCEPT !.status = "cancel_requested"]
    <3>1. /\ r \in Row /\ r.status = "cancel_requested"
          /\ r.result = copy[c].row.result
      BY RowStatus DEF TypeOK, Status
    <3>2. row' = [row EXCEPT ![copy[c].job] = r]
      BY <2>8 DEF CancelWrite
    <3> HIDE DEF r
    <3>3. row[copy[c].job] # NoRow /\ copy[c].job \in Job /\ ~r.result
      BY <2>8, <3>1 DEF CancelWrite
    <3>4. JobInv'
      <4>1. RecordInv'
        BY <2>8, <3>1, <3>2, <3>3 DEF CancelWrite, submitVars, TypeOK
      <4>2. CopyInv'
        <5>1. \A i \in Job : row[i] # NoRow => row'[i] # NoRow
          BY <3>1, <3>2, <3>3 DEF TypeOK
        <5>2. \A d \in Canceller : cancelAt'[d] # "idle" => cancelAt[d] # "idle"
          BY <2>8 DEF CancelWrite, TypeOK
        <5>3. copy' = copy
          BY <2>8 DEF CancelWrite
        <5>4. QED BY <5>1, <5>2, <5>3
      <4>3. ContainerInv'
        BY <2>8, <3>1, <3>2, <3>3 DEF CancelWrite, submitVars, TypeOK
      <4>4. RowIsThreadsOrCancel'
        BY <2>8, <3>1, <3>2, <3>3 DEF CancelWrite, submitVars, TypeOK
      <4>5. ResultIffCompleted'
        BY <2>8, <3>1, <3>2, <3>3 DEF CancelWrite, submitVars, TypeOK
      <4>6. CompletedRanToExit'
        BY <2>8, <3>1, <3>2, <3>3 DEF CancelWrite, submitVars, TypeOK
      <4>7. QED BY <4>1, <4>2, <4>3, <4>4, <4>5, <4>6
    <3>5. QED BY <3>4
  <2>9. CASE Restart
    BY <2>9 DEF Restart, TypeOK, Ended
  <2>10. CASE UNCHANGED vars
    BY <2>10 DEF vars, jobVars, submitVars, cancelVars
  <2>11. QED
    BY <2>1, <2>2, <2>3, <2>4, <2>5, <2>6, <2>7, <2>8, <2>9, <2>10
       DEF Next, Submit, Cancel
<1>3. QED BY <1>1, <1>2, TypeCorrect, PTL DEF Spec

(* The worker's answers are consistent: a result is stored exactly for the
   completed jobs. *)
THEOREM ResultConsistent == Spec => []ResultIffCompleted
BY JobInvariant, PTL DEF JobInv

(* The row of a running job is the thread's state or a cancel request. *)
THEOREM RowCurrent == Spec => []RowIsThreadsOrCancel
BY JobInvariant, PTL DEF JobInv

(* No job whose container was killed or still runs is reported completed. *)
THEOREM CompletedExited == Spec => []CompletedRanToExit
BY JobInvariant, PTL DEF JobInv

(* One job per request and per execution, named by every answer. *)
THEOREM Deduplicated == Spec => []OneJobPerRequest
<1>1. Init => OneJobPerRequest
  BY NoJobAssumption DEF Init, OneJobPerRequest, Rows
<1>2. TypeOK /\ StartedHasRow /\ JobInv /\ OneJobPerRequest /\ [Next]_vars
        => OneJobPerRequest'
  <2> SUFFICES ASSUME TypeOK, StartedHasRow, JobInv, OneJobPerRequest,
                      [Next]_vars
               PROVE OneJobPerRequest'
    OBVIOUS
  <2>0. ASSUME Rows' = Rows, reply' = reply PROVE OneJobPerRequest'
    BY <2>0 DEF OneJobPerRequest, SameRequest
  <2>1. ASSUME Rows' = Rows, NEW j \in Job, NEW i \in SameRequest(j),
               Return(j, i)
        PROVE OneJobPerRequest'
    BY <2>1 DEF OneJobPerRequest, SameRequest, Return, TypeOK
  <2>2. ASSUME NEW j \in Job, Lookup(j) \/ LookupAgain(j)
        PROVE OneJobPerRequest'
    <3>1. Rows' = Rows
      BY <2>2 DEF Lookup, LookupAgain, Rows, jobVars
    <3>2. reply' = reply \/ \E i \in SameRequest(j) : Return(j, i)
      BY <2>2 DEF Lookup, LookupAgain
    <3>3. QED BY <2>0, <2>1, <3>1, <3>2
  <2>3. ASSUME NEW j \in Job, Insert(j) PROVE OneJobPerRequest'
    <3>1. CASE Conflicts(j) = {}
      <4>1. Rows' = Rows \cup {j} /\ reply' = reply
        BY <2>3, <3>1, BlankRow, NoRowAssumption DEF Insert, Rows, TypeOK
      <4>2. \A i \in Rows : /\ RequestOf[i] # RequestOf[j]
                            /\ ExecutionOf[i] # ExecutionOf[j]
        BY <3>1 DEF Conflicts, SameRequest
      <4>3. QED
        BY <4>1, <4>2 DEF OneJobPerRequest, SameRequest
    <3>2. CASE Conflicts(j) # {}
      BY <2>0, <2>3, <3>2 DEF Insert, Rows
    <3>3. QED BY <3>1, <3>2
  <2>4. ASSUME NEW j \in Job, Spawn(j) PROVE OneJobPerRequest'
    <3>1. Rows' = Rows /\ Return(j, j)
      BY <2>4 DEF Spawn, Rows
    <3>2. j \in SameRequest(j)
      BY <2>4 DEF Spawn, SameRequest, Rows, StartedHasRow
    <3>3. QED BY <2>1, <3>1, <3>2
  <2>5. ASSUME NEW j \in Job, RunJob(j) PROVE OneJobPerRequest'
    <3>1. row[j] # NoRow
      BY <2>5 DEF RunJob, Load, SetStatus, CheckFlag, ResolveMode, RunMock,
                  StartContainer, WaitContainer, LeaveContainer,
                  RecordContainer, Finish, Complete, StartedHasRow
    <3>2. row' = row \/ \E r : Update(j, r)
      BY <2>5 DEF RunJob, Load, SetStatus, CheckFlag, ResolveMode, RunMock,
                  StartContainer, WaitContainer, LeaveContainer,
                  RecordContainer, Finish, Complete
    <3>2a. record'[j] \in Row
      BY <2>5, RunJobTypes DEF TypeOK
    <3>2b. row' = row \/ row' = [row EXCEPT ![j] = record'[j]]
      BY <3>2 DEF Update, TypeOK
    <3>3. reply' = reply
      BY <2>5 DEF RunJob, Load, SetStatus, CheckFlag, ResolveMode, RunMock,
                  StartContainer, WaitContainer, LeaveContainer,
                  RecordContainer, Finish, Complete, Quiet, submitVars
    <3>4. Rows' = Rows
      BY <3>1, <3>2a, <3>2b, NoRowAssumption DEF Rows, TypeOK
    <3>5. QED BY <2>0, <3>3, <3>4
  <2>6. ASSUME NEW j \in Job, ContainerExit(j) PROVE OneJobPerRequest'
    BY <2>0, <2>6 DEF ContainerExit, Rows, submitVars
  <2>7. ASSUME NEW c \in Canceller, Cancel(c) PROVE OneJobPerRequest'
    <3>1. reply' = reply
      BY <2>7 DEF Cancel, CancelRead, CancelFlag, CancelWrite, submitVars
    <3>2. CASE CancelWrite(c)
      <4>1. [copy[c].row EXCEPT !.status = "cancel_requested"] \in Row
        BY RowStatus DEF TypeOK, Status
      <4>2. copy[c].job \in Rows
        BY <3>2 DEF CancelWrite, JobInv, CopyInv
      <4>3. Rows' = Rows
        BY <3>2, <4>1, <4>2, NoRowAssumption DEF CancelWrite, Rows, TypeOK
      <4>4. QED BY <2>0, <3>1, <4>3
    <3>3. CASE ~CancelWrite(c)
      <4>1. Rows' = Rows
        BY <2>7, <3>3 DEF Cancel, CancelRead, CancelFlag, Rows, jobVars
      <4>2. QED BY <2>0, <3>1, <4>1
    <3>4. QED BY <3>2, <3>3
  <2>8. CASE Restart
    BY <2>0, <2>8 DEF Restart, Rows
  <2>9. CASE UNCHANGED vars
    BY <2>0, <2>9 DEF vars, jobVars, submitVars, Rows
  <2>10. QED
    BY <2>2, <2>3, <2>4, <2>5, <2>6, <2>7, <2>8, <2>9 DEF Next, Submit
<1>3. QED BY <1>1, <1>2, TypeCorrect, JobInvariant, PTL DEF Spec

(* What clients read of the jobs is sound, whatever submits, cancels, threads *)
(* and restarts do at the same time.                                         *)
THEOREM RowsAreSound == Spec => []RowsSound
<1>1. OneJobPerRequest /\ RowIsThreadsOrCancel /\ ResultIffCompleted /\ CompletedRanToExit => RowsSound
  BY DEF RowsSound
<1>2. QED BY <1>1, Deduplicated, RowCurrent, ResultConsistent,
         CompletedExited, PTL

-----------------------------------------------------------------------------
(* JobService implemented: the abstract state of WorkerJob's steps.          *)

Asked == {j \in Job : flag[j] \/ \E c \in Canceller : PendingOn(c) = j}

(* The columns of the abstract state that a step leaves alone. *)
SameShown(i) == Shown(row[i])' = Shown(row[i])
SamePhase(i) == PhaseOf(i)' = PhaseOf(i)
SamePending(c) == PendingOn(c)' = PendingOn(c)

(* The thread writes its record back only while the record says running, so
   that what it writes is never a cancel request it loaded. *)
RecordRunning ==
  \A j \in Job :
    at[j] \in {"mode", "mock", "docker", "wait", "exited", "record"} =>
      record[j].status = "running"

(* Every step keeps that. *)
THEOREM RecordsRun == Spec => []RecordRunning
<1>1. Init => RecordRunning
  BY DEF Init, RecordRunning
<1>2. TypeOK /\ RecordRunning /\ [Next]_vars => RecordRunning'
  <2> SUFFICES ASSUME TypeOK, RecordRunning, [Next]_vars PROVE RecordRunning'
    OBVIOUS
  <2> USE DEF RecordRunning, TypeOK
  <2>1. ASSUME NEW j \in Job, Submit(j) PROVE RecordRunning'
    BY <2>1 DEF Submit, Lookup, Insert, LookupAgain, Spawn, jobVars
  <2>2. ASSUME NEW j \in Job, RunJob(j) PROVE RecordRunning'
    <3>1. \A i \in Job \ {j} : at'[i] = at[i] /\ record'[i] = record[i]
      BY <2>2
         DEF RunJob, Load, SetStatus, CheckFlag, ResolveMode, RunMock,
             StartContainer, WaitContainer, LeaveContainer, RecordContainer,
             Complete, Finish, Goto, Update
    <3>2. at'[j] \in {"mode", "mock", "docker", "wait", "exited", "record"}
            => record'[j].status = "running"
      <4>1. CASE SetStatus(j, "run", "running", "mode")
        <5>1. record[j] \in Row /\ "running" \in Status
          BY DEF Status
        <5>2. [record[j] EXCEPT !.status = "running"].status = "running"
          BY <5>1, RowStatus
        <5>3. QED BY <4>1, <5>2 DEF SetStatus, Goto, Update
      <4>2. CASE \/ SetStatus(j, "validate", "validating", "check1")
                 \/ SetStatus(j, "queue", "queued", "prepare")
                 \/ SetStatus(j, "prepare", "preparing", "check2")
                 \/ SetStatus(j, "collect", "collecting", "complete")
        BY <4>2 DEF SetStatus, Goto
      <4>3. CASE ResolveMode(j) \/ StartContainer(j) \/ WaitContainer(j) \/ LeaveContainer(j)
        BY <4>3 DEF ResolveMode, StartContainer, WaitContainer,
           LeaveContainer, Goto
      <4>4. CASE \/ Load(j) \/ Complete(j) \/ RecordContainer(j) \/ RunMock(j)
                 \/ CheckFlag(j, "check1", "queue") \/ CheckFlag(j, "check2", "run")
                 \/ CheckFlag(j, "check3", "collect")
                 \/ Finish(j, "timeout", "timed_out") \/ Finish(j, "gpu", "failed")
                 \/ Finish(j, "abort", IF flag[j] THEN "cancelled" ELSE "failed")
        BY <4>4 DEF Load, Complete, RecordContainer, RunMock, CheckFlag,
           Finish, Goto
      <4>5. QED BY <2>2, <4>1, <4>2, <4>3, <4>4 DEF RunJob
    <3>3. QED BY <3>1, <3>2
  <2>3. CASE \/ \E j \in Job : ContainerExit(j)
             \/ \E c \in Canceller : Cancel(c)
             \/ Restart \/ UNCHANGED vars
    BY <2>3
       DEF ContainerExit, Cancel, CancelRead, CancelFlag, CancelWrite, Restart,
           vars, jobVars
  <2>4. QED BY <2>1, <2>2, <2>3 DEF Next
<1>3. QED BY <1>1, <1>2, TypeCorrect, PTL DEF Spec

(* What a row shows depends on its status alone. *)
LEMMA ShownRow ==
  ASSUME NEW r \in Row
  PROVE  /\ r # NoRow
         /\ Shown(r) # "none"
         /\ r.status = "cancel_requested" => Shown(r) = "cancelling"
         /\ r.status \in {"completed", "failed", "cancelled", "timed_out"} => Shown(r) = r.status
         /\ r.status \notin {"cancel_requested", "completed", "failed", "cancelled",
                             "timed_out"} => Shown(r) = "open"
BY NoRowAssumption DEF Shown, Row

(* The abstract step of a thread's write: progress, *)
LEMMA WorkStep ==
  ASSUME NEW j \in Job, PhaseOf(j) = "running", Shown(row[j])' = "open",
         \A i \in Job \ {j} : SameShown(i), \A i \in Job : SamePhase(i),
         Asked' = Asked, \A c \in Canceller : SamePending(c)
  PROVE  Promised!Work(j)
BY DEF Promised!Work, Promised!Say, SameShown, SamePhase, SamePending, Asked

(* or the last word, *)
LEMMA FinishStep ==
  ASSUME NEW j \in Job, PhaseOf(j) = "running", PhaseOf(j)' = "over",
         Shown(row[j])' \in Promised!Final,
         Shown(row[j])' = "cancelled" => j \in Asked,
         \A i \in Job \ {j} : SameShown(i), \A i \in Job \ {j} : SamePhase(i),
         Asked' = Asked, \A c \in Canceller : SamePending(c)
  PROVE  Promised!Finish(j)
BY ZenonT(30)
   DEF Promised!Finish, Promised!Say, Promised!Enter, SameShown, SamePhase,
       SamePending, Asked

(* or neither: a step the clients do not see. *)
LEMMA StutterStep ==
  ASSUME \A i \in Job : SameShown(i), \A i \in Job : SamePhase(i),
         Asked' = Asked, \A c \in Canceller : SamePending(c)
  PROVE  UNCHANGED Promised!vars
BY DEF Promised!vars, SameShown, SamePhase, SamePending, Asked

(* Nothing of a cancel's call moves when a thread does. *)
LEMMA QuietKeeps ==
  ASSUME UNCHANGED <<flag, submitVars, cancelVars>>
  PROVE  Asked' = Asked /\ \A c \in Canceller : SamePending(c)
BY DEF Asked, SamePending, PendingOn, cancelVars

(* A step of a job's thread is progress, its last word, or unseen. *)
LEMMA RunJobPromise ==
  ASSUME TypeOK, StartedHasRow, RecordRunning, NEW j \in Job, RunJob(j)
  PROVE  Promised!Work(j) \/ Promised!Finish(j) \/ UNCHANGED Promised!vars
<1>1. UNCHANGED <<flag, submitVars, cancelVars>>
  BY DEF RunJob, Load, SetStatus, CheckFlag, ResolveMode, RunMock,
     StartContainer, WaitContainer, LeaveContainer, RecordContainer, Complete,
     Finish, Quiet
<1>2. Asked' = Asked /\ \A c \in Canceller : SamePending(c)
  BY <1>1, QuietKeeps
<1>3. at[j] \notin Ended
  BY DEF RunJob, Load, SetStatus, CheckFlag, ResolveMode, RunMock,
     StartContainer, WaitContainer, LeaveContainer, RecordContainer, Complete,
     Finish, Ended
<1>4. PhaseOf(j) = "running" /\ row[j] \in Row /\ row[j] # NoRow /\ call[j] = "done"
  BY <1>3 DEF PhaseOf, TypeOK, StartedHasRow, Ended
<1>5. ASSUME UNCHANGED row, NEW to \in ThreadLabel \ Ended, Goto(j, to)
      PROVE  UNCHANGED Promised!vars
  <2>1. \A i \in Job : SameShown(i)
    BY <1>5 DEF SameShown
  <2>2. \A i \in Job : SamePhase(i)
    BY <1>1, <1>3, <1>5 DEF SamePhase, PhaseOf, Goto, submitVars, TypeOK
  <2>3. QED BY <1>2, <2>1, <2>2, StutterStep
<1>6. ASSUME NEW r \in Row, Update(j, r), Goto(j, "end"),
             r.status \in Promised!Final,
             r.status = "cancelled" => flag[j]
      PROVE  Promised!Finish(j)
  <2>1. row' = [row EXCEPT ![j] = r] /\ at' = [at EXCEPT ![j] = "end"] /\ call' = call
    BY <1>1, <1>6 DEF Update, Goto, submitVars
  <2>2. Shown(r) = r.status
    BY <1>6, ShownRow DEF Promised!Final
  <2>3. Shown(row[j])' = r.status /\ r # NoRow /\ row'[j] = r
    BY <2>1, <2>2, ShownRow DEF TypeOK
  <2>4. \A i \in Job \ {j} : SameShown(i)
    BY <2>1 DEF SameShown, TypeOK
  <2>5. \A i \in Job \ {j} : SamePhase(i)
    BY <2>1 DEF SamePhase, PhaseOf, TypeOK
  <2>6. PhaseOf(j)' = "over"
    BY <1>4, <2>1, <2>3 DEF PhaseOf, Ended, TypeOK
  <2>7. r.status = "cancelled" => j \in Asked
    BY <1>6 DEF Asked
  <2>8. QED BY <1>2, <1>4, <1>6, <2>3, <2>4, <2>5, <2>6, <2>7, FinishStep
<1>7. ASSUME NEW r \in Row, Update(j, r), NEW to \in ThreadLabel \ Ended,
             Goto(j, to),
             Shown(r) = "open"
      PROVE  Promised!Work(j)
  <2>1. row' = [row EXCEPT ![j] = r] /\ at' = [at EXCEPT ![j] = to] /\ call' = call
    BY <1>1, <1>7 DEF Update, Goto, submitVars
  <2>2. Shown(row[j])' = "open" /\ r # NoRow /\ row'[j] = r
    BY <1>7, <2>1, ShownRow DEF TypeOK
  <2>3. \A i \in Job \ {j} : SameShown(i)
    BY <2>1 DEF SameShown, TypeOK
  <2>4. \A i \in Job \ {j} : SamePhase(i)
    BY <2>1 DEF SamePhase, PhaseOf, TypeOK
  <2>5. SamePhase(j)
    BY <1>3, <1>4, <2>1, <2>2 DEF SamePhase, PhaseOf, TypeOK
  <2>6. QED BY <1>2, <1>4, <2>2, <2>3, <2>4, <2>5, WorkStep
<1>8. ASSUME NEW from, NEW to \in ThreadLabel \ Ended,
             NEW target \in {"validating", "queued", "preparing", "running", "collecting"},
             SetStatus(j, from, target, to)
      PROVE  Promised!Work(j) \/ UNCHANGED Promised!vars
  <2>1. CASE CanMove(record[j].status, target)
    <3> DEFINE r == [record[j] EXCEPT !.status = target]
    <3>0. record[j] \in Row /\ target \in Status
      BY DEF TypeOK, Status
    <3>1. r \in Row /\ r.status = target
      BY <3>0, RowStatus
    <3>2. Shown(r) = "open"
      BY <3>1, ShownRow
    <3>3. Update(j, r) /\ Goto(j, to)
      BY <1>8, <2>1 DEF SetStatus
    <3> HIDE DEF r
    <3>4. QED BY <1>7, <3>1, <3>2, <3>3
  <2>2. CASE ~CanMove(record[j].status, target)
    BY <1>5, <1>8, <2>2 DEF SetStatus, ThreadLabel, Ended
  <2>3. QED BY <2>1, <2>2
<1>9. ASSUME NEW from, NEW status \in {"timed_out", "failed", "cancelled"},
             Finish(j, from, status), status = "cancelled" => flag[j]
      PROVE  Promised!Finish(j)
  <2> DEFINE r == [record[j] EXCEPT !.status = status]
  <2>0. record[j] \in Row /\ status \in Status /\ status \in Promised!Final
    BY DEF TypeOK, Status, Promised!Final
  <2>1. r \in Row /\ r.status = status /\ status \in Promised!Final
    BY <2>0, RowStatus
  <2>2. Update(j, r) /\ Goto(j, "end")
    BY <1>9 DEF Finish
  <2> HIDE DEF r
  <2>3. QED BY <1>6, <1>9, <2>1, <2>2
<1>10. CASE Load(j) \/ ResolveMode(j) \/ RunMock(j)
  BY <1>5, <1>10 DEF Load, ResolveMode, RunMock, ThreadLabel, Ended
<1>11. CASE StartContainer(j) \/ WaitContainer(j) \/ LeaveContainer(j)
  BY <1>5, <1>11 DEF StartContainer, WaitContainer, LeaveContainer,
     ThreadLabel, Ended
<1>12. CASE \/ CheckFlag(j, "check1", "queue") \/ CheckFlag(j, "check2", "run")
            \/ CheckFlag(j, "check3", "collect")
  BY <1>5, <1>12 DEF CheckFlag, ThreadLabel, Ended
<1>13. CASE RecordContainer(j)
  <2>1. /\ at[j] = "record" /\ record[j] \in Row
        /\ Update(j, record[j]) /\ Goto(j, "check3")
    BY <1>13 DEF RecordContainer, TypeOK
  <2>2. record[j].status = "running"
    BY <2>1 DEF RecordRunning
  <2>3. Shown(record[j]) = "open"
    BY <2>1, <2>2, ShownRow
  <2>4. "check3" \in ThreadLabel \ Ended
    BY DEF ThreadLabel, Ended
  <2>5. QED BY <1>7, <2>1, <2>3, <2>4
<1>14. CASE Complete(j)
  BY <1>6, <1>14, BlankRow DEF Complete, Promised!Final
<1>15. QED
  BY <1>8, <1>9, <1>10, <1>11, <1>12, <1>13, <1>14 DEF RunJob, ThreadLabel,
     Ended

(* A submit that inserts is an acceptance, one that starts the thread its
   beginning; the look-ups around them are unseen. *)
LEMMA SubmitPromise ==
  ASSUME TypeOK, StartedHasRow, NEW j \in Job, Submit(j)
  PROVE  Promised!Accept(j) \/ Promised!Begin(j) \/ UNCHANGED Promised!vars
<1>1. UNCHANGED cancelVars /\ \A c \in Canceller : SamePending(c)
  BY DEF Submit, Lookup, Insert, LookupAgain, Spawn, SamePending, PendingOn,
     cancelVars
<1>2. ASSUME UNCHANGED <<row, at, flag>>, NEW to \in SubmitLabel \ {"spawn"},
             call' = [call EXCEPT ![j] = to], call[j] # "spawn"
      PROVE  UNCHANGED Promised!vars
  <2>1. \A i \in Job : SameShown(i) /\ SamePhase(i)
    BY <1>2 DEF SameShown, SamePhase, PhaseOf, TypeOK
  <2>2. Asked' = Asked
    BY <1>1, <1>2 DEF Asked, PendingOn, cancelVars
  <2>3. QED BY <1>1, <2>1, <2>2, StutterStep
<1>3. CASE Lookup(j) \/ LookupAgain(j)
  BY <1>2, <1>3 DEF Lookup, LookupAgain, Return, jobVars, SubmitLabel
<1>4. CASE Insert(j)
  <2>1. CASE Conflicts(j) = {}
    <3>1. row[j] = NoRow
      BY <2>1 DEF Conflicts, SameRequest, Rows
    <3>2. /\ row' = [row EXCEPT ![j] = Blank] /\ call' = [call EXCEPT ![j] = "spawn"]
          /\ UNCHANGED <<at, flag>>
      BY <1>4, <2>1 DEF Insert
    <3>3. Shown(Blank) = "open" /\ Blank # NoRow
      BY BlankRow, ShownRow DEF Blank
    <3>4. PhaseOf(j) = "none" /\ PhaseOf(j)' = "accepted" /\ Shown(row[j])' = "open"
      <4>1. row'[j] = Blank /\ call'[j] = "spawn"
        BY <3>2 DEF TypeOK
      <4>2. Shown(row[j])' = "open"
        BY <3>3, <4>1
      <4>3. QED BY <3>1, <3>3, <4>1, <4>2 DEF PhaseOf
    <3>5. \A i \in Job \ {j} : SameShown(i) /\ SamePhase(i)
      BY <3>2 DEF SameShown, SamePhase, PhaseOf, TypeOK
    <3>6. Asked' = Asked
      BY <1>1, <3>2 DEF Asked, PendingOn, cancelVars
    <3>7. Promised!Accept(j)
      BY <1>1, <3>4, <3>5, <3>6
         DEF Promised!Accept, Promised!Enter, Promised!Say, SameShown,
             SamePhase, SamePending, Asked
    <3>8. QED BY <3>7
  <2>2. CASE Conflicts(j) # {}
    BY <1>2, <1>4, <2>2 DEF Insert, SubmitLabel
  <2>3. QED BY <2>1, <2>2
<1>5. CASE Spawn(j)
  <2>1. /\ call[j] = "spawn" /\ row[j] # NoRow /\ UNCHANGED row
        /\ flag' = [flag EXCEPT ![j] = FALSE] /\ at' = [at EXCEPT ![j] = "load"]
        /\ call' = [call EXCEPT ![j] = "done"]
    BY <1>5 DEF Spawn, Return, StartedHasRow
  <2>2. PhaseOf(j) = "accepted" /\ PhaseOf(j)' = "running"
    BY <2>1 DEF PhaseOf, TypeOK, Ended
  <2>3. \A i \in Job \ {j} : SamePhase(i)
    BY <2>1 DEF SamePhase, PhaseOf, TypeOK
  <2>4. \A i \in Job : SameShown(i)
    BY <2>1 DEF SameShown
  <2>5. Asked' \in {Asked, Asked \ {j}}
    <3>1. \A i \in Job \ {j} : i \in Asked' <=> i \in Asked
      BY <1>1, <2>1 DEF Asked, PendingOn, cancelVars, TypeOK
    <3>2. j \in Asked' => j \in Asked
      BY <1>1, <2>1 DEF Asked, PendingOn, cancelVars, TypeOK
    <3>3. Asked \subseteq Job /\ Asked' \subseteq Job
      BY DEF Asked
    <3>4. QED BY <3>1, <3>2, <3>3
  <2>6. Promised!Begin(j)
    BY <1>1, <2>2, <2>3, <2>4, <2>5
       DEF Promised!Begin, Promised!Enter, SameShown, SamePhase, SamePending,
           Asked
  <2>7. QED BY <2>6
<1>6. QED BY <1>3, <1>4, <1>5 DEF Submit

(* The read of a cancel call asks, its flag is unseen, its write marks. *)
LEMMA CancelPromise ==
  ASSUME TypeOK, CopyInv, NEW c \in Canceller, Cancel(c)
  PROVE  \/ \E j \in Job : Promised!Ask(c, j)
         \/ Promised!Mark(c) \/ UNCHANGED Promised!vars
<1>1. ASSUME NEW j \in Job, CancelRead(c, j) PROVE Promised!Ask(c, j)
  <2>1. /\ cancelAt[c] = "idle" /\ row[j] \in Row
        /\ row[j].status \notin {"completed", "failed", "cancelled", "timed_out"}
        /\ copy' = [copy EXCEPT ![c] = [job |-> j, row |-> row[j]]]
        /\ cancelAt' = [cancelAt EXCEPT ![c] = "flag"]
        /\ UNCHANGED <<row, at, flag, call>>
    BY <1>1 DEF CancelRead, TypeOK, jobVars, submitVars
  <2>2. PendingOn(c) = NoJob /\ PendingOn(c)' = j
    BY <2>1 DEF PendingOn, TypeOK
  <2>3. \A d \in Canceller \ {c} : SamePending(d)
    BY <2>1 DEF SamePending, PendingOn, TypeOK
  <2>4. Shown(row[j]) \in {"open", "cancelling"}
    BY <2>1, ShownRow
  <2>5. \A i \in Job : SameShown(i) /\ SamePhase(i)
    BY <2>1 DEF SameShown, SamePhase, PhaseOf
  <2>6. Asked' = Asked \cup {j}
    <3>1. \A i \in Job \ {j} : i \in Asked' <=> i \in Asked
      BY <2>1, <2>2, <2>3, NoJobAssumption DEF Asked, SamePending
    <3>2. j \in Asked'
      BY <2>2 DEF Asked
    <3>3. Asked \subseteq Job /\ Asked' \subseteq Job
      BY DEF Asked
    <3>4. QED BY <3>1, <3>2, <3>3
  <2>7. QED
    BY <2>2, <2>3, <2>4, <2>5, <2>6
       DEF Promised!Ask, Promised!Final, SameShown, SamePhase, SamePending,
           Asked
<1>2. CASE CancelFlag(c)
  <2>1. /\ cancelAt[c] = "flag" /\ copy[c].job \in Job
        /\ flag' = [flag EXCEPT ![copy[c].job] = TRUE]
        /\ cancelAt' = [cancelAt EXCEPT ![c] = "write"]
        /\ UNCHANGED <<row, at, call, copy>>
    BY <1>2 DEF CancelFlag, CopyInv, Rows, submitVars
  <2>2. \A d \in Canceller : SamePending(d)
    BY <2>1 DEF SamePending, PendingOn, TypeOK
  <2>3. \A i \in Job : SameShown(i) /\ SamePhase(i)
    BY <2>1 DEF SameShown, SamePhase, PhaseOf
  <2>4. Asked' = Asked
    <3>1. PendingOn(c) = copy[c].job
      BY <2>1 DEF PendingOn
    <3>2. \A i \in Job : i \in Asked' <=> i \in Asked
      BY <2>1, <2>2, <3>1 DEF Asked, SamePending, TypeOK
    <3>3. QED BY <3>2 DEF Asked
  <2>5. QED BY <2>2, <2>3, <2>4, StutterStep
<1>3. CASE CancelWrite(c)
  <2>a. PICK j \in Job : j = copy[c].job /\ row[j] # NoRow
    BY <1>3 DEF CancelWrite, CopyInv, Rows
  <2>b. copy[c].row \in Row /\ "cancel_requested" \in Status
    BY DEF TypeOK, Status
  <2>c. PICK r \in Row : /\ r = [copy[c].row EXCEPT !.status = "cancel_requested"]
                         /\ r.status = "cancel_requested"
    BY <2>b, RowStatus
  <2>1. cancelAt[c] = "write"
    BY <1>3 DEF CancelWrite
  <2>2. /\ row' = [row EXCEPT ![j] = r] /\ cancelAt' = [cancelAt EXCEPT ![c] = "idle"]
        /\ UNCHANGED <<at, flag, call, copy>>
    BY <1>3, <2>a, <2>c DEF CancelWrite, submitVars
  <2>3. PendingOn(c) = j /\ PendingOn(c)' = NoJob
    BY <2>a, <2>1, <2>2 DEF PendingOn, TypeOK
  <2>4. \A d \in Canceller \ {c} : SamePending(d)
    BY <2>2 DEF SamePending, PendingOn, TypeOK
  <2>5. row'[j] = r /\ r # NoRow /\ Shown(row[j])' = "cancelling"
    <3>1. row'[j] = r
      BY <2>2 DEF TypeOK
    <3>2. r # NoRow /\ Shown(r) = "cancelling"
      BY <2>c, ShownRow
    <3>3. QED BY <3>1, <3>2
  <2>6. \A i \in Job \ {j} : SameShown(i) /\ row'[i] = row[i]
    BY <2>2 DEF SameShown, TypeOK
  <2>7. \A i \in Job : SamePhase(i)
    BY <2>a, <2>2, <2>5, <2>6 DEF SamePhase, PhaseOf
  <2>8. Asked' \in {Asked, Asked \ {j}}
    <3>1. \A i \in Job \ {j} : i \in Asked' <=> i \in Asked
      BY <2>2, <2>3, <2>4, NoJobAssumption DEF Asked, SamePending
    <3>2. j \in Asked
      BY <2>3 DEF Asked
    <3>3. Asked \subseteq Job /\ Asked' \subseteq Job
      BY DEF Asked
    <3>4. QED BY <3>1, <3>2, <3>3
  <2>9. Promised!Mark(c)
    <3>1. j # NoJob
      BY NoJobAssumption
    <3>2. QED
      BY <2>3, <2>4, <2>5, <2>6, <2>7, <2>8, <3>1
         DEF Promised!Mark, Promised!Say, SameShown, SamePhase, SamePending,
             Asked
  <2>10. QED BY <2>9
<1>4. QED BY <1>1, <1>2, <1>3 DEF Cancel

(* A restart ends every job that has a row, and every cancel call. *)
LEMMA RestartPromise ==
  ASSUME TypeOK, Restart
  PROVE  Promised!Restart
<1>1. /\ UNCHANGED row /\ flag' = [j \in Job |-> FALSE]
      /\ cancelAt' = [c \in Canceller |-> "idle"]
      /\ at' = [j \in Job |-> IF at[j] \in Ended THEN at[j] ELSE "lost"]
      /\ call' = [j \in Job |-> IF call[j] \in {"insert", "again", "spawn"}
                                THEN "lost" ELSE call[j]]
  BY DEF Restart
<1>2. \A c \in Canceller : PendingOn(c)' = NoJob
  BY <1>1 DEF PendingOn
<1>3. Asked' = {}
  BY <1>1, <1>2, NoJobAssumption DEF Asked
<1>4. \A j \in Job : PhaseOf(j)' = IF PhaseOf(j) = "none" THEN "none" ELSE "over"
  <2> SUFFICES ASSUME NEW j \in Job
               PROVE  PhaseOf(j)' = IF PhaseOf(j) = "none" THEN "none" ELSE "over"
    OBVIOUS
  <2>1. at'[j] \in Ended /\ call'[j] # "spawn" /\ row'[j] = row[j]
    BY <1>1 DEF Ended
  <2>2. row[j] = NoRow <=> PhaseOf(j) = "none"
    BY DEF PhaseOf
  <2>3. QED BY <2>1, <2>2 DEF PhaseOf
<1>5. \A j \in Job : SameShown(j)
  BY <1>1 DEF SameShown
<1>6. QED BY <1>2, <1>3, <1>4, <1>5 DEF Promised!Restart, SameShown, Asked

(* The worker keeps the promise its clients rely on: every step of submits,   *)
(* threads, cancels and restarts is a step of JobService or unseen.          *)
THEOREM PromiseKept == Spec => KeepsPromise
<1>1. Init => Promised!Init
  <2> SUFFICES ASSUME Init PROVE Promised!Init
    OBVIOUS
  <2>1. \A j \in Job : Shown(row[j]) = "none" /\ PhaseOf(j) = "none"
    BY DEF Init, Shown, PhaseOf
  <2>2. \A c \in Canceller : PendingOn(c) = NoJob
    BY DEF Init, PendingOn
  <2>3. Asked = {}
    BY <2>2, NoJobAssumption DEF Init, Asked
  <2>4. QED BY <2>1, <2>2, <2>3 DEF Promised!Init, Asked
<1>2. TypeOK /\ StartedHasRow /\ JobInv /\ RecordRunning /\ [Next]_vars
        => [Promised!Next]_(Promised!vars)
  <2> SUFFICES ASSUME TypeOK, StartedHasRow, JobInv, RecordRunning, [Next]_vars
               PROVE  [Promised!Next]_(Promised!vars)
    OBVIOUS
  <2>1. ASSUME NEW j \in Job, Submit(j) PROVE [Promised!Next]_(Promised!vars)
    BY <2>1, SubmitPromise DEF Promised!Next, Promised!Step
  <2>2. ASSUME NEW j \in Job, RunJob(j) PROVE [Promised!Next]_(Promised!vars)
    BY <2>2, RunJobPromise DEF Promised!Next, Promised!Step
  <2>3. ASSUME NEW c \in Canceller, Cancel(c)
        PROVE [Promised!Next]_(Promised!vars)
    BY <2>3, CancelPromise DEF JobInv, Promised!Next
  <2>4. CASE Restart
    BY <2>4, RestartPromise DEF Promised!Next
  <2>5. CASE UNCHANGED vars \/ \E j \in Job : ContainerExit(j)
    <3>1. UNCHANGED <<row, at, flag, submitVars, cancelVars>>
      BY <2>5 DEF vars, jobVars, ContainerExit
    <3>2. Asked' = Asked /\ \A c \in Canceller : SamePending(c)
      BY <3>1, QuietKeeps
    <3>3. \A i \in Job : SameShown(i) /\ SamePhase(i)
      BY <3>1 DEF SameShown, SamePhase, PhaseOf, submitVars
    <3>4. QED BY <3>2, <3>3, StutterStep
  <2>6. QED BY <2>1, <2>2, <2>3, <2>4, <2>5 DEF Next
<1>3. QED
  BY <1>1, <1>2, TypeCorrect, JobInvariant, RecordsRun, PTL
     DEF Spec, KeepsPromise, Promised!Spec

-----------------------------------------------------------------------------
(* CancelInTimeSticks: what a thread whose last test of the flag is still   *)
(* ahead does from the moment the flag is up.                               *)
InTime == ThreadLabel \ (Ended \cup {"collect", "complete"})

Stuck(j) ==
  /\ row[j] # NoRow /\ row[j].status # "completed"
  /\ (at[j] \in InTime /\ flag[j]) \/ at[j] \in {"end", "lost"}

(* A flag that is up in time finds the job not completed. *)
LEMMA InTimeIsStuck ==
  ASSUME TypeOK, StartedHasRow, JobInv, NEW j \in Job, flag[j],
         at[j] \in InTime
  PROVE  Stuck(j)
<1>1. row[j] # NoRow /\ at[j] \notin {"none", "lost", "end"}
  BY DEF StartedHasRow, InTime, Ended
<1>2. row[j].status # "completed"
  BY <1>1 DEF JobInv, RecordInv
<1>3. QED BY <1>1, <1>2 DEF Stuck

(* No step of its own thread completes it. *)
LEMMA ThreadStaysStuck ==
  ASSUME TypeOK, RecordRunning, NEW j \in Job, Stuck(j), RunJob(j)
  PROVE  Stuck(j)'
<1>1. at[j] \in InTime /\ flag[j]
  BY DEF Stuck, RunJob, Load, SetStatus, CheckFlag, ResolveMode, RunMock,
     StartContainer, WaitContainer, LeaveContainer, RecordContainer,
        Complete, Finish
<1>2. flag' = flag
  BY DEF RunJob, Load, SetStatus, CheckFlag, ResolveMode, RunMock,
     StartContainer, WaitContainer, LeaveContainer, RecordContainer, Complete,
     Finish, Quiet
<1>3. at'[j] \in InTime \cup {"end"}
  BY <1>1
     DEF RunJob, Load, SetStatus, CheckFlag, ResolveMode, RunMock,
         StartContainer, WaitContainer, LeaveContainer, RecordContainer,
         Complete, Finish, Goto, InTime, ThreadLabel, Ended, TypeOK
<1>4. ASSUME NEW s \in Status \ {"completed"}, NEW r,
             r = [record[j] EXCEPT !.status = s],
             Update(j, r)
      PROVE  row'[j] # NoRow /\ row'[j].status # "completed"
  <2>1. r \in Row /\ r.status = s
    BY <1>4, RowStatus DEF TypeOK
  <2>2. row'[j] = r
    BY <1>4 DEF Update, TypeOK
  <2>3. QED BY <1>4, <2>1, <2>2, NoRowAssumption
<1>5. row'[j] # NoRow /\ row'[j].status # "completed"
  <2>1. CASE UNCHANGED row
    BY <2>1 DEF Stuck
  <2>2. ASSUME NEW from, NEW s \in Status \ {"completed"}, NEW to,
               SetStatus(j, from, s, to)
        PROVE  row'[j] # NoRow /\ row'[j].status # "completed"
    BY <2>1, <2>2, <1>4 DEF SetStatus
  <2>3. ASSUME NEW from, NEW s \in Status \ {"completed"}, Finish(j, from, s)
        PROVE  row'[j] # NoRow /\ row'[j].status # "completed"
    BY <2>3, <1>4 DEF Finish
  <2>4. CASE RecordContainer(j)
    <3>1. record[j] \in Row /\ record[j].status = "running"
      BY <2>4 DEF RecordContainer, RecordRunning, TypeOK
    <3>2. row'[j] = record[j]
      BY <2>4 DEF RecordContainer, Update, TypeOK
    <3>3. QED BY <3>1, <3>2, NoRowAssumption
  <2>5. ~Complete(j) /\ ~SetStatus(j, "collect", "collecting", "complete")
    BY <1>1 DEF Complete, SetStatus, InTime
  <2>6. {"validating", "queued", "preparing", "running", "timed_out", "failed",
         "cancelled"} \subseteq Status \ {"completed"}
    BY DEF Status
  <2>7. CASE Load(j) \/ ResolveMode(j) \/ RunMock(j)
             \/ StartContainer(j) \/ WaitContainer(j) \/ LeaveContainer(j)
             \/ CheckFlag(j, "check1", "queue") \/ CheckFlag(j, "check2", "run")
             \/ CheckFlag(j, "check3", "collect")
    BY <2>1, <2>7
       DEF Load, ResolveMode, RunMock, StartContainer, WaitContainer,
           LeaveContainer, CheckFlag
  <2>8. QED BY <2>2, <2>3, <2>4, <2>5, <2>6, <2>7 DEF RunJob
<1>6. QED BY <1>1, <1>2, <1>3, <1>5 DEF Stuck

(* Nor does any other step: a cancel that writes an old copy back, another   *)
(* submit, a restart.                                                        *)
LEMMA StaysStuck ==
  ASSUME TypeOK, StartedHasRow, RecordRunning, NEW j \in Job, Stuck(j),
         [Next]_vars
  PROVE  Stuck(j)'
<1>1. at[j] # "none" /\ call[j] = "done"
  BY DEF Stuck, InTime, Ended, StartedHasRow
<1>2. ASSUME NEW i \in Job, Submit(i) PROVE Stuck(j)'
  <2>1. CASE i = j
    BY <1>1, <1>2, <2>1 DEF Submit, Lookup, Insert, LookupAgain, Spawn
  <2>2. CASE i # j
    BY <1>2, <2>2 DEF Submit, Lookup, Insert, LookupAgain, Spawn, jobVars,
       Stuck, TypeOK
  <2>3. QED BY <2>1, <2>2
<1>3. ASSUME NEW i \in Job, RunJob(i) PROVE Stuck(j)'
  <2>1. CASE i = j
    BY <1>3, <2>1, ThreadStaysStuck
  <2>2. CASE i # j
    <3>1. at'[j] = at[j] /\ row'[j] = row[j] /\ flag' = flag
      BY <1>3, <2>2
         DEF RunJob, Load, SetStatus, CheckFlag, ResolveMode, RunMock,
             StartContainer, WaitContainer, LeaveContainer, RecordContainer,
             Complete, Finish, Goto, Update, Quiet, TypeOK
    <3>2. QED BY <3>1 DEF Stuck
  <2>3. QED BY <2>1, <2>2
<1>4. ASSUME NEW i \in Job, ContainerExit(i) PROVE Stuck(j)'
  BY <1>4 DEF ContainerExit, Stuck
<1>5. ASSUME NEW c \in Canceller, Cancel(c) PROVE Stuck(j)'
  <2>1. CASE \E i \in Job : CancelRead(c, i)
    BY <2>1 DEF CancelRead, jobVars, Stuck
  <2>2. CASE CancelFlag(c)
    BY <2>2 DEF CancelFlag, Stuck, TypeOK
  <2>3. CASE CancelWrite(c)
    <3>1. [copy[c].row EXCEPT !.status = "cancel_requested"] \in Row
          /\ [copy[c].row EXCEPT !.status = "cancel_requested"].status = "cancel_requested"
      BY RowStatus DEF TypeOK, Status
    <3>2. QED BY <2>3, <3>1, NoRowAssumption DEF CancelWrite, Stuck, TypeOK
  <2>4. QED BY <1>5, <2>1, <2>2, <2>3 DEF Cancel
<1>6. CASE Restart
  BY <1>6 DEF Restart, Stuck, InTime, Ended, TypeOK
<1>7. CASE UNCHANGED vars
  BY <1>7 DEF vars, jobVars, Stuck
<1>8. QED BY <1>2, <1>3, <1>4, <1>5, <1>6, <1>7 DEF Next

(* A cancel whose flag is up while the thread's last test of it is still    *)
(* ahead is never overtaken: the job is not reported completed afterwards,  *)
(* however threads, other cancels and restarts go on.                       *)
THEOREM CancelsInTimeStick == Spec => CancelInTimeSticks
<1> DEFINE Up(j) == flag[j] /\ at[j] \in ThreadLabel \ (Ended \cup {"collect", "complete"})
           NotDone(j) == row[j] # NoRow /\ row[j].status # "completed"
<1>1. ASSUME NEW j \in Job
      PROVE  Spec => [](Up(j) => []NotDone(j))
  <2>1. TypeOK /\ StartedHasRow /\ JobInv /\ Up(j) => Stuck(j)
    BY InTimeIsStuck DEF InTime
  <2>2. TypeOK /\ StartedHasRow /\ RecordRunning /\ Stuck(j) /\ [Next]_vars => Stuck(j)'
    BY StaysStuck
  <2>3. Stuck(j) => NotDone(j)
    BY DEF Stuck
  <2> HIDE DEF Up, NotDone
  <2>4. QED
    BY <2>1, <2>2, <2>3, TypeCorrect, JobInvariant, RecordsRun, PTL DEF Spec
<1>2. QED BY <1>1 DEF CancelInTimeSticks

-----------------------------------------------------------------------------
(* The clients of the worker: RemoteExecution.                             *)

(* The worker has said so: what a row that reads st, with metrics or not,    *)
(* needs of the statuses the worker gave the job of e.                       *)
Vouched(e, st, metrics) ==
  /\ metrics \/ st = "completed" => "completed" \in shown[e]
  /\ st = "cancelled" => "cancelled" \in shown[e]
  /\ st = "timed_out" => "timed_out" \in shown[e]
  /\ st = "failed" => shown[e] \cap {"failed", "completed"} # {}
  /\ st = "interrupted" => faults + workerRestarts > 0

(* A status that ends a job here was seen when it was given. *)
EndsAreShown == \A e \in Remote : Seen(job[e]) \in Ends => Seen(job[e]) \in shown[e]

(* Rows, nodes and unpacked files rest on what the worker said. *)
RecordsVouched ==
  /\ \A e \in Remote :
       /\ Vouched(e, attempt[e].status, attempt[e].metrics)
       /\ node[e] = "succeeded" => "completed" \in shown[e]
       /\ node[e] = "cancelled" => "cancelled" \in shown[e]
  /\ \A e \in outputs : "completed" \in shown[e]

(* So does all that a call q carries: the row it read, the row recovery      *)
(* listed and what it collected.                                             *)
CarriedVouched(q) ==
  /\ Vouched(q.of, q.copy.status, q.copy.metrics)
  /\ Vouched(q.of, q.listed.status, q.listed.metrics)
  /\ Vouched(q.of, q.seen, q.metrics)
  /\ q.at = "download" => "completed" \in shown[q.of]
  /\ q.at = "interrupt" => faults + workerRestarts > 0

(* A call that is about to write has seen a status; a call past its submit   *)
(* has a job, and past its binding, the file.                                *)
InPlace(q) ==
  /\ q.at \in {"sync", "download", "explain", "store", "node"}
       => q.seen \notin {"absent", "interrupted"}
  /\ q.at \notin {"idle", "post"} => phase[q.of] # "none"
  /\ q.at \notin {"idle", "post", "bind"} => q.of \in bound

(* Only requests submit; a watcher starts with a row. *)
WatchersWatch == \A e \in Remote : request[e].at \notin {"post", "bind", "insert"}

RemoteInv ==
  /\ RemoteTypeOK
  /\ EndsAreShown
  /\ RecordsVouched
  /\ \A a \in Actor : CarriedVouched(request[a]) /\ InPlace(request[a])
  /\ WatchersWatch
  /\ JobsAccountedFor

(* What the worker said stays said, and a call's place stays its place. *)
WordStands ==
  /\ \A e \in Remote : shown[e] \subseteq shown'[e]
  /\ \A e \in Remote : phase[e] # "none" => phase'[e] # "none"
  /\ bound \subseteq bound'
  /\ faults + workerRestarts > 0 => faults' + workerRestarts' > 0

LEMMA VouchedStands ==
  ASSUME WordStands, NEW e \in Remote, NEW st, NEW metrics \in BOOLEAN,
         Vouched(e, st, metrics)
  PROVE  Vouched(e, st, metrics)'
BY DEF WordStands, Vouched

LEMMA CallStands ==
  ASSUME WordStands, NEW q \in Call, CarriedVouched(q), InPlace(q)
  PROVE  CarriedVouched(q)' /\ InPlace(q)'
<1>1. /\ q.of \in Remote /\ q.metrics \in BOOLEAN
      /\ q.copy.metrics \in BOOLEAN /\ q.listed.metrics \in BOOLEAN
  BY DEF Call, Attempt
<1>2. CarriedVouched(q)'
  <2>1. /\ Vouched(q.of, q.copy.status, q.copy.metrics)'
        /\ Vouched(q.of, q.listed.status, q.listed.metrics)'
        /\ Vouched(q.of, q.seen, q.metrics)'
    BY <1>1, VouchedStands DEF CarriedVouched
  <2>2. QED BY <1>1, <2>1 DEF CarriedVouched, WordStands
<1>3. InPlace(q)'
  BY <1>1 DEF InPlace, WordStands
<1>4. QED BY <1>2, <1>3

(* The records calls are made of. *)
LEMMA CallRecords ==
  /\ NoAttempt \in Attempt /\ Idle \in Call
  /\ Idle.at = "idle" /\ Idle.copy = NoAttempt /\ Idle.listed = NoAttempt
  /\ Idle.seen = "absent" /\ ~Idle.metrics
  /\ NoAttempt.status = "absent" /\ ~NoAttempt.metrics /\ ~NoAttempt.error
  /\ \A e \in Remote, l \in CallLabel :
       /\ Start(e, l) \in Call
       /\ Start(e, l).at = l /\ Start(e, l).of = e
       /\ Start(e, l).copy = NoAttempt /\ Start(e, l).listed = NoAttempt
       /\ Start(e, l).seen = "absent" /\ ~Start(e, l).metrics
<1>1. NoAttempt \in Attempt
  BY DEF NoAttempt, Attempt, AttemptStatus
<1>2. (CHOOSE e \in Remote : TRUE) \in Remote
  BY RemoteActors
<1>3. Idle \in Call
  BY <1>1, <1>2 DEF Idle, Call, CallLabel, AttemptStatus
<1>4. QED BY <1>1, <1>3 DEF Start, Idle, Call, NoAttempt

(* A call that only begins has nothing to answer for. *)
LEMMA BlankIsVouched ==
  ASSUME NEW e
  PROVE  /\ Vouched(e, NoAttempt.status, NoAttempt.metrics)
         /\ Vouched(e, "absent", FALSE)
         /\ Vouched(e, "active", FALSE)
BY DEF Vouched, NoAttempt

LEMMA IdleFits == CarriedVouched(Idle) /\ InPlace(Idle)
BY CallRecords, BlankIsVouched DEF CarriedVouched, InPlace, NoAttempt, Vouched

LEMMA StartFits ==
  ASSUME NEW e \in Remote, NEW l \in CallLabel \ {"download", "interrupt",
           "sync", "explain", "store", "node"},
         l = "post" \/ (phase[e] # "none" /\ (l = "bind" \/ e \in bound))
  PROVE  CarriedVouched(Start(e, l)) /\ InPlace(Start(e, l))
BY CallRecords, BlankIsVouched DEF CarriedVouched, InPlace, NoAttempt, Vouched

(* An exception leaves a call idle, or recovery about to give up: a call to  *)
(* the worker has failed by then.                                            *)
LEMMA RaisedFits ==
  ASSUME WordStands, NEW q \in Call, CarriedVouched(q), InPlace(q),
         q.at \notin {"idle", "post", "bind"}, faults' + workerRestarts' > 0
  PROVE  /\ Raised(q) \in Call /\ Raised(q).at \in {"idle", "interrupt"}
         /\ CarriedVouched(Raised(q))' /\ InPlace(Raised(q))'
<1>1. CASE q.listed = NoAttempt
  BY <1>1, CallRecords, IdleFits, CallStands DEF Raised
<1>2. CASE q.listed # NoAttempt
  <2>1. PICK p : p = Raised(q)
    OBVIOUS
  <2>2. q.of \in Remote /\ q.listed \in Attempt /\ "interrupt" \in CallLabel
    BY DEF Call, CallLabel
  <2>3. p = [Start(q.of, "interrupt") EXCEPT !.listed = q.listed]
    BY <1>2, <2>1 DEF Raised
  <2>4. /\ p \in Call /\ p.at = "interrupt" /\ p.of = q.of /\ p.listed = q.listed
        /\ p.copy = NoAttempt /\ p.seen = "absent" /\ ~p.metrics
    BY <2>2, <2>3, CallRecords DEF Call
  <2>5. Vouched(q.of, q.listed.status, q.listed.metrics)'
    BY <2>2, VouchedStands DEF CarriedVouched, Attempt
  <2>6. CarriedVouched(p)'
    BY <2>4, <2>5, CallRecords DEF CarriedVouched, Vouched
  <2>7. InPlace(p)'
    BY <2>2, <2>4 DEF InPlace, WordStands
  <2>8. QED BY <2>1, <2>4, <2>6, <2>7
<1>3. QED BY <1>1, <1>2

(* Counts only grow. *)
LEMMA MoreIsMore ==
  ASSUME NEW x \in Nat, NEW y \in Nat, NEW u \in Nat, NEW v \in Nat, u >= x,
         v >= y
  PROVE  /\ x + y > 0 => u + v > 0
         /\ u > 0 \/ v > 0 => u + v > 0
OBVIOUS

LEMMA WordStandsIf ==
  ASSUME RemoteTypeOK, UNCHANGED <<phase, bound, shown>>, faults' \in Nat,
         faults' >= faults, UNCHANGED workerRestarts
  PROVE  WordStands
<1>1. /\ faults \in Nat /\ workerRestarts \in Nat
      /\ workerRestarts' \in Nat /\ workerRestarts' >= workerRestarts
  BY RemoteBounds DEF RemoteTypeOK
<1>2. faults + workerRestarts > 0 => faults' + workerRestarts' > 0
  BY <1>1, MoreIsMore
<1>3. QED BY <1>2 DEF WordStands

(* Every call has what it needs, if the one of a that moves to q has.       *)
LEMMA CallsKeep ==
  ASSUME RemoteInv, WordStands, NEW a \in Actor, NEW q \in Call,
         request' = [request EXCEPT ![a] = q],
         CarriedVouched(q)', InPlace(q)',
         a \in Remote => q.at \notin {"post", "bind", "insert"}
  PROVE  /\ request' \in [Actor -> Call]
         /\ \A b \in Actor : CarriedVouched(request[b])' /\ InPlace(request[b])'
         /\ WatchersWatch'
<1> USE DEF RemoteInv
<1>1. ASSUME NEW b \in Actor
      PROVE  CarriedVouched(request[b])' /\ InPlace(request[b])'
  <2>1. CASE b = a
    <3>1. request'[b] = q
      BY <2>1 DEF RemoteTypeOK
    <3>2. QED BY <3>1
  <2>2. CASE b # a
    <3>1. PICK p \in Call : p = request[b]
      BY DEF RemoteTypeOK
    <3>2. request'[b] = p
      BY <2>2, <3>1 DEF RemoteTypeOK
    <3>3. CarriedVouched(p) /\ InPlace(p)
      BY <3>1
    <3>4. CarriedVouched(p)' /\ InPlace(p)'
      BY <3>3, CallStands
    <3>5. QED BY <3>2, <3>4
  <2>3. QED BY <2>1, <2>2
<1>2. WatchersWatch'
  BY DEF WatchersWatch, RemoteTypeOK, Actor
<1>3. QED BY <1>1, <1>2 DEF RemoteTypeOK

(* Rows, nodes and files that stay are vouched for as before.               *)
LEMMA RowsStand ==
  ASSUME RemoteInv, WordStands, UNCHANGED attempt
  PROVE  \A e \in Remote : Vouched(e, attempt[e].status, attempt[e].metrics)'
<1> SUFFICES ASSUME NEW e \in Remote
             PROVE  Vouched(e, attempt[e].status, attempt[e].metrics)'
  OBVIOUS
<1>1. PICK r \in Attempt : r = attempt[e] /\ r = attempt'[e]
  BY DEF RemoteInv, RemoteTypeOK
<1>2. Vouched(e, r.status, r.metrics)
  BY <1>1 DEF RemoteInv, RecordsVouched
<1>3. Vouched(e, r.status, r.metrics)'
  BY <1>2, VouchedStands DEF Attempt
<1>4. QED BY <1>1, <1>3

LEMMA RecordsStand ==
  ASSUME RemoteInv, WordStands, UNCHANGED <<attempt, node, outputs>>
  PROVE  RecordsVouched'
<1>1. outputs \subseteq Remote
  BY DEF RemoteInv, RemoteTypeOK
<1>2. QED BY <1>1, RowsStand DEF RecordsVouched, RemoteInv, WordStands

(* A call of a, past its submit, moves from request[a] to q and may write    *)
(* rows, nodes and files: what it writes the worker must have vouched for,   *)
(* and a row it makes must belong to a job with a binding.                   *)
LEMMA CallKeeps ==
  ASSUME RemoteInv, NEW a \in Actor, NEW q \in Call,
         request' = [request EXCEPT ![a] = q],
         request[a].at \notin {"post", "bind", "insert"},
         q.at \notin {"post", "bind", "insert"},
         UNCHANGED <<job, phase, bound, ghosts, restartCounts>>,
         Worker!TypeOK',
         attempt' \in [Remote -> Attempt],
         node' \in [Remote -> {"none", "running", "succeeded", "cancelled", "failed"}],
         outputs' \subseteq Remote,
         cancels' \in 0..MaxCancels, faults' \in 0..MaxFaults,
            faults' >= faults,
         RecordsVouched',
         \A e \in Remote : attempt[e] # NoAttempt => attempt'[e] # NoAttempt,
         \A e \in Remote : attempt'[e] # NoAttempt /\ attempt[e] = NoAttempt
                             => e \in bound /\ phase[e] # "none",
         CarriedVouched(q)', InPlace(q)'
  PROVE  RemoteInv'
<1> USE DEF RemoteInv
<1>0. WordStands
  BY RemoteBounds, WordStandsIf DEF ghosts, restartCounts
<1>1. RemoteTypeOK'
  BY DEF RemoteTypeOK, ghosts, restartCounts
<1>2. EndsAreShown'
  BY DEF EndsAreShown, ghosts, Seen
<1>3. /\ \A b \in Actor : CarriedVouched(request[b])' /\ InPlace(request[b])'
      /\ WatchersWatch'
  BY <1>0, CallsKeep
<1>5. Submitting' = Submitting
  <2>1. \A b \in Actor : request'[b].at \in {"post", "bind", "insert"}
                           <=> request[b].at \in {"post", "bind", "insert"}
    BY DEF RemoteTypeOK
  <2>2. \A b \in Actor : request[b].at \in {"post", "bind", "insert"}
                           => request'[b].of = request[b].of
    BY DEF RemoteTypeOK
  <2>3. QED BY <2>1, <2>2 DEF Submitting, Of
<1>6. JobsAccountedFor'
  BY <1>5 DEF JobsAccountedFor, ghosts
<1>7. QED BY <1>1, <1>2, <1>3, <1>6

(* A call that writes nothing here. *)
LEMMA ReadKeeps ==
  ASSUME RemoteInv, NEW a \in Actor, NEW q \in Call,
         request' = [request EXCEPT ![a] = q],
         request[a].at \notin {"post", "bind", "insert"},
         q.at \notin {"post", "bind", "insert"},
         UNCHANGED <<job, phase, records, files, ghosts, restartCounts>>,
         Worker!TypeOK',
         cancels' \in 0..MaxCancels, faults' \in 0..MaxFaults,
            faults' >= faults,
         CarriedVouched(q)', InPlace(q)'
  PROVE  RemoteInv'
<1>1. UNCHANGED <<bound, attempt, node, outputs>>
  BY DEF records, files
<1>2. WordStands
  BY RemoteBounds, WordStandsIf DEF ghosts, restartCounts, RemoteInv, files
<1>4. RecordsVouched'
  BY <1>1, <1>2, RecordsStand
<1>5. QED
  BY <1>1, <1>4, CallKeeps DEF RemoteInv, RemoteTypeOK

(* A call of a that fails. *)
LEMMA FailedCallKeeps ==
  ASSUME RemoteInv, NEW a \in Actor, ReadFails(a), Worker!TypeOK',
         request[a].at \notin {"idle", "post", "bind", "insert"},
         UNCHANGED <<job, phase, records, files, ghosts, cancels, restartCounts>>
  PROVE  RemoteInv'
<1>1. PICK p \in Call : p = request[a]
  BY DEF RemoteInv, RemoteTypeOK
<1>2. PICK q : q = Raised(p)
  OBVIOUS
<1>3. faults' \in 0..MaxFaults /\ faults' >= faults /\ faults' > 0
  BY RemoteBounds DEF ReadFails, Fault, RemoteInv, RemoteTypeOK
<1>4. WordStands
  BY <1>3, RemoteBounds, WordStandsIf DEF ghosts, restartCounts, RemoteInv,
     files
<1>10. faults' + workerRestarts' > 0
  <2>1. /\ faults \in Nat /\ workerRestarts \in Nat
        /\ faults' \in Nat /\ workerRestarts' \in Nat
        /\ workerRestarts' >= workerRestarts
    BY <1>3, RemoteBounds DEF restartCounts, RemoteInv, RemoteTypeOK
  <2>2. QED BY <1>3, <2>1, MoreIsMore
<1>5. CarriedVouched(p) /\ InPlace(p)
  BY <1>1 DEF RemoteInv
<1>6. /\ q \in Call /\ q.at \in {"idle", "interrupt"}
      /\ CarriedVouched(q)' /\ InPlace(q)'
  BY <1>1, <1>2, <1>4, <1>5, <1>10, RaisedFits
<1>7. request' = [request EXCEPT ![a] = q]
  BY <1>1, <1>2 DEF ReadFails, Raise
<1>8. cancels' \in 0..MaxCancels
  BY DEF RemoteInv, RemoteTypeOK
<1>9. QED BY <1>3, <1>6, <1>7, <1>8, ReadKeeps

(* The same, of a call that leaves the worker alone too; what it carries is  *)
(* vouched for as it moves.                                                  *)
LEMMA LookKeeps ==
  ASSUME RemoteInv, NEW a \in Actor, NEW q \in Call,
         request' = [request EXCEPT ![a] = q],
         request[a].at \notin {"post", "bind", "insert"},
         q.at \notin {"post", "bind", "insert"},
         UNCHANGED <<job, phase, records, files, ghosts, restartCounts>>,
         Worker!TypeOK',
         cancels' \in 0..MaxCancels, faults' = faults,
         CarriedVouched(q), InPlace(q)
  PROVE  RemoteInv'
<1>1. faults' \in 0..MaxFaults /\ faults' \in Nat /\ faults' >= faults
  BY RemoteBounds DEF RemoteInv, RemoteTypeOK
<1>2. WordStands
  BY <1>1, WordStandsIf DEF ghosts, restartCounts, RemoteInv, files
<1>3. CarriedVouched(q)' /\ InPlace(q)'
  BY <1>2, CallStands
<1>4. QED BY <1>1, <1>3, ReadKeeps

(* A call that goes on as it is. *)
LEMMA MoveKeeps ==
  ASSUME RemoteInv, NEW a \in Actor,
         NEW l \in CallLabel \ {"idle", "post", "bind", "insert", "download", "interrupt",
                                "sync", "explain", "store", "node"},
         Move(a, l),
         request[a].at \notin {"idle", "post", "bind", "insert"},
         UNCHANGED <<job, phase, records, files, ghosts, restartCounts>>,
         Worker!TypeOK',
         cancels' = cancels, faults' = faults
  PROVE  RemoteInv'
<1>1. PICK p \in Call : p = request[a]
  BY DEF RemoteInv, RemoteTypeOK
<1>2. PICK q : q = [p EXCEPT !.at = l]
  OBVIOUS
<1>3. /\ q \in Call /\ q.at = l /\ q.of = p.of /\ q.copy = p.copy
      /\ q.listed = p.listed /\ q.seen = p.seen /\ q.metrics = p.metrics
  BY <1>2 DEF Call
<1>4. CarriedVouched(p) /\ InPlace(p)
  BY <1>1 DEF RemoteInv
<1>5. CarriedVouched(q)
  BY <1>3, <1>4 DEF CarriedVouched
<1>6. InPlace(q)
  BY <1>1, <1>3, <1>4 DEF InPlace
<1>7. request' = [request EXCEPT ![a] = q]
  BY <1>1, <1>2 DEF Move
<1>8. cancels' \in 0..MaxCancels
  BY DEF RemoteInv, RemoteTypeOK
<1>9. QED BY <1>1, <1>3, <1>5, <1>6, <1>7, <1>8, LookKeeps

(* The worker, left alone. *)
LEMMA WorkerAlone ==
  ASSUME Worker!TypeOK, UNCHANGED worker
  PROVE  Worker!TypeOK' /\ UNCHANGED <<job, phase, asked, pending>>
BY DEF Worker!TypeOK, worker

(* A cancel is begun, by a call or by a wait at its deadline. *)
LEMMA AskingKeeps ==
  ASSUME RemoteInv, NEW a \in Actor, NEW p \in Call,
         NEW then \in {"read", "status"},
         CarriedVouched(p), InPlace(p),
            p.at \notin {"idle", "post", "bind", "insert"},
         request' = [request EXCEPT ![a] = Asking(p, then)],
         request[a].at \notin {"post", "bind", "insert"},
         BeginCancel,
            UNCHANGED <<worker, records, files, ghosts, faults, restartCounts>>
  PROVE  RemoteInv'
<1>1. PICK q : q = Asking(p, then)
  OBVIOUS
<1>2. cancels' \in 0..MaxCancels /\ cancels + 1 \in CancelCall
  BY RemoteBounds DEF RemoteInv, RemoteTypeOK, BeginCancel, CancelCall
<1>3. q = [p EXCEPT !.at = "ask", !.asks = cancels + 1, !.then = then]
  BY <1>1 DEF Asking
<1>4. /\ q \in Call /\ q.at = "ask" /\ q.of = p.of /\ q.copy = p.copy
      /\ q.listed = p.listed /\ q.seen = p.seen /\ q.metrics = p.metrics
  BY <1>2, <1>3 DEF Call, CallLabel
<1>5. CarriedVouched(q)
  BY <1>4 DEF CarriedVouched
<1>6. InPlace(q)
  BY <1>4 DEF InPlace
<1>7. request' = [request EXCEPT ![a] = q]
  BY <1>1
<1>8. Worker!TypeOK' /\ UNCHANGED <<job, phase>>
  BY WorkerAlone DEF RemoteInv, RemoteTypeOK
<1>9. QED BY <1>2, <1>4, <1>5, <1>6, <1>7, <1>8, LookKeeps

LEMMA WaitUntilDoneKeeps ==
  ASSUME RemoteInv, NEW a \in Actor, NEW l \in {"wait", "live"},
         NEW then \in {"read", "status"}, WaitUntilDone(a, l, then)
  PROVE  RemoteInv'
<1>1. /\ Worker!TypeOK' /\ UNCHANGED <<job, phase, records, files, ghosts, restartCounts>>
      /\ UNCHANGED worker
  BY WorkerAlone DEF RemoteInv, RemoteTypeOK, WaitUntilDone
<1>2. request[a].at = l
  BY DEF WaitUntilDone, Doing
<1>3. CASE Move(a, IF l = "wait" THEN "read" ELSE then) /\ UNCHANGED <<cancels, faults>>
  <2>1. (IF l = "wait" THEN "read" ELSE then) \in {"read", "status"}
    OBVIOUS
  <2>2. PICK n \in {"read", "status"} : Move(a, n)
    BY <1>3, <2>1
  <2>3. QED BY <1>1, <1>2, <1>3, <2>2, MoveKeeps DEF CallLabel
<1>4. CASE BeginCancel /\ NoFault /\ request' = [request EXCEPT ![a] = Asking(@, then)]
  <2>1. PICK p \in Call : p = request[a]
    BY DEF RemoteInv, RemoteTypeOK
  <2>2. CarriedVouched(p) /\ InPlace(p)
    BY <2>1 DEF RemoteInv
  <2>3. request' = [request EXCEPT ![a] = Asking(p, then)]
    BY <1>4, <2>1
  <2>4. QED BY <1>1, <1>2, <1>4, <2>1, <2>2, <2>3, AskingKeeps DEF NoFault
<1>5. CASE ReadFails(a) /\ UNCHANGED cancels
  BY <1>1, <1>2, <1>5, FailedCallKeeps
<1>6. QED BY <1>3, <1>4, <1>5 DEF WaitUntilDone

LEMMA CancelAnsweredKeeps ==
  ASSUME RemoteInv, NEW a \in Actor, CancelAnswered(a)
  PROVE  RemoteInv'
<1>1. /\ Worker!TypeOK' /\ UNCHANGED <<job, phase, records, files, ghosts, restartCounts>>
      /\ UNCHANGED cancels
  BY WorkerAlone DEF RemoteInv, RemoteTypeOK, CancelAnswered
<1>2. request[a].at = "answer" /\ request[a].then \in {"read", "status"}
  BY DEF CancelAnswered, Doing, RemoteInv, RemoteTypeOK, Call
<1>3. CASE Move(a, request[a].then) /\ NoFault
  <2>1. PICK n \in {"read", "status"} : Move(a, n)
    BY <1>2, <1>3
  <2>2. QED BY <1>1, <1>2, <1>3, <2>1, MoveKeeps DEF CallLabel, NoFault
<1>4. CASE ReadFails(a)
  BY <1>1, <1>2, <1>4, FailedCallKeeps
<1>5. QED BY <1>3, <1>4 DEF CancelAnswered

LEMMA AskWorkerKeeps ==
  ASSUME RemoteInv, NEW a \in Actor, AskWorker(a)
  PROVE  RemoteInv'
<1>1. request[a].at = "ask" /\ request[a].then \in {"read", "status"} /\ Of(a) \in Remote
  BY DEF AskWorker, Doing, RemoteInv, RemoteTypeOK, Call, Of
<1>2. UNCHANGED <<records, files, ghosts, cancels, restartCounts>>
  BY DEF AskWorker
<1>3. Worker!TypeOK' /\ UNCHANGED <<job, phase>>
  <2>1. CASE UNCHANGED worker
    BY <2>1, WorkerAlone DEF RemoteInv, RemoteTypeOK
  <2>2. CASE Worker!Ask(request[a].asks, Of(a))
    BY <1>1, <2>2 DEF RemoteInv, RemoteTypeOK, Worker!TypeOK, Worker!Ask
  <2>3. QED BY <2>1, <2>2 DEF AskWorker
<1>4. CASE Move(a, request[a].then) /\ NoFault
  <2>1. PICK n \in {"read", "status"} : Move(a, n)
    BY <1>1, <1>4
  <2>2. QED BY <1>1, <1>2, <1>3, <1>4, <2>1, MoveKeeps DEF CallLabel, NoFault
<1>5. CASE Move(a, "answer") /\ NoFault
  BY <1>1, <1>2, <1>3, <1>5, MoveKeeps DEF CallLabel, NoFault
<1>6. CASE ReadFails(a)
  BY <1>1, <1>2, <1>3, <1>6, FailedCallKeeps
<1>7. QED BY <1>4, <1>5, <1>6 DEF AskWorker

LEMMA ReadAttemptKeeps ==
  ASSUME RemoteInv, NEW a \in Actor, ReadAttempt(a) \/ RecoverRefresh(a)
  PROVE  RemoteInv'
<1>1. /\ Worker!TypeOK' /\ UNCHANGED <<job, phase, records, files, ghosts, restartCounts>>
      /\ UNCHANGED <<cancels, faults>>
  BY WorkerAlone DEF RemoteInv, RemoteTypeOK, ReadAttempt, RecoverRefresh,
     bounds
<1>2. PICK p \in Call : p = request[a]
  BY DEF RemoteInv, RemoteTypeOK
<1>3. CarriedVouched(p) /\ InPlace(p) /\ p.of \in Remote
  BY <1>2 DEF RemoteInv, Call
<1>4. PICK r \in Attempt : r = attempt[p.of]
  BY <1>3 DEF RemoteInv, RemoteTypeOK
<1>5. PICK l \in {"live", "poll"} :
        request' = [request EXCEPT ![a].copy = r, ![a].at = l]
  BY <1>2, <1>4 DEF ReadAttempt, RecoverRefresh, Of
<1>6. PICK q : q = [p EXCEPT !.copy = r, !.at = l]
  OBVIOUS
<1>7. /\ q \in Call /\ q.at = l /\ q.of = p.of /\ q.copy = r
      /\ q.listed = p.listed /\ q.seen = p.seen /\ q.metrics = p.metrics
  BY <1>5, <1>6 DEF Call, CallLabel
<1>8. request' = [request EXCEPT ![a] = q]
  BY <1>2, <1>5, <1>6
<1>9. Vouched(p.of, r.status, r.metrics)
  BY <1>3, <1>4 DEF RemoteInv, RecordsVouched
<1>10. CarriedVouched(q)
  BY <1>3, <1>5, <1>7, <1>9 DEF CarriedVouched
<1>11. p.at \in {"read", "reread"}
  BY <1>2 DEF ReadAttempt, RecoverRefresh, Doing
<1>12. InPlace(q)
  BY <1>3, <1>5, <1>7, <1>11 DEF InPlace
<1>13. cancels' \in 0..MaxCancels
  BY <1>1 DEF RemoteInv, RemoteTypeOK
<1>14. QED BY <1>1, <1>2, <1>5, <1>7, <1>8, <1>10, <1>11, <1>12, <1>13,
          LookKeeps

(* The status of a job as it is now is one the worker gave. *)
LEMMA SeenStatus ==
  ASSUME NEW s
  PROVE  /\ s \in Ends => Seen(s) = s
         /\ s = "cancelling" => Seen(s) = "cancelled"
         /\ s \notin Ends \cup {"cancelling"} => Seen(s) = "active"
         /\ Seen(s) \in AttemptStatus \ {"absent", "interrupted"}
         /\ Seen(s) \in Ends <=> s \in Ends \cup {"cancelling"}
<1>1. CASE s \in Ends
  BY <1>1 DEF Seen, Ends, AttemptStatus
<1>2. CASE s = "cancelling"
  BY <1>2 DEF Seen, Ends, AttemptStatus
<1>3. CASE s \notin Ends \cup {"cancelling"}
  BY <1>3 DEF Seen, Ends, AttemptStatus
<1>4. QED BY <1>1, <1>2, <1>3

LEMMA SeenVouched ==
  ASSUME EndsAreShown, NEW e \in Remote, NEW metrics \in BOOLEAN,
         metrics => "completed" \in shown[e]
  PROVE  /\ Vouched(e, Seen(job[e]), metrics)
         /\ Seen(job[e]) = "completed" => "completed" \in shown[e]
<1>1. PICK s : s = Seen(job[e])
  OBVIOUS
<1>2. s \in AttemptStatus \ {"absent", "interrupted"} /\ (s \in Ends => s \in shown[e])
  BY <1>1, SeenStatus DEF EndsAreShown
<1>3. Vouched(e, s, metrics)
  BY <1>2 DEF Vouched, Ends, AttemptStatus
<1>4. QED BY <1>1, <1>2, <1>3 DEF Ends

LEMMA LookingKeeps ==
  ASSUME RemoteInv, NEW a \in Actor,
         CollectStatus(a) \/ PollWorker(a) \/ Explain(a)
  PROVE  RemoteInv'
<1>1. /\ Worker!TypeOK' /\ UNCHANGED <<job, phase, records, files, ghosts, restartCounts>>
      /\ UNCHANGED cancels
  BY WorkerAlone DEF RemoteInv, RemoteTypeOK, CollectStatus, PollWorker,
     Explain
<1>2. request[a].at \in {"status", "poll", "explain"}
  BY DEF CollectStatus, PollWorker, Explain, Doing
<1>3. CASE ReadFails(a)
  BY <1>1, <1>2, <1>3, FailedCallKeeps
<1>4. cancels' \in 0..MaxCancels
  BY <1>1 DEF RemoteInv, RemoteTypeOK
<1>5. PICK p \in Call : p = request[a]
  BY DEF RemoteInv, RemoteTypeOK
<1>6. /\ CarriedVouched(p) /\ InPlace(p)
      /\ p.of \in Remote /\ p.metrics \in BOOLEAN /\ p.seen \in AttemptStatus
  BY <1>5 DEF RemoteInv, Call
<1>7. p.metrics => "completed" \in shown[p.of]
  BY <1>6 DEF CarriedVouched, Vouched
<1>8. PICK s : s = Seen(job[p.of])
  OBVIOUS
<1>9. /\ s \in AttemptStatus \ {"absent", "interrupted"} /\ Vouched(p.of, s, p.metrics)
      /\ s = "completed" => "completed" \in shown[p.of]
  BY <1>6, <1>7, <1>8, SeenStatus, SeenVouched DEF RemoteInv
<1>10. CASE (CollectStatus(a) \/ PollWorker(a)) /\ ~ReadFails(a)
  <2>1. PICK l \in {"download", "explain", "sync"} :
          /\ request' = [request EXCEPT ![a].seen = s, ![a].at = l]
          /\ NoFault /\ p.at \in {"status", "poll"}
          /\ l = "download" => s = "completed"
    <3>1. CASE CollectStatus(a)
      <4>1. (IF job[p.of] = "completed" THEN "download" ELSE "explain")
              \in {"download", "explain", "sync"}
        OBVIOUS
      <4>2. job[p.of] = "completed" => s = "completed"
        BY <1>8, SeenStatus DEF Ends
      <4>3. QED BY <1>5, <1>8, <1>10, <3>1, <4>1, <4>2 DEF CollectStatus, Of,
               Doing
    <3>2. CASE PollWorker(a)
      BY <1>5, <1>8, <1>10, <3>2 DEF PollWorker, Of, Doing
    <3>3. QED BY <1>10, <3>1, <3>2
  <2>2. PICK q : q = [p EXCEPT !.seen = s, !.at = l]
    OBVIOUS
  <2>3. /\ q \in Call /\ q.at = l /\ q.of = p.of /\ q.copy = p.copy
        /\ q.listed = p.listed /\ q.seen = s /\ q.metrics = p.metrics
    BY <1>9, <2>1, <2>2 DEF Call, CallLabel
  <2>4. request' = [request EXCEPT ![a] = q]
    BY <1>5, <2>1, <2>2
  <2>5. CarriedVouched(q)
    BY <1>6, <1>9, <2>1, <2>3 DEF CarriedVouched
  <2>6. InPlace(q)
    BY <1>6, <1>9, <2>1, <2>3 DEF InPlace
  <2>7. QED BY <1>1, <1>4, <1>5, <2>1, <2>3, <2>4, <2>5, <2>6,
           LookKeeps DEF NoFault
<1>11. CASE Explain(a) /\ ~ReadFails(a)
  <2>1. PICK m \in BOOLEAN : m <=> p.of \in outputs
    OBVIOUS
  <2>2. /\ request' = [request EXCEPT ![a].metrics = m, ![a].at = "store"]
        /\ NoFault /\ p.at = "explain"
    BY <1>5, <1>11, <2>1 DEF Explain, Of, Doing
  <2>3. PICK q : q = [p EXCEPT !.metrics = m, !.at = "store"]
    OBVIOUS
  <2>4. /\ q \in Call /\ q.at = "store" /\ q.of = p.of /\ q.copy = p.copy
        /\ q.listed = p.listed /\ q.seen = p.seen /\ q.metrics = m
    BY <2>1, <2>3 DEF Call, CallLabel
  <2>5. request' = [request EXCEPT ![a] = q]
    BY <1>5, <2>2, <2>3
  <2>6. m => "completed" \in shown[p.of]
    BY <2>1 DEF RemoteInv, RecordsVouched
  <2>7. Vouched(p.of, p.seen, m)
    BY <1>6, <2>6 DEF CarriedVouched, Vouched
  <2>8. CarriedVouched(q)
    BY <1>6, <2>4, <2>7 DEF CarriedVouched
  <2>9. InPlace(q)
    BY <1>6, <2>2, <2>4 DEF InPlace
  <2>10. QED BY <1>1, <1>4, <1>5, <2>2, <2>4, <2>5, <2>8, <2>9,
            LookKeeps DEF NoFault
<1>12. QED BY <1>3, <1>10, <1>11

(* The row of an execution that has one tells of a job with a binding.     *)
LEMMA HasRow ==
  ASSUME RemoteInv, NEW e \in Remote, attempt[e] # NoAttempt
  PROVE  e \in bound /\ phase[e] # "none"
BY DEF RemoteInv, JobsAccountedFor

(* A call that writes the row of its execution. *)
LEMMA WriteKeeps ==
  ASSUME RemoteInv, NEW a \in Actor, NEW p \in Call, NEW q \in Call,
         NEW r \in Attempt,
         p = request[a], request' = [request EXCEPT ![a] = q],
         p.at \notin {"idle", "post", "bind", "insert"},
         q.at \notin {"post", "bind", "insert"},
         Upsert(p.of, r), r # NoAttempt, Vouched(p.of, r.status, r.metrics),
         UNCHANGED <<worker, node, files, ghosts, bounds>>,
         CarriedVouched(q), InPlace(q)
  PROVE  RemoteInv'
<1>1. Worker!TypeOK' /\ UNCHANGED <<job, phase>>
  BY WorkerAlone DEF RemoteInv, RemoteTypeOK
<1>2. UNCHANGED <<bound, outputs, ghosts, cancels, faults, restartCounts>>
  BY DEF files, bounds
<1>3. /\ cancels' \in 0..MaxCancels
      /\ faults' \in 0..MaxFaults /\ faults' \in Nat /\ faults' >= faults
  BY <1>2, RemoteBounds DEF RemoteInv, RemoteTypeOK
<1>4. WordStands
  BY <1>1, <1>2, <1>3, WordStandsIf DEF ghosts, restartCounts, RemoteInv
<1>5. CarriedVouched(q)' /\ InPlace(q)'
  BY <1>4, CallStands
<1>6. p.of \in bound /\ phase[p.of] # "none" /\ p.of \in Remote
  <2>1. InPlace(p)
    BY DEF RemoteInv
  <2>2. QED BY <2>1 DEF InPlace, Call
<1>7. /\ attempt' \in [Remote -> Attempt] /\ attempt'[p.of] = r
      /\ \A e \in Remote : e # p.of => attempt'[e] = attempt[e]
  BY <1>6 DEF Upsert, RemoteInv, RemoteTypeOK
<1>8. ASSUME NEW e \in Remote
      PROVE  Vouched(e, attempt[e].status, attempt[e].metrics)'
  <2>1. PICK s \in Attempt : s = attempt'[e]
    BY <1>7
  <2>2. Vouched(e, s.status, s.metrics)
    BY <1>7, <2>1 DEF RemoteInv, RecordsVouched
  <2>3. Vouched(e, s.status, s.metrics)'
    BY <1>4, <2>2, VouchedStands DEF Attempt
  <2>4. QED BY <2>1, <2>3
<1>9. RecordsVouched'
  BY <1>2, <1>8 DEF RecordsVouched, RemoteInv, ghosts
<1>10. \A e \in Remote : attempt[e] # NoAttempt => attempt'[e] # NoAttempt
  BY <1>7
<1>11. \A e \in Remote : attempt'[e] # NoAttempt /\ attempt[e] = NoAttempt
                           => e \in bound /\ phase[e] # "none"
  BY <1>6, <1>7
<1>12. /\ node' \in [Remote -> {"none", "running", "succeeded", "cancelled", "failed"}]
       /\ outputs' \subseteq Remote
  BY <1>2 DEF RemoteInv, RemoteTypeOK
<1>13. QED
  BY <1>1, <1>2, <1>3, <1>5, <1>7, <1>9, <1>10, <1>11, <1>12, CallKeeps

LEMMA StoreAttemptKeeps ==
  ASSUME RemoteInv, NEW a \in Actor, StoreAttempt(a)
  PROVE  RemoteInv'
<1>1. PICK p \in Call : p = request[a]
  BY DEF RemoteInv, RemoteTypeOK
<1>2. /\ CarriedVouched(p) /\ InPlace(p) /\ p.at = "store"
      /\ p.seen \in AttemptStatus /\ p.metrics \in BOOLEAN
  BY <1>1 DEF RemoteInv, Call, StoreAttempt, Doing
<1>3. PICK r : r = Finalized(p)
  OBVIOUS
<1>4. /\ r \in Attempt /\ r.status = p.seen /\ r.metrics = p.metrics
      /\ r # NoAttempt
  <2>1. r = [status |-> p.seen, metrics |-> p.metrics,
             error |-> p.copy.error \/ p.seen # "completed"]
    BY <1>3 DEF Finalized
  <2>2. p.seen # "absent"
    BY <1>2 DEF InPlace
  <2>3. (p.copy.error \/ p.seen # "completed") \in BOOLEAN
    OBVIOUS
  <2>4. QED BY <1>2, <2>1, <2>2, <2>3 DEF Attempt, NoAttempt
<1>5. Upsert(p.of, r)
  BY <1>1, <1>3 DEF StoreAttempt, Of
<1>6. PICK q : q = [p EXCEPT !.at = "node"]
  OBVIOUS
<1>7. /\ q \in Call /\ q.at = "node" /\ q.of = p.of /\ q.copy = p.copy
      /\ q.listed = p.listed /\ q.seen = p.seen /\ q.metrics = p.metrics
  BY <1>6 DEF Call, CallLabel
<1>8. request' = [request EXCEPT ![a] = q]
  BY <1>1, <1>6 DEF StoreAttempt, Move
<1>9. Vouched(p.of, r.status, r.metrics)
  BY <1>2, <1>4 DEF CarriedVouched
<1>10. CarriedVouched(q)
  BY <1>2, <1>7 DEF CarriedVouched
<1>11. InPlace(q)
  BY <1>2, <1>7 DEF InPlace
<1>12. UNCHANGED <<worker, node, files, ghosts, bounds>>
  BY DEF StoreAttempt
<1>13. QED
  BY <1>1, <1>2, <1>4, <1>5, <1>7, <1>8, <1>9, <1>10, <1>11, <1>12, WriteKeeps

LEMMA SyncAttemptKeeps ==
  ASSUME RemoteInv, NEW a \in Actor, SyncAttempt(a)
  PROVE  RemoteInv'
<1>1. PICK p \in Call : p = request[a]
  BY DEF RemoteInv, RemoteTypeOK
<1>2. /\ CarriedVouched(p) /\ InPlace(p) /\ p.at = "sync" /\ p.of \in Remote
      /\ p.seen \in AttemptStatus /\ p.copy \in Attempt /\ p.listed \in Attempt
  BY <1>1 DEF RemoteInv, Call, SyncAttempt, Doing
<1>3. PICK r : r = [p.copy EXCEPT !.status = p.seen]
  OBVIOUS
<1>4. p.seen \notin {"absent", "interrupted"} /\ phase[p.of] # "none" /\ p.of \in bound
  BY <1>2 DEF InPlace
<1>5. /\ r \in Attempt /\ r.status = p.seen /\ r.metrics = p.copy.metrics
      /\ r # NoAttempt
  BY <1>2, <1>3, <1>4 DEF Attempt, NoAttempt
<1>6. Upsert(p.of, r)
  BY <1>1, <1>3 DEF SyncAttempt, Of
<1>7. Vouched(p.of, r.status, r.metrics)
  BY <1>2, <1>5 DEF CarriedVouched, Vouched
<1>8. UNCHANGED <<worker, node, files, ghosts, bounds>>
  BY DEF SyncAttempt
<1>9. CASE Unfinalized(p)
  <2>1. PICK q : q = [Start(p.of, "read") EXCEPT !.listed = p.listed]
    OBVIOUS
  <2>2. "read" \in CallLabel
    BY DEF CallLabel
  <2>3. /\ q \in Call /\ q.at = "read" /\ q.of = p.of /\ q.copy = NoAttempt
        /\ q.listed = p.listed /\ q.seen = "absent" /\ ~q.metrics
    BY <1>2, <2>1, <2>2, CallRecords DEF Call
  <2>4. request' = [request EXCEPT ![a] = q]
    BY <1>1, <1>9, <2>1 DEF SyncAttempt, Of
  <2>5. CarriedVouched(q)
    BY <1>2, <2>3, BlankIsVouched, CallRecords DEF CarriedVouched, Vouched
  <2>6. InPlace(q)
    BY <1>4, <2>3 DEF InPlace
  <2>7. QED BY <1>1, <1>2, <1>5, <1>6, <1>7, <1>8, <2>3, <2>4, <2>5, <2>6,
           WriteKeeps
<1>10. CASE ~Unfinalized(p)
  <2>1. request' = [request EXCEPT ![a] = Idle]
    BY <1>1, <1>10 DEF SyncAttempt, Reply
  <2>2. QED
    BY <1>1, <1>2, <1>5, <1>6, <1>7, <1>8, <2>1, CallRecords, IdleFits,
       WriteKeeps
<1>11. QED BY <1>9, <1>10

LEMMA MarkInterruptedKeeps ==
  ASSUME RemoteInv, NEW a \in Actor, MarkInterrupted(a)
  PROVE  RemoteInv'
<1>1. PICK p \in Call : p = request[a]
  BY DEF RemoteInv, RemoteTypeOK
<1>2. CarriedVouched(p) /\ InPlace(p) /\ p.at = "interrupt" /\ p.listed \in Attempt
  BY <1>1 DEF RemoteInv, Call, MarkInterrupted, Doing
<1>3. PICK r : r = [p.listed EXCEPT !.status = "interrupted", !.error = TRUE]
  OBVIOUS
<1>4. /\ r \in Attempt /\ r.status = "interrupted" /\ r.metrics = p.listed.metrics
      /\ r # NoAttempt
  BY <1>2, <1>3 DEF Attempt, NoAttempt, AttemptStatus
<1>5. Upsert(p.of, r)
  BY <1>1, <1>3 DEF MarkInterrupted, Of
<1>6. Vouched(p.of, r.status, r.metrics)
  BY <1>2, <1>4 DEF CarriedVouched, Vouched
<1>7. UNCHANGED <<worker, node, files, ghosts, bounds>>
  BY DEF MarkInterrupted
<1>8. request' = [request EXCEPT ![a] = Idle]
  BY DEF MarkInterrupted, Reply
<1>9. QED
  BY <1>1, <1>2, <1>4, <1>5, <1>6, <1>7, <1>8, CallRecords, IdleFits,
     WriteKeeps

LEMMA UpdateNodeKeeps ==
  ASSUME RemoteInv, NEW a \in Actor, UpdateNode(a)
  PROVE  RemoteInv'
<1>1. PICK p \in Call : p = request[a]
  BY DEF RemoteInv, RemoteTypeOK
<1>2. CarriedVouched(p) /\ p.at = "node" /\ p.of \in Remote
  BY <1>1 DEF RemoteInv, Call, UpdateNode, Doing
<1>3. PICK n : n = NodeStatus(p.seen)
  OBVIOUS
<1>4. /\ n \in {"succeeded", "cancelled", "failed"}
      /\ n = "succeeded" => p.seen = "completed"
      /\ n = "cancelled" => p.seen = "cancelled"
  <2>1. CASE p.seen = "completed"
    BY <1>3, <2>1 DEF NodeStatus
  <2>2. CASE p.seen = "cancelled"
    BY <1>3, <2>2 DEF NodeStatus
  <2>3. CASE p.seen \notin {"completed", "cancelled"}
    BY <1>3, <2>3 DEF NodeStatus
  <2>4. QED BY <2>1, <2>2, <2>3
<1>5. node' = [node EXCEPT ![p.of] = n]
  BY <1>1, <1>3 DEF UpdateNode, Of
<1>6. /\ Worker!TypeOK' /\ UNCHANGED <<job, phase>>
      /\ UNCHANGED <<attempt, bound, outputs, ghosts, cancels, faults, restartCounts>>
  BY WorkerAlone DEF RemoteInv, RemoteTypeOK, UpdateNode, files, bounds
<1>7. /\ cancels' \in 0..MaxCancels
      /\ faults' \in 0..MaxFaults /\ faults' \in Nat /\ faults' >= faults
  BY <1>6, RemoteBounds DEF RemoteInv, RemoteTypeOK
<1>8. WordStands
  BY <1>6, <1>7, WordStandsIf DEF ghosts, restartCounts, RemoteInv
<1>9. /\ n = "succeeded" => "completed" \in shown[p.of]
      /\ n = "cancelled" => "cancelled" \in shown[p.of]
  BY <1>2, <1>4 DEF CarriedVouched, Vouched
<1>10. /\ node' \in [Remote -> {"none", "running", "succeeded", "cancelled", "failed"}]
       /\ \A e \in Remote : /\ node'[e] = "succeeded" => "completed" \in shown[e]
                            /\ node'[e] = "cancelled" => "cancelled" \in shown[e]
  BY <1>2, <1>4, <1>5, <1>9 DEF RemoteInv, RemoteTypeOK, RecordsVouched
<1>11. \A e \in Remote : Vouched(e, attempt[e].status, attempt[e].metrics)'
  BY <1>6 DEF RemoteInv, RecordsVouched, Vouched, ghosts, restartCounts
<1>12. RecordsVouched'
  BY <1>6, <1>10, <1>11 DEF RecordsVouched, RemoteInv, ghosts
<1>13. request' = [request EXCEPT ![a] = Idle] /\ outputs' \subseteq Remote
       /\ attempt' \in [Remote -> Attempt]
  BY <1>6 DEF UpdateNode, Reply, RemoteInv, RemoteTypeOK
<1>14. CarriedVouched(Idle)' /\ InPlace(Idle)'
  BY <1>8, CallRecords, IdleFits, CallStands
<1>15. QED
  BY <1>1, <1>2, <1>6, <1>7, <1>10, <1>12, <1>13, <1>14, CallRecords, CallKeeps

LEMMA DownloadKeeps ==
  ASSUME RemoteInv, NEW a \in Actor, Download(a)
  PROVE  RemoteInv'
<1>1. PICK p \in Call : p = request[a]
  BY DEF RemoteInv, RemoteTypeOK
<1>2. /\ CarriedVouched(p) /\ InPlace(p) /\ p.at = "download" /\ p.of \in Remote
      /\ p.metrics \in BOOLEAN
  BY <1>1 DEF RemoteInv, Call, Download, Doing
<1>3. "completed" \in shown[p.of]
  BY <1>2 DEF CarriedVouched
<1>4. PICK s \in {"failed", p.seen}, m \in BOOLEAN :
        /\ request' = [request EXCEPT ![a] = [p EXCEPT !.seen = s, !.metrics = m,
                                                       !.at = "store"]]
        /\ faults' = faults \/ Fault
  <2>1. CASE /\ request' = [request EXCEPT ![a].metrics = TRUE, ![a].at = "store"]
             /\ NoFault
    <3>1. [p EXCEPT !.metrics = TRUE, !.at = "store"]
            = [p EXCEPT !.seen = p.seen, !.metrics = TRUE, !.at = "store"]
      BY DEF Call
    <3>2. request' = [request EXCEPT ![a] = [p EXCEPT !.metrics = TRUE, !.at = "store"]]
      BY <1>1, <2>1
    <3>3. QED BY <2>1, <3>1, <3>2 DEF NoFault
  <2>2. CASE /\ request' = [request EXCEPT ![a].seen = "failed", ![a].at = "store"]
             /\ Fault \/ (Overlapped(a) /\ NoFault)
    <3>1. [p EXCEPT !.seen = "failed", !.at = "store"]
            = [p EXCEPT !.seen = "failed", !.metrics = p.metrics, !.at = "store"]
      BY DEF Call
    <3>2. request' = [request EXCEPT ![a] = [p EXCEPT !.seen = "failed", !.at = "store"]]
      BY <1>1, <2>2
    <3>3. QED BY <1>2, <2>2, <3>1, <3>2 DEF NoFault
  <2>3. QED BY <2>1, <2>2 DEF Download
<1>5. outputs' \in {outputs, outputs \cup {p.of}}
  BY <1>1 DEF Download, Of
<1>6. PICK q : q = [p EXCEPT !.seen = s, !.metrics = m, !.at = "store"]
  OBVIOUS
<1>7. /\ q \in Call /\ q.at = "store" /\ q.of = p.of /\ q.copy = p.copy
      /\ q.listed = p.listed /\ q.seen = s /\ q.metrics = m
  BY <1>4, <1>6 DEF Call, CallLabel, AttemptStatus, Ends
<1>8. request' = [request EXCEPT ![a] = q]
  BY <1>4, <1>6
<1>9. Vouched(p.of, s, m)
  BY <1>2, <1>3, <1>4 DEF CarriedVouched, Vouched
<1>10. CarriedVouched(q)
  BY <1>2, <1>7, <1>9 DEF CarriedVouched
<1>11. InPlace(q)
  BY <1>2, <1>4, <1>7 DEF InPlace
<1>12. /\ Worker!TypeOK' /\ UNCHANGED <<job, phase>>
       /\ UNCHANGED <<attempt, node, bound, ghosts, cancels, restartCounts>>
  BY WorkerAlone DEF RemoteInv, RemoteTypeOK, Download, records
<1>13. /\ cancels' \in 0..MaxCancels
       /\ faults' \in 0..MaxFaults /\ faults' \in Nat /\ faults' >= faults
  BY <1>4, <1>12, RemoteBounds DEF Fault, RemoteInv, RemoteTypeOK
<1>14. WordStands
  BY <1>12, <1>13, WordStandsIf DEF ghosts, restartCounts, RemoteInv
<1>15. \A e \in Remote : Vouched(e, attempt[e].status, attempt[e].metrics)'
  BY <1>12, <1>14, RowsStand
<1>16. RecordsVouched' /\ outputs' \subseteq Remote
  BY <1>2, <1>3, <1>5, <1>12, <1>15
     DEF RecordsVouched, RemoteInv, RemoteTypeOK, ghosts
<1>17. CarriedVouched(q)' /\ InPlace(q)'
  BY <1>7, <1>10, <1>11, <1>14, CallStands
<1>18. /\ attempt' \in [Remote -> Attempt]
       /\ node' \in [Remote -> {"none", "running", "succeeded", "cancelled", "failed"}]
  BY <1>12 DEF RemoteInv, RemoteTypeOK
<1>19. QED
  BY <1>1, <1>2, <1>7, <1>8, <1>12, <1>13, <1>16, <1>17, <1>18, CallKeeps

(* A request on an execution that has a row: cancel, refresh, recovery. *)
LEMMA CancelExecutionKeeps ==
  ASSUME RemoteInv, NEW c \in Caller, NEW e \in Remote, CancelExecution(c, e)
  PROVE  RemoteInv'
<1>1. e \in bound /\ phase[e] # "none"
  BY HasRow DEF CancelExecution
<1>2. PICK p : p = Start(e, "ask")
  OBVIOUS
<1>3. p \in Call /\ CarriedVouched(p) /\ InPlace(p) /\ p.at = "ask"
  BY <1>1, <1>2, StartFits, CallRecords DEF CallLabel
<1>4. request' = [request EXCEPT ![c] = Asking(p, "read")]
  BY <1>2 DEF CancelExecution
<1>5. c \in Actor /\ request[c].at = "idle"
  BY DEF Actor, CancelExecution, Doing
<1>6. BeginCancel /\ UNCHANGED <<worker, records, files, ghosts, faults, restartCounts>>
  BY DEF CancelExecution
<1>7. QED BY <1>3, <1>4, <1>5, <1>6, AskingKeeps

LEMMA BeginKeeps ==
  ASSUME RemoteInv, NEW c \in Caller, NEW e \in Remote,
         RefreshExecution(c, e) \/ Recover(c, e)
  PROVE  RemoteInv'
<1>1. attempt[e] # NoAttempt
  BY DEF RefreshExecution, Recover, NoAttempt
<1>2. e \in bound /\ phase[e] # "none"
  BY <1>1, HasRow
<1>3. PICK r \in Attempt : r = attempt[e]
  BY DEF RemoteInv, RemoteTypeOK
<1>4. PICK l \in {"poll", "reread"}, p \in Attempt, n \in Attempt :
        /\ request' = [request EXCEPT ![c] = [Start(e, l) EXCEPT !.copy = p, !.listed = n]]
        /\ p \in {NoAttempt, r} /\ n \in {NoAttempt, r}
  <2>1. CASE RefreshExecution(c, e)
    <3>1. [Start(e, "poll") EXCEPT !.copy = r]
            = [Start(e, "poll") EXCEPT !.copy = r, !.listed = NoAttempt]
      BY ZenonT(30), CallRecords DEF Start, Idle
    <3>2. request' = [request EXCEPT ![c] = [Start(e, "poll") EXCEPT !.copy = r]]
      BY <1>3, <2>1 DEF RefreshExecution
    <3>3. QED BY <3>1, <3>2, CallRecords
  <2>2. CASE Recover(c, e)
    <3>1. [Start(e, "reread") EXCEPT !.listed = r]
            = [Start(e, "reread") EXCEPT !.copy = NoAttempt, !.listed = r]
      BY ZenonT(30), CallRecords DEF Start, Idle
    <3>2. request' = [request EXCEPT ![c] = [Start(e, "reread") EXCEPT !.listed = r]]
      BY <1>3, <2>2 DEF Recover
    <3>3. QED BY <3>1, <3>2, CallRecords
  <2>3. QED BY <2>1, <2>2
<1>5. PICK z \in Call : z = Start(e, l)
  BY CallRecords DEF CallLabel
<1>6. PICK q : q = [z EXCEPT !.copy = p, !.listed = n]
  OBVIOUS
<1>7. /\ q \in Call /\ q.at = l /\ q.of = e /\ q.copy = p /\ q.listed = n
      /\ q.seen = "absent" /\ ~q.metrics
  <2>1. z.at = l /\ z.of = e /\ z.seen = "absent" /\ ~z.metrics
    BY <1>5, CallRecords DEF CallLabel
  <2>2. QED BY <1>6, <2>1 DEF Call
<1>8. Vouched(e, r.status, r.metrics)
  BY <1>3 DEF RemoteInv, RecordsVouched
<1>9. Vouched(e, p.status, p.metrics) /\ Vouched(e, n.status, n.metrics)
  BY <1>4, <1>8, BlankIsVouched
<1>10. CarriedVouched(q)
  BY <1>4, <1>7, <1>9, BlankIsVouched DEF CarriedVouched, Vouched
<1>11. InPlace(q)
  BY <1>2, <1>4, <1>7 DEF InPlace
<1>12. c \in Actor /\ request[c].at = "idle" /\ request' = [request EXCEPT ![c] = q]
  BY <1>4, <1>5, <1>6 DEF Actor, RefreshExecution, Recover, Doing
<1>13. /\ Worker!TypeOK' /\ UNCHANGED <<job, phase, records, files, ghosts, restartCounts>>
       /\ cancels' \in 0..MaxCancels /\ faults' = faults
  BY WorkerAlone DEF RemoteInv, RemoteTypeOK, RefreshExecution, Recover, bounds
<1>14. QED BY <1>4, <1>7, <1>10, <1>11, <1>12, <1>13, LookKeeps

(* Only calls at their submit are Submitting; one of them has moved on.    *)
LEMMA SubmittingMoves ==
  ASSUME RemoteTypeOK, NEW a \in Actor, NEW q \in Call,
         request' = [request EXCEPT ![a] = q]
  PROVE  /\ Submitting \ {request[a].of} \subseteq Submitting'
         /\ q.at \in {"post", "bind", "insert"} => q.of \in Submitting'
         /\ q.of = request[a].of /\ q.at \in {"post", "bind", "insert"}
              => Submitting \subseteq Submitting'
<1>1. request'[a] = q /\ \A b \in Actor : b # a => request'[b] = request[b]
  BY DEF RemoteTypeOK
<1>2. \A e \in Submitting : \E b \in Actor :
        request[b].at \in {"post", "bind", "insert"} /\ e = request[b].of
  BY DEF Submitting, Of
<1>3. \A b \in Actor : request'[b].at \in {"post", "bind", "insert"}
                         => request'[b].of \in Submitting'
  BY DEF Submitting, Of
<1>4. q.at \in {"post", "bind", "insert"} => q.of \in Submitting'
  BY <1>1, <1>3
<1>5. ASSUME NEW e \in Submitting, e # request[a].of
      PROVE  e \in Submitting'
  BY <1>1, <1>2, <1>3, <1>5
<1>6. QED BY <1>4, <1>5

LEMMA RunContractKeeps ==
  ASSUME RemoteInv, NEW c \in Caller, NEW e \in Remote, RunContract(c, e)
  PROVE  RemoteInv'
<1>1. /\ c \in Actor /\ c \notin Remote /\ request[c].at = "idle"
      /\ node' = [node EXCEPT ![e] = "running"]
      /\ UNCHANGED <<worker, attempt, files, ghosts, bounds>>
  BY RemoteActors DEF Actor, RunContract, Doing
<1>2. PICK q : q = Start(e, "post")
  OBVIOUS
<1>3. q \in Call /\ q.at = "post" /\ CarriedVouched(q) /\ InPlace(q)
  BY <1>2, StartFits, CallRecords DEF CallLabel
<1>4. request' = [request EXCEPT ![c] = q]
  BY <1>2 DEF RunContract
<1>5. /\ Worker!TypeOK' /\ UNCHANGED <<job, phase, bound, outputs, shown, lost>>
      /\ UNCHANGED <<cancels, faults, clientRestarts, workerRestarts>>
  BY <1>1, WorkerAlone DEF RemoteInv, RemoteTypeOK, files, ghosts, bounds,
     restartCounts
<1>6. WordStands
  BY <1>5 DEF WordStands
<1>7. /\ request' \in [Actor -> Call]
      /\ \A b \in Actor : CarriedVouched(request[b])' /\ InPlace(request[b])'
      /\ WatchersWatch'
  <2>1. CarriedVouched(q)' /\ InPlace(q)'
    BY <1>3, <1>6, CallStands
  <2>2. QED BY <1>1, <1>3, <1>4, <1>6, <2>1, CallsKeep
<1>8. RemoteTypeOK'
  BY <1>1, <1>5, <1>7 DEF RemoteInv, RemoteTypeOK
<1>9. EndsAreShown'
  BY <1>5 DEF RemoteInv, EndsAreShown, Seen
<1>10. RecordsVouched'
  <2>1. \A i \in Remote : node'[i] \in {node[i], "running"}
    BY <1>1 DEF RemoteInv, RemoteTypeOK
  <2>2. QED BY <1>1, <1>5, <1>6, <2>1, RowsStand DEF RecordsVouched, RemoteInv
<1>11. JobsAccountedFor'
  <2>1. Submitting \subseteq Submitting'
    <3>1. \A b \in Actor : b # c => request'[b] = request[b]
      BY <1>4 DEF RemoteInv, RemoteTypeOK
    <3>2. QED BY <1>1, <3>1 DEF Submitting, Of
  <2>2. QED BY <1>1, <1>5, <2>1 DEF RemoteInv, JobsAccountedFor
<1>12. QED BY <1>7, <1>8, <1>9, <1>10, <1>11 DEF RemoteInv

LEMMA PostJobKeeps ==
  ASSUME RemoteInv, NEW a \in Actor, PostJob(a)
  PROVE  RemoteInv'
<1>1. PICK p \in Call : p = request[a]
  BY DEF RemoteInv, RemoteTypeOK
<1>2. /\ CarriedVouched(p) /\ InPlace(p) /\ p.at = "post" /\ p.of \in Remote
      /\ a \notin Remote
  BY <1>1 DEF RemoteInv, Call, PostJob, Doing, WatchersWatch
<1>3. /\ UNCHANGED <<attempt, node, bound, outputs, shown, cancels>>
      /\ UNCHANGED <<clientRestarts, workerRestarts>>
  BY DEF PostJob, records, files, restartCounts
<1>4. /\ faults' \in 0..MaxFaults /\ faults' \in Nat /\ faults' >= faults
      /\ lost' \in {lost, lost \cup {p.of}}
  BY <1>1, RemoteBounds DEF PostJob, NoFault, Fault, RemoteInv, RemoteTypeOK,
     Of
<1>5. \/ Worker!Accept(p.of)
      \/ UNCHANGED worker
  BY <1>1 DEF PostJob, Of
<1>6. /\ Worker!TypeOK'
      /\ \A e \in Remote : phase[e] # "none" => phase'[e] # "none"
      /\ \A e \in Remote : e # p.of => phase'[e] = phase[e]
      /\ \A e \in Remote : job'[e] \in {job[e], "open"}
  <2>1. CASE Worker!Accept(p.of)
    BY <1>2, <2>1 DEF RemoteInv, RemoteTypeOK, Worker!TypeOK, Worker!Accept,
                      Worker!Enter, Worker!Say, Worker!Phase
  <2>2. CASE UNCHANGED worker
    BY <2>2, WorkerAlone DEF RemoteInv, RemoteTypeOK
  <2>3. QED BY <1>5, <2>1, <2>2
<1>7. WordStands
  <2>1. faults \in Nat /\ workerRestarts \in Nat /\ workerRestarts' \in Nat
        /\ workerRestarts' >= workerRestarts
    BY <1>3, RemoteBounds DEF RemoteInv, RemoteTypeOK
  <2>2. faults + workerRestarts > 0 => faults' + workerRestarts' > 0
    BY <1>4, <2>1, MoreIsMore
  <2>3. QED BY <1>3, <1>6, <2>2 DEF WordStands
<1>8. PICK q \in Call :
        /\ request' = [request EXCEPT ![a] = q]
        /\ CarriedVouched(q)' /\ InPlace(q)'
        /\ \/ q.at = "bind" /\ q.of = p.of
           \/ q.at = "idle" /\ p.of \in lost'
  <2>1. CASE Reply(a) /\ lost' = lost \cup {Of(a)}
    <3>1. CarriedVouched(Idle)' /\ InPlace(Idle)'
      BY <1>7, CallRecords, IdleFits, CallStands
    <3>2. p.of \in lost'
      BY <1>1, <2>1 DEF Of
    <3>3. QED BY <2>1, <3>1, <3>2, CallRecords DEF Reply
  <2>2. CASE Worker!Accept(Of(a)) /\ Move(a, "bind")
    <3>1. PICK q : q = [p EXCEPT !.at = "bind"]
      OBVIOUS
    <3>2. /\ q \in Call /\ q.at = "bind" /\ q.of = p.of /\ q.copy = p.copy
          /\ q.listed = p.listed /\ q.seen = p.seen /\ q.metrics = p.metrics
      BY <3>1 DEF Call, CallLabel
    <3>3. CarriedVouched(q)'
      <4>1. CarriedVouched(p)'
        BY <1>2, <1>7, CallStands
      <4>2. QED BY <3>2, <4>1 DEF CarriedVouched
    <3>4. phase'[p.of] = "accepted"
      BY <1>1, <1>2, <2>2
         DEF RemoteInv, RemoteTypeOK, Worker!TypeOK, Worker!Accept,
             Worker!Enter, Of
    <3>5. InPlace(q)'
      BY <3>2, <3>4 DEF InPlace
    <3>6. request' = [request EXCEPT ![a] = q]
      BY <1>1, <2>2, <3>1 DEF Move
    <3>7. QED BY <3>2, <3>3, <3>5, <3>6
  <2>3. QED BY <2>1, <2>2 DEF PostJob
<1>9. /\ request' \in [Actor -> Call]
      /\ \A b \in Actor : CarriedVouched(request[b])' /\ InPlace(request[b])'
      /\ WatchersWatch'
  BY <1>2, <1>7, <1>8, CallsKeep
<1>10. RemoteTypeOK'
  BY <1>2, <1>3, <1>4, <1>6, <1>9 DEF RemoteInv, RemoteTypeOK
<1>11. EndsAreShown'
  <2>1. Seen("open") \notin Ends
    BY SeenStatus DEF Ends
  <2>2. QED BY <1>3, <1>6, <2>1 DEF RemoteInv, EndsAreShown
<1>12. RecordsVouched'
  BY <1>3, <1>7, RecordsStand
<1>13. JobsAccountedFor'
  <2>1. /\ Submitting \ {p.of} \subseteq Submitting'
        /\ q.at = "bind" => p.of \in Submitting'
    BY <1>1, <1>8, SubmittingMoves DEF RemoteInv
  <2>2. p.of \in lost' \cup Submitting'
    BY <1>8, <2>1
  <2>3. QED BY <1>3, <1>4, <1>6, <2>1, <2>2 DEF RemoteInv, JobsAccountedFor
<1>14. QED BY <1>9, <1>10, <1>11, <1>12, <1>13 DEF RemoteInv

LEMMA SaveBindingKeeps ==
  ASSUME RemoteInv, NEW a \in Actor, SaveBinding(a)
  PROVE  RemoteInv'
<1>1. PICK p \in Call : p = request[a]
  BY DEF RemoteInv, RemoteTypeOK
<1>2. /\ CarriedVouched(p) /\ InPlace(p) /\ p.at = "bind" /\ p.of \in Remote
      /\ a \notin Remote
  BY <1>1 DEF RemoteInv, Call, SaveBinding, Doing, WatchersWatch
<1>3. bound' = bound \cup {p.of}
  BY <1>1 DEF SaveBinding, Of
<1>4. /\ UNCHANGED worker /\ UNCHANGED <<attempt, node, outputs, shown, lost>>
      /\ UNCHANGED <<cancels, faults, clientRestarts, workerRestarts>>
  BY DEF SaveBinding, records, ghosts, bounds, restartCounts
<1>5. Worker!TypeOK' /\ UNCHANGED <<job, phase>>
  BY <1>4, WorkerAlone DEF RemoteInv, RemoteTypeOK
<1>6. WordStands
  BY <1>3, <1>4, <1>5 DEF WordStands
<1>7. PICK q : q = [p EXCEPT !.at = "insert"]
  OBVIOUS
<1>8. /\ q \in Call /\ q.at = "insert" /\ q.of = p.of /\ q.copy = p.copy
      /\ q.listed = p.listed /\ q.seen = p.seen /\ q.metrics = p.metrics
  BY <1>7 DEF Call, CallLabel
<1>9. request' = [request EXCEPT ![a] = q]
  BY <1>1, <1>7 DEF SaveBinding, Move
<1>10. CarriedVouched(q)' /\ InPlace(q)'
  <2>1. CarriedVouched(p)' /\ InPlace(p)'
    BY <1>2, <1>6, CallStands
  <2>2. CarriedVouched(q)'
    BY <1>8, <2>1 DEF CarriedVouched
  <2>3. InPlace(q)'
    BY <1>2, <1>3, <1>8, <2>1 DEF InPlace
  <2>4. QED BY <2>2, <2>3
<1>11. /\ request' \in [Actor -> Call]
       /\ \A b \in Actor : CarriedVouched(request[b])' /\ InPlace(request[b])'
       /\ WatchersWatch'
  BY <1>2, <1>6, <1>8, <1>9, <1>10, CallsKeep
<1>12. RemoteTypeOK'
  BY <1>2, <1>3, <1>4, <1>5, <1>11 DEF RemoteInv, RemoteTypeOK
<1>13. EndsAreShown'
  BY <1>4, <1>5 DEF RemoteInv, EndsAreShown, Seen
<1>14. RecordsVouched'
  BY <1>4, <1>6, RecordsStand
<1>15. JobsAccountedFor'
  <2>1. Submitting \subseteq Submitting'
    BY <1>1, <1>8, <1>9, SubmittingMoves DEF RemoteInv
  <2>2. QED BY <1>3, <1>4, <1>5, <2>1 DEF RemoteInv, JobsAccountedFor
<1>16. QED BY <1>11, <1>12, <1>13, <1>14, <1>15 DEF RemoteInv

(* The row is made; its call goes on waiting, or its watcher begins to. *)
LEMMA InsertAttemptKeeps ==
  ASSUME RemoteInv, NEW a \in Actor, InsertAttempt(a)
  PROVE  RemoteInv'
<1>1. PICK p \in Call : p = request[a]
  BY DEF RemoteInv, RemoteTypeOK
<1>2. /\ CarriedVouched(p) /\ InPlace(p) /\ p.at = "insert" /\ p.of \in Remote
      /\ a \notin Remote /\ p.of \in Actor /\ p.of # a
      /\ p.of \in bound /\ phase[p.of] # "none"
  <2>1. CarriedVouched(p) /\ InPlace(p) /\ p.at = "insert" /\ p.of \in Remote
    BY <1>1 DEF RemoteInv, Call, InsertAttempt, Doing
  <2>2. a \notin Remote
    BY <1>1, <2>1 DEF RemoteInv, WatchersWatch
  <2>3. QED BY <2>1, <2>2 DEF Actor, InPlace
<1>3. /\ UNCHANGED worker /\ UNCHANGED <<node, bound, outputs, shown, lost>>
      /\ UNCHANGED <<cancels, faults, clientRestarts, workerRestarts>>
  BY DEF InsertAttempt, files, ghosts, bounds, restartCounts
<1>4. Worker!TypeOK' /\ UNCHANGED <<job, phase>>
  BY <1>3, WorkerAlone DEF RemoteInv, RemoteTypeOK
<1>5. WordStands
  BY <1>3, <1>4 DEF WordStands
<1>6. PICK r : r = [NoAttempt EXCEPT !.status = "active"]
  OBVIOUS
<1>7. /\ r \in Attempt /\ r # NoAttempt /\ Vouched(p.of, r.status, r.metrics)
      /\ attempt' = [attempt EXCEPT ![p.of] = r]
  <2>1. r \in Attempt /\ r # NoAttempt /\ r.status = "active" /\ r.metrics = FALSE
    BY <1>6 DEF NoAttempt, Attempt, AttemptStatus
  <2>2. QED BY <1>1, <1>6, <2>1, BlankIsVouched DEF InsertAttempt, Upsert, Of
<1>8. PICK w \in Call, q \in Call :
        /\ w.at = "wait" /\ w.of = p.of
        /\ CarriedVouched(w) /\ InPlace(w)
        /\ \/ q = w /\ request' = [request EXCEPT ![a] = w]
           \/ q = Idle /\ request' = [request EXCEPT ![a] = Idle, ![p.of] = w]
  <2>1. CASE Move(a, "wait")
    <3>1. PICK q : q = [p EXCEPT !.at = "wait"]
      OBVIOUS
    <3>2. /\ q \in Call /\ q.at = "wait" /\ q.of = p.of /\ q.copy = p.copy
          /\ q.listed = p.listed /\ q.seen = p.seen /\ q.metrics = p.metrics
      BY <3>1 DEF Call, CallLabel
    <3>3. CarriedVouched(q) /\ InPlace(q)
      BY <1>2, <3>2 DEF CarriedVouched, InPlace
    <3>4. QED BY <1>1, <2>1, <3>1, <3>2, <3>3 DEF Move
  <2>2. CASE request' = [request EXCEPT ![a] = Idle, ![Of(a)] = Start(Of(a), "wait")]
    <3>1. PICK w : w = Start(p.of, "wait")
      OBVIOUS
    <3>2. w \in Call /\ w.at = "wait" /\ w.of = p.of /\ CarriedVouched(w) /\ InPlace(w)
      BY <1>2, <3>1, StartFits, CallRecords DEF CallLabel
    <3>3. QED BY <1>1, <2>2, <3>1, <3>2, CallRecords DEF Of
  <2>3. QED BY <2>1, <2>2 DEF InsertAttempt
<1>9. \A b \in Actor : request'[b] \in {request[b], w, Idle}
  BY <1>8 DEF RemoteInv, RemoteTypeOK
<1>10. request' \in [Actor -> Call]
  BY <1>2, <1>8, CallRecords DEF RemoteInv, RemoteTypeOK
<1>11. ASSUME NEW b \in Actor
       PROVE  CarriedVouched(request[b])' /\ InPlace(request[b])'
  <2>1. PICK z \in Call : z = request'[b]
    BY <1>10
  <2>2. CarriedVouched(z) /\ InPlace(z)
    BY <1>8, <1>9, <2>1, IdleFits DEF RemoteInv
  <2>3. CarriedVouched(z)' /\ InPlace(z)'
    BY <1>5, <2>2, CallStands
  <2>4. QED BY <2>1, <2>3
<1>12. WatchersWatch'
  <2>1. \A b \in Remote : b \in Actor
    BY DEF Actor
  <2>2. QED BY <1>8, <1>9, <2>1, CallRecords DEF RemoteInv, WatchersWatch
<1>13. /\ attempt' \in [Remote -> Attempt] /\ attempt'[p.of] = r
       /\ \A e \in Remote : e # p.of => attempt'[e] = attempt[e]
  BY <1>2, <1>7 DEF RemoteInv, RemoteTypeOK
<1>14. RemoteTypeOK'
  BY <1>3, <1>4, <1>10, <1>13 DEF RemoteInv, RemoteTypeOK
<1>15. EndsAreShown'
  BY <1>3, <1>4 DEF RemoteInv, EndsAreShown, Seen
<1>16. ASSUME NEW e \in Remote
       PROVE  Vouched(e, attempt[e].status, attempt[e].metrics)'
  <2>1. PICK s \in Attempt : s = attempt'[e]
    BY <1>13
  <2>2. Vouched(e, s.status, s.metrics)
    BY <1>7, <1>13, <2>1 DEF RemoteInv, RecordsVouched
  <2>3. Vouched(e, s.status, s.metrics)'
    BY <1>5, <2>2, VouchedStands DEF Attempt
  <2>4. QED BY <2>1, <2>3
<1>17. RecordsVouched'
  BY <1>3, <1>16 DEF RecordsVouched, RemoteInv
<1>18. JobsAccountedFor'
  <2>1. Submitting \ {p.of} \subseteq Submitting'
    <3>1. \A b \in Actor : b # a /\ b # p.of => request'[b] = request[b]
      BY <1>8 DEF RemoteInv, RemoteTypeOK
    <3>2. request[p.of].at \notin {"post", "bind", "insert"}
      BY <1>2 DEF RemoteInv, WatchersWatch
    <3>3. QED BY <1>1, <3>1, <3>2 DEF Submitting, Of
  <2>2. QED BY <1>2, <1>3, <1>4, <1>7, <1>13, <2>1 DEF RemoteInv,
           JobsAccountedFor
<1>19. QED BY <1>11, <1>12, <1>14, <1>15, <1>17, <1>18 DEF RemoteInv

(* The worker's steps: the job moves, the client's state does not.         *)
LEMMA WorkerStepKeeps ==
  ASSUME RemoteInv, Worker!TypeOK', shown' \in [Remote -> SUBSET Ends],
         UNCHANGED <<records, files, request, lost, bounds>>,
         \A e \in Remote : phase'[e] = "none" <=> phase[e] = "none",
         \A e \in Remote : shown[e] \subseteq shown'[e],
         EndsAreShown'
  PROVE  RemoteInv'
<1>1. /\ UNCHANGED <<attempt, node, bound, outputs, request, lost>>
      /\ UNCHANGED <<cancels, faults, clientRestarts, workerRestarts>>
  BY DEF records, files, bounds, restartCounts
<1>2. WordStands
  BY <1>1 DEF WordStands
<1>3. RemoteTypeOK'
  BY <1>1 DEF RemoteInv, RemoteTypeOK
<1>4. RecordsVouched'
  BY <1>1, <1>2, RecordsStand
<1>5. ASSUME NEW b \in Actor
      PROVE  CarriedVouched(request[b])' /\ InPlace(request[b])'
  <2>1. PICK z \in Call : z = request[b] /\ z = request'[b]
    BY <1>1 DEF RemoteInv, RemoteTypeOK
  <2>2. CarriedVouched(z) /\ InPlace(z)
    BY <2>1 DEF RemoteInv
  <2>3. CarriedVouched(z)' /\ InPlace(z)'
    BY <1>2, <2>2, CallStands
  <2>4. QED BY <2>1, <2>3
<1>6. WatchersWatch' /\ Submitting' = Submitting
  BY <1>1 DEF RemoteInv, WatchersWatch, Submitting, Of
<1>7. JobsAccountedFor'
  BY <1>1, <1>6 DEF RemoteInv, JobsAccountedFor
<1>8. QED BY <1>3, <1>4, <1>5, <1>6, <1>7 DEF RemoteInv

LEMMA JobStepKeeps ==
  ASSUME RemoteInv, NEW e \in Remote,
         BeginJob(e) \/ WorkOnJob(e) \/ FinishJob(e)
  PROVE  RemoteInv'
<1> USE DEF RemoteInv, RemoteTypeOK, Worker!TypeOK
<1>1. CASE BeginJob(e)
  <2>1. /\ phase[e] = "accepted" /\ phase' = [phase EXCEPT ![e] = "running"]
        /\ asked' \in {asked, asked \ {e}} /\ UNCHANGED <<job, pending, shown>>
        /\ UNCHANGED <<records, files, request, lost, bounds>>
    BY <1>1 DEF BeginJob, Worker!Begin, Worker!Enter, ghosts
  <2>2. Worker!TypeOK'
    BY <2>1 DEF Worker!Phase
  <2>3. EndsAreShown'
    BY <2>1 DEF EndsAreShown, Seen
  <2>4. QED BY <2>1, <2>2, <2>3, WorkerStepKeeps
<1>2. CASE WorkOnJob(e)
  <2>1. /\ job' = [job EXCEPT ![e] = "open"] /\ UNCHANGED <<phase, asked, pending, shown>>
        /\ UNCHANGED <<records, files, request, lost, bounds>>
    BY <1>2 DEF WorkOnJob, Worker!Work, Worker!Say, ghosts
  <2>2. Worker!TypeOK'
    BY <2>1
  <2>3. EndsAreShown'
    <3>1. Seen("open") \notin Ends
      BY SeenStatus DEF Ends
    <3>2. \A i \in Remote : job'[i] \in {job[i], "open"}
      BY <2>1
    <3>3. QED BY <2>1, <3>1, <3>2 DEF EndsAreShown
  <2>4. QED BY <2>1, <2>2, <2>3, WorkerStepKeeps
<1>3. CASE FinishJob(e)
  <2>1. PICK s \in Ends :
          /\ phase[e] = "running" /\ phase' = [phase EXCEPT ![e] = "over"]
          /\ job' = [job EXCEPT ![e] = s]
          /\ UNCHANGED <<asked, pending>>
    BY <1>3 DEF FinishJob, Worker!Finish, Worker!Enter, Worker!Say,
       Worker!Final, Ends
  <2>2. /\ shown' = [shown EXCEPT ![e] = @ \cup {s}]
        /\ UNCHANGED <<records, files, request, lost, bounds>>
    BY <1>3, <2>1 DEF FinishJob
  <2>3. Worker!TypeOK' /\ shown' \in [Remote -> SUBSET Ends]
    BY <2>1, <2>2 DEF Worker!Phase, Worker!Final, Ends
  <2>4. EndsAreShown'
    <3>1. Seen(s) = s
      BY SeenStatus
    <3>2. \A i \in Remote : IF i = e THEN job'[i] = s /\ s \in shown'[i]
                            ELSE job'[i] = job[i] /\ shown'[i] = shown[i]
      BY <2>1, <2>2
    <3>3. QED BY <3>1, <3>2 DEF EndsAreShown
  <2>5. /\ \A i \in Remote : phase'[i] = "none" <=> phase[i] = "none"
        /\ \A i \in Remote : shown[i] \subseteq shown'[i]
    BY <2>1, <2>2
  <2>6. QED BY <2>2, <2>3, <2>4, <2>5, WorkerStepKeeps
<1>4. QED BY <1>1, <1>2, <1>3

LEMMA MarkJobKeeps ==
  ASSUME RemoteInv, NEW k \in CancelCall, MarkJob(k)
  PROVE  RemoteInv'
<1> USE DEF RemoteInv, RemoteTypeOK, Worker!TypeOK
<1>1. PICK e \in Remote : e = pending[k]
  BY DEF MarkJob, Worker!Mark
<1>2. /\ job' = [job EXCEPT ![e] = "cancelling"] /\ UNCHANGED phase
      /\ pending' = [pending EXCEPT ![k] = NoExecution]
      /\ asked' \in {asked, asked \ {e}}
      /\ shown' = [shown EXCEPT ![e] = @ \cup {"cancelled"}]
      /\ UNCHANGED <<records, files, request, lost, bounds>>
  BY <1>1 DEF MarkJob, Worker!Mark, Worker!Say
<1>3. Worker!TypeOK' /\ shown' \in [Remote -> SUBSET Ends]
  BY <1>2 DEF Ends
<1>4. EndsAreShown'
  <2>1. Seen("cancelling") = "cancelled"
    BY SeenStatus
  <2>2. \A i \in Remote : IF i = e THEN job'[i] = "cancelling" /\ "cancelled" \in shown'[i]
                          ELSE job'[i] = job[i] /\ shown'[i] = shown[i]
    BY <1>2
  <2>3. QED BY <2>1, <2>2 DEF EndsAreShown
<1>5. \A i \in Remote : shown[i] \subseteq shown'[i]
  BY <1>2
<1>6. QED BY <1>2, <1>3, <1>4, <1>5, WorkerStepKeeps

(* The client restarts: what it was submitting is lost, the rest remains.  *)
LEMMA RestartClientKeeps ==
  ASSUME RemoteInv, RestartClient
  PROVE  RemoteInv'
<1>1. /\ \A a \in Actor : request'[a] = Idle
      /\ request' \in [Actor -> Call]
      /\ lost' = lost \cup Submitting
  BY CallRecords DEF RestartClient
<1>2. /\ UNCHANGED worker /\ UNCHANGED <<attempt, node, bound, outputs, shown>>
      /\ UNCHANGED <<cancels, faults, workerRestarts>>
      /\ clientRestarts' \in 0..MaxClientRestarts
  BY RemoteBounds DEF RestartClient, records, files, RemoteInv, RemoteTypeOK
<1>3. Worker!TypeOK' /\ UNCHANGED <<job, phase>>
  BY <1>2, WorkerAlone DEF RemoteInv, RemoteTypeOK
<1>4. WordStands
  BY <1>2, <1>3 DEF WordStands
<1>5. Submitting \subseteq Remote
  BY DEF Submitting, Of, RemoteInv, RemoteTypeOK, Call
<1>6. RemoteTypeOK'
  BY <1>1, <1>2, <1>3, <1>5 DEF RemoteInv, RemoteTypeOK
<1>7. EndsAreShown'
  BY <1>2, <1>3 DEF RemoteInv, EndsAreShown, Seen
<1>8. RecordsVouched'
  BY <1>2, <1>4, RecordsStand
<1>9. ASSUME NEW b \in Actor
      PROVE  CarriedVouched(request[b])' /\ InPlace(request[b])'
  <2>1. CarriedVouched(Idle)' /\ InPlace(Idle)'
    BY <1>4, CallRecords, IdleFits, CallStands
  <2>2. request'[b] = Idle
    BY <1>1
  <2>3. PICK z \in Call : z = Idle
    BY CallRecords
  <2>4. CarriedVouched(z)' /\ InPlace(z)' /\ request'[b] = z
    BY <2>1, <2>2, <2>3
  <2>5. QED BY <2>4
<1>10. WatchersWatch'
  BY <1>1, CallRecords DEF WatchersWatch, Actor
<1>11. JobsAccountedFor'
  BY <1>1, <1>2, <1>3 DEF RemoteInv, JobsAccountedFor
<1>12. QED BY <1>6, <1>7, <1>8, <1>9, <1>10, <1>11 DEF RemoteInv

(* The worker restarts: its jobs are over, the cancels it served break off. *)
LEMMA RestartWorkerKeeps ==
  ASSUME RemoteInv, RestartWorker
  PROVE  RemoteInv'
<1>1. /\ UNCHANGED <<attempt, node, bound, outputs, shown, lost>>
      /\ UNCHANGED <<cancels, faults, clientRestarts>>
      /\ workerRestarts' \in 0..MaxWorkerRestarts /\ workerRestarts' > 0
  BY RemoteBounds DEF RestartWorker, records, files, ghosts, RemoteInv,
     RemoteTypeOK
<1>2. /\ Worker!TypeOK' /\ UNCHANGED job
      /\ \A e \in Remote : phase'[e] = "none" <=> phase[e] = "none"
  <2>1. /\ phase' = [j \in Remote |-> IF phase[j] = "none" THEN "none" ELSE "over"]
        /\ asked' = {} /\ pending' = [c \in CancelCall |-> NoExecution]
        /\ UNCHANGED job
    BY DEF RestartWorker, Worker!Restart
  <2>2. QED BY <2>1 DEF RemoteInv, RemoteTypeOK, Worker!TypeOK, Worker!Phase
<1>3. faults' + workerRestarts' > 0
  <2>1. /\ faults \in Nat /\ workerRestarts \in Nat
        /\ faults' \in Nat /\ workerRestarts' \in Nat
        /\ faults' >= faults /\ workerRestarts' >= workerRestarts
    BY <1>1, RemoteBounds DEF RestartWorker, RemoteInv, RemoteTypeOK
  <2>2. QED BY <1>1, <2>1, MoreIsMore
<1>4. WordStands
  BY <1>1, <1>2, <1>3 DEF WordStands
<1>5. \A a \in Actor :
        \/ request'[a] = request[a]
        \/ request[a].at = "answer" /\ request'[a] = Raised(request[a])
  BY DEF RestartWorker, Doing
<1>6. ASSUME NEW a \in Actor
      PROVE  /\ request'[a] \in Call
             /\ CarriedVouched(request[a])' /\ InPlace(request[a])'
             /\ \/ request'[a] = request[a]
                \/ /\ request[a].at \notin {"post", "bind", "insert"}
                   /\ request'[a].at \notin {"post", "bind", "insert"}
  <2>1. PICK p \in Call : p = request[a]
    BY DEF RemoteInv, RemoteTypeOK
  <2>2. CarriedVouched(p) /\ InPlace(p)
    BY <2>1 DEF RemoteInv
  <2>3. CASE request'[a] = request[a]
    <3>1. CarriedVouched(p)' /\ InPlace(p)' /\ request'[a] = p
      BY <1>4, <2>1, <2>2, <2>3, CallStands
    <3>2. QED BY <2>3, <3>1
  <2>4. CASE request[a].at = "answer" /\ request'[a] = Raised(request[a])
    <3>1. PICK q : q = Raised(p)
      OBVIOUS
    <3>2. /\ q \in Call /\ q.at \in {"idle", "interrupt"}
          /\ CarriedVouched(q)' /\ InPlace(q)' /\ request'[a] = q
      BY <1>3, <1>4, <2>1, <2>2, <2>4, <3>1, RaisedFits
    <3>3. QED BY <2>4, <3>2
  <2>5. QED BY <1>5, <2>3, <2>4
<1>7. request' \in [Actor -> Call]
  <2>1. PICK f : request' = [a \in Actor |-> f[a]]
    <3>1. request' = [a \in Actor |-> request'[a]]
      BY DEF RestartWorker
    <3>2. QED BY <3>1
  <2>2. QED BY <1>6, <2>1
<1>8. WatchersWatch'
  <2>1. Remote \subseteq Actor
    BY DEF Actor
  <2>2. QED BY <1>6, <2>1 DEF RemoteInv, WatchersWatch
<1>9. Submitting' = Submitting
  BY <1>6 DEF Submitting, Of
<1>10. RemoteTypeOK'
  BY <1>1, <1>2, <1>7 DEF RemoteInv, RemoteTypeOK
<1>11. EndsAreShown'
  BY <1>1, <1>2 DEF RemoteInv, EndsAreShown, Seen
<1>12. RecordsVouched'
  BY <1>1, <1>4, RecordsStand
<1>13. JobsAccountedFor'
  BY <1>1, <1>2, <1>9 DEF RemoteInv, JobsAccountedFor
<1>14. QED BY <1>6, <1>8, <1>10, <1>11, <1>12, <1>13 DEF RemoteInv

LEMMA RemoteInvStarts == RemoteInit => RemoteInv
<1> SUFFICES ASSUME RemoteInit PROVE RemoteInv
  OBVIOUS
<1> USE DEF RemoteInit, Worker!Init
<1>1. /\ \A e \in Remote : job[e] = "none" /\ phase[e] = "none"
      /\ \A e \in Remote : attempt[e] = NoAttempt /\ node[e] = "none"
      /\ \A a \in Actor : request[a] = Idle
  OBVIOUS
<1>2. RemoteTypeOK
  BY CallRecords, RemoteBounds DEF RemoteTypeOK, Worker!TypeOK, Worker!Phase
<1>3. EndsAreShown
  BY <1>1, SeenStatus DEF EndsAreShown, Ends
<1>4. RecordsVouched
  BY <1>1, CallRecords, BlankIsVouched DEF RecordsVouched, Vouched
<1>5. \A a \in Actor : CarriedVouched(request[a]) /\ InPlace(request[a])
  BY <1>1, IdleFits
<1>6. WatchersWatch
  BY <1>1, CallRecords DEF WatchersWatch, Actor
<1>7. JobsAccountedFor
  BY <1>1 DEF JobsAccountedFor
<1>8. QED BY <1>2, <1>3, <1>4, <1>5, <1>6, <1>7 DEF RemoteInv

LEMMA RemoteInvKept == RemoteInv /\ [RemoteNext]_remoteVars => RemoteInv'
<1> SUFFICES ASSUME RemoteInv, [RemoteNext]_remoteVars PROVE RemoteInv'
  OBVIOUS
<1>1. ASSUME NEW e \in Remote, BeginJob(e) \/ WorkOnJob(e) \/ FinishJob(e)
      PROVE  RemoteInv'
  BY <1>1, JobStepKeeps
<1>2. ASSUME NEW k \in CancelCall, MarkJob(k) PROVE RemoteInv'
  BY <1>2, MarkJobKeeps
<1>3. ASSUME NEW a \in Actor, CallStep(a) PROVE RemoteInv'
  <2>1. CASE PostJob(a)  BY <2>1, PostJobKeeps
  <2>2. CASE SaveBinding(a)  BY <2>2, SaveBindingKeeps
  <2>3. CASE InsertAttempt(a)  BY <2>3, InsertAttemptKeeps
  <2>4. CASE WaitUntilDone(a, "wait", "read") \/ WaitUntilDone(a, "live", "status")
    BY <2>4, WaitUntilDoneKeeps
  <2>5. CASE AskWorker(a)  BY <2>5, AskWorkerKeeps
  <2>6. CASE CancelAnswered(a)  BY <2>6, CancelAnsweredKeeps
  <2>7. CASE ReadAttempt(a) \/ RecoverRefresh(a)  BY <2>7, ReadAttemptKeeps
  <2>8. CASE CollectStatus(a) \/ PollWorker(a) \/ Explain(a)  BY <2>8,
           LookingKeeps
  <2>9. CASE Download(a)  BY <2>9, DownloadKeeps
  <2>10. CASE StoreAttempt(a)  BY <2>10, StoreAttemptKeeps
  <2>11. CASE UpdateNode(a)  BY <2>11, UpdateNodeKeeps
  <2>12. CASE SyncAttempt(a)  BY <2>12, SyncAttemptKeeps
  <2>13. CASE MarkInterrupted(a)  BY <2>13, MarkInterruptedKeeps
  <2>14. QED
    BY <1>3, <2>1, <2>2, <2>3, <2>4, <2>5, <2>6, <2>7, <2>8, <2>9, <2>10, <2>11,
       <2>12, <2>13 DEF CallStep
<1>4. ASSUME NEW e \in Remote, NEW c \in Caller, CallBegin(c, e)
      PROVE RemoteInv'
  BY <1>4, RunContractKeeps, CancelExecutionKeeps, BeginKeeps DEF CallBegin
<1>5. CASE RestartClient  BY <1>5, RestartClientKeeps
<1>6. CASE RestartWorker  BY <1>6, RestartWorkerKeeps
<1>7. CASE UNCHANGED remoteVars
  <2>1. /\ UNCHANGED <<records, files, request, ghosts, bounds>>
        /\ UNCHANGED <<job, phase, asked, pending, shown, lost>>
    BY <1>7 DEF remoteVars, worker, ghosts
  <2>2. Worker!TypeOK' /\ EndsAreShown' /\ shown' \in [Remote -> SUBSET Ends]
    BY <2>1 DEF RemoteInv, RemoteTypeOK, Worker!TypeOK, EndsAreShown, Seen
  <2>3. QED BY <2>1, <2>2, WorkerStepKeeps
<1>8. QED BY <1>1, <1>2, <1>3, <1>4, <1>5, <1>6, <1>7 DEF RemoteNext

(* Everything the client's rows, nodes and calls say of a job rests on what   *)
(* the worker said, and submits, bindings and rows stay in step, whatever     *)
(* calls fail and whoever restarts.                                          *)
THEOREM RemoteInvHolds == RemoteSpec => []RemoteInv
BY RemoteInvStarts, RemoteInvKept, PTL DEF RemoteSpec

(* For any number of executions, callers, cancels, faults and restarts: rows  *)
(* tell of what the worker said, and every job of the worker has its row, or  *)
(* is being submitted, or lost its submit's answer.                           *)
THEOREM EveryJobAccounted == RemoteSpec => []Accounted
<1>1. RemoteInv => Accounted
  <2> SUFFICES ASSUME RemoteInv PROVE Accounted
    OBVIOUS
  <2>1. RowsAreWorkers
    BY DEF RemoteInv, RecordsVouched, Vouched, RowsAreWorkers
  <2>2. QED BY <2>1 DEF RemoteInv, Accounted
<1>2. QED BY <1>1, RemoteInvHolds, PTL
=============================================================================
