------------------------------ MODULE JobService ------------------------------
(***************************************************************************)
(* What a remote worker promises its clients about a job, whatever its     *)
(* threads, containers and database do: one life from accepted to over, a  *)
(* last word when it is over, and cancel requests that may arrive at any   *)
(* time, also after that word.                                             *)
(***************************************************************************)
CONSTANTS Job,
          Canceller,  \* cancel calls the worker may be serving
          NoJob

VARIABLES job,      \* status a client sees
          phase,    \* of the thread that runs the job
          asked,    \* jobs whose thread has been told to stop
          pending   \* the job a cancel call is about to mark

vars == <<job, phase, asked, pending>>

Final == {"completed", "failed", "cancelled", "timed_out"}
Phase == {"none", "accepted", "running", "over"}

TypeOK ==
  /\ job \in [Job -> {"none", "open", "cancelling"} \cup Final]
  /\ phase \in [Job -> Phase]
  /\ asked \subseteq Job
  /\ pending \in [Canceller -> Job \cup {NoJob}]

Init ==
  /\ job = [j \in Job |-> "none"]
  /\ phase = [j \in Job |-> "none"]
  /\ asked = {}
  /\ pending = [c \in Canceller |-> NoJob]

Enter(j, p) == phase' = [phase EXCEPT ![j] = p]
Say(j, s) == job' = [job EXCEPT ![j] = s]

(* A submit is accepted: the job exists. *)
Accept(j) ==
  /\ phase[j] = "none" /\ Enter(j, "accepted")
  /\ Say(j, "open")
  /\ UNCHANGED <<asked, pending>>

(* Its thread starts, and may forget an earlier cancel. *)
Begin(j) ==
  /\ phase[j] = "accepted" /\ Enter(j, "running")
  /\ asked' \in {asked, asked \ {j}}
  /\ UNCHANGED <<job, pending>>

(* Progress, written over whatever is there. *)
Work(j) ==
  /\ phase[j] = "running"
  /\ Say(j, "open")
  /\ UNCHANGED <<phase, asked, pending>>

(* The thread's last word; only a job that was asked to stop is cancelled. *)
Finish(j) ==
  /\ phase[j] = "running" /\ Enter(j, "over")
  /\ \E s \in Final : Say(j, s) /\ (s = "cancelled" => j \in asked)
  /\ UNCHANGED <<asked, pending>>

(* A cancel call finds a job without a last word, *)
Ask(c, j) ==
  /\ pending[c] = NoJob
  /\ job[j] \notin Final \cup {"none"}
  /\ pending' = [pending EXCEPT ![c] = j]
  /\ asked' = asked \cup {j}
  /\ UNCHANGED <<job, phase>>

(* and marks it, also over a last word that came in between. *)
Mark(c) ==
  /\ pending[c] # NoJob
  /\ Say(pending[c], "cancelling")
  /\ pending' = [pending EXCEPT ![c] = NoJob]
  /\ asked' \in {asked, asked \ {pending[c]}}
  /\ UNCHANGED phase

(* The worker restarts: no job goes on, no call returns. *)
Restart ==
  /\ phase' = [j \in Job |-> IF phase[j] = "none" THEN "none" ELSE "over"]
  /\ asked' = {}
  /\ pending' = [c \in Canceller |-> NoJob]
  /\ UNCHANGED job

Step(j) == Accept(j) \/ Begin(j) \/ Work(j) \/ Finish(j)

Next ==
  \/ \E j \in Job : Step(j) \/ \E c \in Canceller : Ask(c, j)
  \/ \E c \in Canceller : Mark(c)
  \/ Restart

Spec == Init /\ [][Next]_vars
=============================================================================
