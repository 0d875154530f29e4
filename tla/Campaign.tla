------------------------------ MODULE Campaign ------------------------------
(***************************************************************************)
(* services/autonomous_campaign.py: unattended GPU campaigns.              *)
(*                                                                         *)
(* A server process runs one daemon thread per campaign (_worker) and      *)
(* handles start, stop, resume and extend calls on other threads.  They    *)
(* share campaign.json, which each of them loads, changes in memory and    *)
(* dumps whole; the registries _threads and _leases, under a lock; and the *)
(* live-execute lease of the machine.  A restart of the server kills all   *)
(* threads.  Every load, dump and registry access is a step of its own.    *)
(***************************************************************************)
EXTENDS Integers, FiniteSets

CONSTANTS
    Campaign,      \* execute=true campaigns
    Caller,        \* API handler threads
    MaxSteps,      \* max_steps of a worker
    HardCap,       \* MAX_EXTRA_ROUNDS_HARD_CAP
    MaxRestarts,   \* bound: server restarts
    MaxCalls       \* bound: API calls

ASSUME BoundAssumption ==
    /\ {MaxSteps, HardCap} \subseteq Nat \ {0}
    /\ {MaxRestarts, MaxCalls} \subseteq Nat

Launch == 1..MaxCalls   \* threading.Thread objects, in creation order
NoLaunch == 0
NoPid == 0
NoCampaign == "none"

ASSUME CampaignAssumption == NoCampaign \notin Campaign

VARIABLES
    doc,       \* campaign.json of each campaign
    protocol,  \* rounds that extensions added to protocol.json's max_rounds
    thread,    \* _threads
    leased,    \* _leases: campaigns whose lease is registered
    lease,     \* live_execute.lease.json
    boot,      \* pid of the server: 1, 2, ... over its restarts
    worker,    \* what each launched worker is doing
    call,      \* what each API handler is doing
    launches, calls,   \* counts, for the bounds
    asked,     \* history: stops requested since the last resume, and when
    granted,   \* history: rounds granted by extensions
    calm       \* history: no two API calls were ever in flight together

history == <<asked, granted, calm>>
vars == <<doc, protocol, thread, leased, lease, boot, worker, call, launches,
          calls, history>>

Live == {"queued", "running", "waiting_gpu", "pause_requested"}
Final == {"completed", "blocked", "failed", "waiting_human"}
Status == Live \cup Final \cup {"paused", "absent"}

\* last_action, as far as resume tells them apart.
LastAction == {"NEED_GATE", "NEED_EXECUTION", "NEED_HUMAN", "other"}
MidGpu == {"NEED_GATE", "NEED_EXECUTION"}

Doc == [status: Status, stop: BOOLEAN, pid: Nat, action: LastAction,
        harvest: BOOLEAN, extra: 0..HardCap]
Absent == [status |-> "absent", stop |-> FALSE, pid |-> NoPid,
           action |-> "other", harvest |-> FALSE, extra |-> 0]
Fresh(pid) == [Absent EXCEPT !.status = "queued", !.pid = pid, !.extra = 1]

Free == [owner |-> NoCampaign, pid |-> NoPid]

WorkerLabel == {"none", "created", "load", "mark", "top", "pause", "stamp",
                "step", "save", "last", "gc", "crashed", "finally", "release",
                "dead"}
Worker == [at: WorkerLabel, camp: Campaign \cup {NoCampaign}, spec: Doc,
           steps: Nat]
NoWorker == [at |-> "none", camp |-> NoCampaign, spec |-> Absent, steps |-> 0]
DeadWorker == [NoWorker EXCEPT !.at = "dead"]

CallLabel == {"idle", "stop", "resume", "ghost", "alive", "wait", "join",
              "recheck", "reclaim", "acquire", "dump", "register", "spawn",
              "extend", "read", "protocol", "extended"}
Call == [at: CallLabel, camp: Campaign \cup {NoCampaign}, spec: Doc,
         max: Nat, thread: Launch \cup {NoLaunch}]
NoCall == [at |-> "idle", camp |-> NoCampaign, spec |-> Absent, max |-> 0,
           thread |-> NoLaunch]

Init ==
    /\ doc = [c \in Campaign |-> Absent]
    /\ protocol = [c \in Campaign |-> 0]
    /\ thread = [c \in Campaign |-> NoLaunch]
    /\ leased = {}
    /\ lease = Free
    /\ boot = 1
    /\ worker = [i \in Launch |-> NoWorker]
    /\ call = [k \in Caller |-> NoCall]
    /\ launches = 0 /\ calls = 0
    /\ asked = [c \in Campaign |-> "no"]
    /\ granted = [c \in Campaign |-> 0]
    /\ calm = TRUE

-----------------------------------------------------------------------------
Started(i) == worker[i].at \notin {"none", "created", "dead"}

\* _thread_alive: the registered thread was started and has not ended.
Alive(c) == thread[c] # NoLaunch /\ Started(thread[c])

\* campaign_worker_alive: worker_pid is the server's own; older pids are dead.
PidAlive(d) == d.pid = boot

LeaseLive == lease.pid = boot

Dump(c, d) == doc' = [doc EXCEPT ![c] = d]

-----------------------------------------------------------------------------
(* The worker thread *)

WorkerGoes(i, from, to) ==
    /\ worker[i].at = from
    /\ worker' = IF to = "dead" THEN [worker EXCEPT ![i] = DeadWorker]
                 ELSE [worker EXCEPT ![i].at = to]
    /\ UNCHANGED <<protocol, boot, call, launches, calls, history>>

\* The worker goes on with another copy of the document.
WorkerTakes(i, from, to, spec) ==
    /\ worker[i].at = from
    /\ worker' = [worker EXCEPT ![i].at = to, ![i].spec = spec]
    /\ UNCHANGED <<protocol, thread, leased, lease, boot, call, launches, calls,
                   history>>

WorkerDumps(i, from, to) ==
    /\ WorkerGoes(i, from, to)
    /\ Dump(worker[i].camp, worker[i].spec)
    /\ UNCHANGED <<thread, leased, lease>>

Load(i) ==
    /\ WorkerTakes(i, "load", "mark",
                   [doc[worker[i].camp] EXCEPT !.status = "running", !.pid = boot])
    /\ UNCHANGED doc

\* Then the Manager is built, which may raise.
Mark(i) == WorkerDumps(i, "mark", "top") \/ WorkerDumps(i, "mark", "crashed")

\* The document a stop leaves, with the action of the worker's last step.
Paused(w, d) ==
    [d EXCEPT !.status = "paused", !.pid = NoPid,
              !.action = IF w.steps = 0 THEN @ ELSE w.spec.action]

\* A mistake: stop_requested is looked at once, when the worker starts.
TopOnce(i) ==
    LET w == worker[i]
        d == doc[w.camp]
    IN  /\ w.at = "top"
        /\ UNCHANGED doc
        /\ IF w.steps >= MaxSteps
           THEN WorkerTakes(i, "top", "last",
                   [w.spec EXCEPT !.status = "blocked", !.pid = NoPid])
           ELSE IF d.stop /\ w.steps = 0
           THEN WorkerTakes(i, "top", "pause", Paused(w, d))
           ELSE WorkerTakes(i, "top",
                   IF d.action = "NEED_GATE" THEN "stamp" ELSE "step", d)

\* The head of the loop: the document is loaded, a stop pauses.  When the loop
\* is exhausted the last copy is what the worker blocks with.
Top(i) ==
    LET w == worker[i]
        d == doc[w.camp]
    IN  /\ w.at = "top"
        /\ UNCHANGED doc
        /\ IF w.steps >= MaxSteps
           THEN WorkerTakes(i, "top", "last",
                   [w.spec EXCEPT !.status = "blocked", !.pid = NoPid])
           ELSE IF d.stop
           THEN WorkerTakes(i, "top", "pause", Paused(w, d))
           ELSE WorkerTakes(i, "top",
                   IF d.action = "NEED_GATE" THEN "stamp" ELSE "step", d)

Pause(i) == WorkerDumps(i, "pause", "finally")

\* After an approved gate the next step blocks on the GPU: say so first.
Stamp(i) ==
    LET d == [worker[i].spec EXCEPT !.status = "waiting_gpu", !.pid = boot,
                                    !.action = "NEED_EXECUTION"]
    IN  \/ /\ WorkerTakes(i, "stamp", "step", d)
           /\ Dump(worker[i].camp, d)
        \/ /\ WorkerGoes(i, "stamp", "step")      \* the gate did not approve
           /\ UNCHANGED <<doc, thread, leased, lease>>

\* One Manager.step, with the HOW and literature ticks that may follow it: it
\* raises, goes on, or ends the loop.
Step(i) ==
    LET spec == worker[i].spec IN
    /\ UNCHANGED doc
    /\ \/ WorkerTakes(i, "step", "crashed", spec)
       \/ \E a \in LastAction, s \in {"running", "waiting_gpu"} :
             /\ s = "waiting_gpu" => a = "NEED_EXECUTION"
             /\ WorkerTakes(i, "step", "save",
                   [spec EXCEPT !.status = s, !.action = a, !.pid = boot,
                      !.harvest = IF a = "NEED_EXECUTION" THEN FALSE ELSE @])
       \/ \E a \in LastAction, s \in {"completed", "blocked", "waiting_human"} :
             /\ s = "waiting_human" => a = "NEED_HUMAN"
             /\ s = "completed" => a \notin MidGpu
             /\ WorkerTakes(i, "step", "last",
                   [spec EXCEPT !.status = s, !.action = a, !.pid = NoPid])

\* The copy that was loaded before the step is dumped after it.
Save(i) ==
    LET w == worker[i] IN
    /\ w.at = "save"
    /\ worker' = [worker EXCEPT ![i].at = "top", ![i].steps = @ + 1]
    /\ Dump(w.camp, w.spec)
    /\ UNCHANGED <<protocol, thread, leased, lease, boot, call, launches, calls,
                   history>>

\* A completed campaign is dumped again with the report of the weight sweep.
Last(i) ==
    WorkerDumps(i, "last",
                IF worker[i].spec.status = "completed" THEN "gc" ELSE "finally")
Gc(i) == WorkerDumps(i, "gc", "finally")

\* The exception handler loads the document anew.
Crashed(i) ==
    /\ WorkerTakes(i, "crashed", "last",
          [doc[worker[i].camp] EXCEPT !.status = "failed", !.pid = NoPid])
    /\ UNCHANGED doc

\* finally: both registries at once, whatever thread is registered by now.
Finally(i) ==
    LET c == worker[i].camp IN
    /\ WorkerGoes(i, "finally", IF c \in leased THEN "release" ELSE "dead")
    /\ thread' = [thread EXCEPT ![c] = NoLaunch]
    /\ leased' = leased \ {c}
    /\ UNCHANGED <<doc, lease>>

\* A mistake: the worker leaves the lease to the next acquirer.
ReleaseNothing(i) ==
    /\ WorkerGoes(i, "release", "dead")
    /\ UNCHANGED <<doc, thread, leased, lease>>

\* LiveExecuteLease.release: the file goes if it names this campaign.
Release(i) ==
    /\ WorkerGoes(i, "release", "dead")
    /\ lease' = IF lease.owner = worker[i].camp THEN Free ELSE lease
    /\ UNCHANGED <<doc, thread, leased>>

WorkerStep(i) ==
    \/ Load(i) \/ Mark(i) \/ Top(i) \/ Pause(i) \/ Stamp(i) \/ Step(i)
    \/ Save(i) \/ Last(i) \/ Gc(i) \/ Crashed(i) \/ Finally(i) \/ Release(i)
-----------------------------------------------------------------------------
(* API calls *)

CallGoes(k, from, to) ==
    /\ call[k].at = from
    /\ call' = IF to = "idle" THEN [call EXCEPT ![k] = NoCall]
               ELSE [call EXCEPT ![k].at = to]
    /\ UNCHANGED <<boot, launches, calls>>

CallTakes(k, from, to, spec) ==
    /\ call[k].at = from
    /\ call' = [call EXCEPT ![k].at = to, ![k].spec = spec]
    /\ UNCHANGED <<protocol, leased, lease, boot, worker, launches, calls>>

\* What only a few calls touch.
Rest == <<protocol, thread, leased, lease, worker, history>>

Begin(k, c, to, spec) ==
    /\ call[k].at = "idle" /\ calls < MaxCalls
    /\ calls' = calls + 1
    /\ call' = [call EXCEPT ![k] = [NoCall EXCEPT !.at = to, !.camp = c,
                                                  !.spec = spec]]
    /\ calm' = (calm /\ \A other \in Caller : call[other].at = "idle")
    /\ UNCHANGED <<doc, protocol, thread, leased, lease, boot, worker, launches,
                   asked, granted>>

\* start: a new campaign, with the document it will get.
Start(k, c) ==
    /\ doc[c].status = "absent"
    /\ \A other \in Caller : call[other].camp # c
    /\ Begin(k, c, "reclaim", Fresh(boot))

\* request_stop: load, then decide and dump.
Stop(k, c) ==
    /\ doc[c].status # "absent"
    /\ Begin(k, c, "stop", doc[c])

\* A stop is "between" steps if the worker will load the document before it
\* dumps its own copy, and "inside" a step if it is the other way round.
Asked(c) ==
    LET at == IF thread[c] = NoLaunch THEN "none" ELSE worker[thread[c]].at
    IN  IF asked[c] = "between" \/ at \in {"created", "load", "top"} THEN "between"
        ELSE IF at \in {"step", "save"} THEN "inside" ELSE asked[c]

\* A mistake: a stop writes paused although the worker may be in a step.
StopDumpPaused(k) ==
    LET c == call[k].camp
        d == call[k].spec
    IN  /\ CallGoes(k, "stop", "idle")
        /\ Dump(c, [d EXCEPT !.stop = TRUE,
                       !.status = IF @ \in Live THEN "paused" ELSE @])
        /\ asked' = [asked EXCEPT ![c] = Asked(c)]
        /\ UNCHANGED <<protocol, thread, leased, lease, worker, granted, calm>>

StopDump(k) ==
    LET c == call[k].camp
        d == call[k].spec
    IN  /\ CallGoes(k, "stop", "idle")
        /\ Dump(c, [d EXCEPT !.stop = TRUE,
                       !.status = IF @ \notin Live THEN @
                                  ELSE IF Alive(c) THEN "pause_requested"
                                  ELSE "paused"])
        /\ asked' = [asked EXCEPT ![c] = Asked(c)]
        /\ UNCHANGED <<protocol, thread, leased, lease, worker, granted, calm>>

-----------------------------------------------------------------------------
(* resume *)

Resume(k, c) ==
    /\ doc[c].status # "absent"
    /\ Begin(k, c, "resume", Absent)

\* A campaign whose thread died in a step is treated as paused; if it was on
\* the GPU its container is to be harvested.
Ghost(d) == d.status = "running" /\ d.action = "NEED_HUMAN"
MidGpuOrphan(d) == d.status \in {"waiting_gpu", "running"} /\ d.action \in MidGpu

\* What a human may resume; of failed campaigns those whose error says so.
Resumable(d) ==
    \/ d.status \in {"paused", "pause_requested", "failed"}
    \/ d.action = "NEED_HUMAN" /\ d.status \in Final

ResumeLoad(k) ==
    LET c == call[k].camp
        d == doc[c]
    IN  /\ call[k].at = "resume"
        /\ UNCHANGED <<doc, thread, history>>
        /\ \/ /\ ~Alive(c) /\ (Ghost(d) \/ MidGpuOrphan(d))
              /\ CallTakes(k, "resume", "ghost",
                    [d EXCEPT !.status = "paused", !.stop = TRUE, !.pid = NoPid,
                              !.harvest = @ \/ MidGpuOrphan(d)])
           \/ Resumable(d) /\ CallTakes(k, "resume", "alive", d)

\* AutonomousCampaignError
ResumeRefused(k) ==
    LET d == doc[call[k].camp] IN
    /\ CallGoes(k, "resume", "idle")
    /\ ~Resumable(d) \/ d.status = "failed"
    /\ UNCHANGED <<doc, Rest>>

GhostDump(k) ==
    /\ CallGoes(k, "ghost", "alive")
    /\ Dump(call[k].camp, call[k].spec)
    /\ UNCHANGED Rest

AliveCheck(k) ==
    /\ CallGoes(k, "alive", IF Alive(call[k].camp) THEN "wait" ELSE "reclaim")
    /\ UNCHANGED <<doc, Rest>>

\* _await_worker_stop: read the registry, ...
AwaitRead(k) ==
    LET t == thread[call[k].camp] IN
    /\ call[k].at = "wait"
    /\ call' = [call EXCEPT ![k].at = IF t = NoLaunch THEN "recheck" ELSE "join",
                            ![k].thread = t]
    /\ UNCHANGED <<doc, boot, launches, calls, Rest>>

\* ... and drop the entry if the thread that was read has ended by now, or if
\* after the deadline no living thread is registered.
AwaitPop(k) ==
    LET c == call[k].camp IN
    /\ CallGoes(k, "join", "recheck")
    /\ thread' = IF Started(call[k].thread) /\ Alive(c) THEN thread
                 ELSE [thread EXCEPT ![c] = NoLaunch]
    /\ UNCHANGED <<doc, protocol, leased, lease, worker, history>>

\* Still alive: pause_in_progress.
Recheck(k) ==
    /\ CallGoes(k, "recheck", IF Alive(call[k].camp) THEN "idle" ELSE "reclaim")
    /\ UNCHANGED <<doc, Rest>>

-----------------------------------------------------------------------------
(* The lease, and the launch *)

\* reclaim_orphaned_campaigns: a live status without a living thread is
\* paused, unless a container may still be training for it.
Reclaimed(c, busy) ==
    LET d == doc[c] IN
    IF /\ d.status \in Live
       /\ ~(busy /\ (d.status = "waiting_gpu" \/ d.action \in MidGpu))
    THEN [d EXCEPT !.status = "paused", !.stop = TRUE, !.pid = NoPid]
    ELSE d

Reclaim(k) ==
    /\ CallGoes(k, "reclaim", "acquire")
    /\ \E busy \in BOOLEAN :
          doc' = [c \in Campaign |-> IF Alive(c) THEN doc[c]
                                     ELSE Reclaimed(c, busy)]
    /\ UNCHANGED Rest

\* GPU or LLM not ready.
NotReady(k) ==
    /\ CallGoes(k, "reclaim", "idle")
    /\ UNCHANGED <<doc, Rest>>

\* acquire_live_execute, in one step (LiveGpuLease has its file operations).
Occupied(c) ==
    \/ LeaseLive
    \/ \E o \in Campaign \ {c} : doc[o].status \in Live /\ PidAlive(doc[o])

\* A mistake: a campaign's own lease does not keep it from acquiring again.
AcquireOwn(k) ==
    LET c == call[k].camp IN
    /\ CallGoes(k, "acquire", "dump")
    /\ ~Occupied(c) \/ lease.owner = c
    /\ lease' = [owner |-> c, pid |-> boot]
    /\ UNCHANGED <<doc, protocol, thread, leased, worker, history>>

Acquire(k) ==
    LET c == call[k].camp IN
    /\ CallGoes(k, "acquire", "dump")
    /\ ~Occupied(c)
    /\ lease' = [owner |-> c, pid |-> boot]
    /\ UNCHANGED <<doc, protocol, thread, leased, worker, history>>

\* LiveGpuBusyError; containers are not looked at to harvest one's own.
Busy(k) ==
    LET d == call[k].spec IN
    /\ CallGoes(k, "acquire", "idle")
    /\ Occupied(call[k].camp) \/ ~(d.harvest /\ d.status = "paused")
    /\ UNCHANGED <<doc, Rest>>

\* campaign.json of a start, or of a resume with the copy loaded at its head.
LaunchDump(k) ==
    LET c == call[k].camp IN
    /\ CallTakes(k, "dump", "register", Absent)
    /\ Dump(c, [call[k].spec EXCEPT !.stop = FALSE, !.status = "queued",
                                    !.harvest = FALSE])
    /\ asked' = [asked EXCEPT ![c] = "no"]
    /\ UNCHANGED <<thread, granted, calm>>

\* An error before the launch gives the lease back.
LaunchFails(k) ==
    /\ CallGoes(k, "dump", "idle")
    /\ lease' = IF lease.owner = call[k].camp THEN Free ELSE lease
    /\ UNCHANGED <<doc, protocol, thread, leased, worker, history>>

\* _launch_worker: registered first, started after.  A call launches at most
\* one worker, so MaxCalls never holds a launch back.
Register(k) ==
    LET c == call[k].camp
        i == launches + 1
    IN  /\ call[k].at = "register" /\ launches < MaxCalls
        /\ launches' = i
        /\ call' = [call EXCEPT ![k].at = "spawn", ![k].thread = i]
        /\ worker' = [worker EXCEPT ![i] = [NoWorker EXCEPT !.at = "created",
                                                            !.camp = c]]
        /\ thread' = [thread EXCEPT ![c] = i]
        /\ leased' = leased \cup {c}
        /\ UNCHANGED <<doc, protocol, lease, boot, calls, history>>

Spawn(k) ==
    /\ CallGoes(k, "spawn", "idle")
    /\ worker' = [worker EXCEPT ![call[k].thread].at = "load"]
    /\ UNCHANGED <<doc, protocol, thread, leased, lease, history>>

-----------------------------------------------------------------------------
(* extend_round_budget, by one round *)

\* A mistake: the campaign is extended under a running worker.
ExtendRunning(k, c) ==
    /\ doc[c].status # "absent"
    /\ Begin(k, c, "extend", Absent)

Extend(k, c) ==
    /\ doc[c].status # "absent"
    /\ ~Alive(c)
    /\ Begin(k, c, "extend", Absent)

Extendable == {"completed", "paused", "failed", "blocked", "pause_requested"}

ExtendLoad(k) ==
    LET d == doc[call[k].camp] IN
    /\ CallTakes(k, "extend", "read", d)
    /\ d.status \in Extendable
    /\ d.extra + 1 <= HardCap
    /\ UNCHANGED <<doc, thread, history>>

\* AutonomousCampaignError, PermissionError
ExtendRefused(k) ==
    /\ CallGoes(k, "extend", "idle")
    /\ LET d == doc[call[k].camp]
       IN  d.status \notin Extendable \/ d.extra + 1 > HardCap
    /\ UNCHANGED <<doc, Rest>>

\* protocol.json: read, then written.  The code raises the larger of max_rounds
\* and gpu_rounds; leaving gpu_rounds out gives the smaller result.
ReadProtocol(k) ==
    /\ call[k].at = "read"
    /\ call' = [call EXCEPT ![k].at = "protocol",
                            ![k].max = protocol[call[k].camp]]
    /\ UNCHANGED <<doc, boot, launches, calls, Rest>>

DumpProtocol(k) ==
    /\ CallGoes(k, "protocol", "extended")
    /\ protocol' = [protocol EXCEPT ![call[k].camp] = call[k].max + 1]
    /\ UNCHANGED <<doc, thread, leased, lease, worker, history>>

\* campaign.json; then the campaign is resumed, or left paused.
ExtendDump(k) ==
    LET c == call[k].camp IN
    /\ \E to \in {"resume", "idle"} : CallGoes(k, "extended", to)
    /\ Dump(c, [call[k].spec EXCEPT !.extra = @ + 1, !.status = "paused",
                                    !.stop = TRUE])
    /\ granted' = [granted EXCEPT ![c] = @ + 1]
    /\ UNCHANGED <<protocol, thread, leased, lease, worker, asked, calm>>

CallStep(k) ==
    \/ StopDump(k) \/ ResumeLoad(k) \/ ResumeRefused(k) \/ GhostDump(k)
    \/ AliveCheck(k) \/ AwaitRead(k) \/ AwaitPop(k) \/ Recheck(k)
    \/ Reclaim(k) \/ NotReady(k) \/ Acquire(k) \/ Busy(k)
    \/ LaunchDump(k) \/ LaunchFails(k) \/ Register(k) \/ Spawn(k)
    \/ ExtendLoad(k) \/ ExtendRefused(k) \/ ReadProtocol(k) \/ DumpProtocol(k) \/ ExtendDump(k)

-----------------------------------------------------------------------------
\* The server dies with all its threads; the next one reclaims what it finds
\* before it serves a call.
Restart ==
    /\ boot <= MaxRestarts
    /\ boot' = boot + 1
    /\ thread' = [c \in Campaign |-> NoLaunch]
    /\ leased' = {}
    /\ worker' = [i \in Launch |-> IF worker[i].at = "none" THEN NoWorker
                                   ELSE DeadWorker]
    /\ call' = [k \in Caller |-> NoCall]
    /\ \E busy \in BOOLEAN : doc' = [c \in Campaign |-> Reclaimed(c, busy)]
    /\ UNCHANGED <<protocol, lease, launches, calls, history>>

Next ==
    \/ \E i \in Launch : WorkerStep(i)
    \/ \E k \in Caller : CallStep(k)
    \/ \E k \in Caller, c \in Campaign :
          Start(k, c) \/ Stop(k, c) \/ Resume(k, c) \/ Extend(k, c)
    \/ Restart

Spec == Init /\ [][Next]_vars

\* Threads are scheduled: a worker and a call in flight go on.
FairSpec ==
    /\ Spec
    /\ \A i \in Launch : WF_vars(WorkerStep(i))
    /\ \A k \in Caller : WF_vars(CallStep(k))

-----------------------------------------------------------------------------
(* Properties *)

Working(i) == worker[i].at \notin {"none", "dead"}

\* A call that holds the lease of a worker it has not created yet.
Launching(k) == call[k].at \in {"dump", "register"}

\* Types of the documents, registries and threads.
TypeOK ==
    /\ doc \in [Campaign -> Doc]
    /\ protocol \in [Campaign -> Nat]
    /\ thread \in [Campaign -> Launch \cup {NoLaunch}]
    /\ leased \subseteq Campaign
    /\ lease \in [owner: Campaign \cup {NoCampaign}, pid: Nat]
    /\ boot \in Nat \ {0}
    /\ worker \in [Launch -> Worker]
    /\ call \in [Caller -> Call]
    /\ launches \in 0..MaxCalls /\ calls \in 0..MaxCalls
    /\ asked \in [Campaign -> {"no", "between", "inside"}]
    /\ granted \in [Campaign -> Nat]
    /\ calm \in BOOLEAN

\* However calls race, and across restarts, at most one worker exists on the
\* machine, it belongs to the campaign the lease names, and the lease is held
\* until the worker's last write of campaign.json, given that an acquire is
\* atomic (LiveGpuLease shows when it is not).  (live_gpu_mutex.py: "Fail
\* closed: second live execute must refuse, not silently run.")
OneGpuWorker ==
    /\ \A i, j \in Launch : Working(i) /\ Working(j) => i = j
    /\ \A i \in Launch : Working(i) =>
          lease = [owner |-> worker[i].camp, pid |-> boot]

\* A lease of this boot has a call or a worker that will give it back.
LeaseHasHolder ==
    LeaseLive =>
       \/ \E k \in Caller : Launching(k)
       \/ \E i \in Launch : worker[i].at = "release"
       \/ \E i \in Launch : Working(i) /\ worker[i].camp \in leased

\* The lease and the worker match: no worker without the lease, no second
\* one, and no lease that nobody will give back.
LeaseMatchesWorker == OneGpuWorker /\ LeaseHasHolder

\* As long as no two API calls overlap, a campaign that reads paused has no
\* worker that is inside a step: the GPU is idle.  (campaign_notebook.py)
PausedMeansIdle ==
    calm => \A i \in Launch :
       worker[i].at \in {"step", "save", "stamp"} =>
          doc[worker[i].camp].status # "paused"

\* A stop that lands between two steps is heeded: no step starts before the
\* next resume, whatever other calls write meanwhile.
StopBetweenStepsHeeded ==
    \A i \in Launch :
       worker[i].at \in {"step", "stamp"} => asked[worker[i].camp] # "between"

\* Rounds granted by a human are not lost to a worker's older copy, and the
\* campaign never counts on more rounds than the protocol allows, not even if
\* the server dies between the two writes.
ExtensionsKept ==
    calm => \A c \in Campaign :
       doc[c].status # "absent" =>
          /\ doc[c].extra = 1 + granted[c]
          /\ granted[c] <= protocol[c]

\* The lease comes back: on every way out of a call or a worker, raised errors
\* included, nobody is locked out for ever.
LeaseComesBack == LeaseLive ~> ~LeaseLive

-----------------------------------------------------------------------------
(* The conjuncts of the inductive invariants *)

\* What makes TypeOK inductive: threads know their campaign, and an extension
\* in flight has a copy that leaves room under the cap.
Known ==
    /\ \A i \in Launch : Working(i) => worker[i].camp \in Campaign
    /\ \A k \in Caller : call[k].at # "idle" => call[k].camp \in Campaign
    /\ \A k \in Caller : call[k].at \in {"read", "protocol", "extended"} =>
          call[k].spec.extra < HardCap

\* What makes OneGpuWorker inductive: whoever launches or works owns the lease
\* of this boot, and there is at most one of them; a worker that was created
\* but not started belongs to the call that is about to start it.
OneHolder ==
    /\ \A k \in Caller : Launching(k) =>
          /\ lease = [owner |-> call[k].camp, pid |-> boot]
          /\ \A i \in Launch : ~Working(i)
          /\ \A l \in Caller : Launching(l) => k = l
    /\ \A i \in Launch : Working(i) =>
          /\ lease = [owner |-> worker[i].camp, pid |-> boot]
          /\ \A j \in Launch : Working(j) => i = j
    /\ \A k \in Caller : call[k].at = "spawn" =>
          /\ call[k].thread \in Launch
          /\ worker[call[k].thread].at = "created"
          /\ \A l \in Caller : call[l].at = "spawn" => k = l
    /\ \A i \in Launch : i > launches => worker[i] = NoWorker

\* What makes StopBetweenStepsHeeded inductive: the stop is in the document,
\* or in the copy the worker is about to dump, whenever the worker can still
\* come back to the head of its loop.
StopRemembered ==
    /\ \A c \in Campaign, i \in Launch :
          asked[c] = "between" /\ worker[i].camp = c =>
             /\ worker[i].at \notin {"stamp", "step", "save"}
             /\ worker[i].at \in {"created", "load", "top"} => doc[c].stop
             /\ worker[i].at = "mark" => worker[i].spec.stop
    /\ \A k \in Caller :
          /\ call[k].at = "register" => asked[call[k].camp] # "between"
          /\ call[k].at = "ghost" => call[k].spec.stop
=============================================================================
