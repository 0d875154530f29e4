----------------------------- MODULE LiveGpuLease -----------------------------
(***************************************************************************)
(* services/live_gpu_mutex.py: the lease file that admits one live         *)
(* (execute=true) campaign per machine.                                    *)
(*                                                                         *)
(* Threads of several OS processes (API server, CLI runs) acquire and      *)
(* release one file, live_execute.lease.json.  Every file operation is a   *)
(* step of its own, a process may die between any two of them, and a file  *)
(* that was unlinked while open keeps receiving the write of its creator   *)
(* (POSIX), which no path then shows.                                      *)
(***************************************************************************)
EXTENDS Naturals, FiniteSets

CONSTANTS Thread,   \* callers of acquire_live_execute
          Process,  \* OS processes, by pid
          Owner,    \* campaign ids
          HostOf,   \* HostOf[t]: the process thread t runs in
          NoFile,   \* no file at the lease path
          NoOwner, NoProcess

ASSUME HostAssumption == HostOf \in [Thread -> Process]
ASSUME NoneAssumption == /\ NoOwner \notin Owner
                         /\ NoProcess \notin Process

VARIABLES alive,  \* processes that run
          file,   \* what the lease path names: NoFile or a LeaseFile
          row,    \* row[o]: worker_pid of o's campaign.json while its status is
                  \* in LIVE_CAMPAIGN_STATUSES, NoPid otherwise
          pc,     \* where each thread is in acquire or release
          own     \* own[t]: owner_id of t's current acquire or lease

leaseVars == <<alive, file, row, pc, own>>

(***************************************************************************)
(* maker is the thread whose os.open created the file (its inode); a file  *)
(* not yet written, or left unwritten by a dead creator, has NoOwner and   *)
(* NoPid and reads as {}.                                                  *)
(***************************************************************************)
LeaseFile == [maker: Thread, owner: Owner \cup {NoOwner},
              pid: Process \cup {NoProcess}]

ASSUME FileAssumption == NoFile \notin LeaseFile

Acquiring == {"lease", "rows", "stale", "unlink", "create", "write"}
Holding == {"held", "live", "retired", "remove"}
Label == {"idle"} \cup Acquiring \cup Holding

LeaseTypeOK ==
  /\ alive \subseteq Process
  /\ file \in LeaseFile \cup {NoFile}
  /\ row \in [Owner -> Process \cup {NoProcess}]
  /\ pc \in [Thread -> Label]
  /\ own \in [Thread -> Owner \cup {NoOwner}]

LeaseInit ==
  /\ alive = Process
  /\ file = NoFile
  /\ row = [o \in Owner |-> NoProcess]
  /\ pc = [t \in Thread |-> "idle"]
  /\ own = [t \in Thread |-> NoOwner]

-----------------------------------------------------------------------------
Running(t) == HostOf[t] \in alive

Goto(t, from, to) ==
  /\ Running(t)
  /\ pc[t] = from
  /\ pc' = [pc EXCEPT ![t] = to]

(* _read_json of the lease: a missing or unwritten file is {}. *)
HasPayload == file # NoFile /\ file.pid # NoProcess

(* LiveGpuBusyError: the caller gives up. *)
Refuse(t, from) ==
  /\ Goto(t, from, "idle")
  /\ own' = [own EXCEPT ![t] = NoOwner]
  /\ UNCHANGED <<alive, file, row>>

-----------------------------------------------------------------------------
(* acquire_live_execute *)

BeginAcquire(t, o) ==
  /\ Goto(t, "idle", "lease")
  /\ own' = [own EXCEPT ![t] = o]
  /\ UNCHANGED <<alive, file, row>>

(* list_live_execute_holders, first half: a live lease of another owner. *)
LeaseHolder(t) ==
  HasPayload /\ file.pid \in alive /\ file.owner # own[t]

CheckLease(t) ==
  \/ /\ ~LeaseHolder(t)
     /\ Goto(t, "lease", "rows")
     /\ UNCHANGED <<alive, file, row, own>>
  \/ LeaseHolder(t) /\ Refuse(t, "lease")

(* Second half: a live campaign row of another owner with a living worker. *)
RowHolder(t) == \E o \in Owner \ {own[t]} : row[o] \in alive

CheckRows(t) ==
  \/ /\ ~RowHolder(t)
     /\ Goto(t, "rows", "stale")
     /\ UNCHANGED <<alive, file, row, own>>
  \/ RowHolder(t) /\ Refuse(t, "rows")

(* inspect_docker: a scientist-exec container may be running on the host. *)
DockerBusy(t) == Refuse(t, "rows")

(* stale = _read_json(dest): a living pid refuses, a dead one is unlinked
   in a later step, and {} leaves the path alone. *)
ReadStale(t) ==
  \/ /\ HasPayload /\ file.pid \in alive
     /\ Refuse(t, "stale")
  \/ /\ HasPayload /\ file.pid \notin alive
     /\ Goto(t, "stale", "unlink")
     /\ UNCHANGED <<alive, file, row, own>>
  \/ /\ ~HasPayload
     /\ Goto(t, "stale", "create")
     /\ UNCHANGED <<alive, file, row, own>>

(* unlink(missing_ok=True) removes whatever the path names by now. *)
UnlinkStale(t) ==
  /\ Goto(t, "unlink", "create")
  /\ file' = NoFile
  /\ UNCHANGED <<alive, row, own>>

(* A mistake to tell apart from the code: an open without O_EXCL. *)
CreateShared(t) ==
  /\ Goto(t, "create", "write")
  /\ file' = [maker |-> t, owner |-> NoOwner, pid |-> NoProcess]
  /\ UNCHANGED <<alive, row, own>>

(* os.open(O_CREAT | O_EXCL) *)
Create(t) ==
  \/ /\ file = NoFile
     /\ Goto(t, "create", "write")
     /\ file' = [maker |-> t, owner |-> NoOwner, pid |-> NoProcess]
     /\ UNCHANGED <<alive, row, own>>
  \/ file # NoFile /\ Refuse(t, "create")

(* os.write through the descriptor: seen at the path only while the path
   still names the file this thread created. *)
Write(t) ==
  /\ Goto(t, "write", "held")
  /\ file' = IF file # NoFile /\ file.maker = t
             THEN [maker |-> t, owner |-> own[t], pid |-> HostOf[t]]
             ELSE file
  /\ UNCHANGED <<alive, row, own>>

-----------------------------------------------------------------------------
(* The campaign that got the lease, and LiveExecuteLease.release *)

(* start and resume write campaign.json with status queued and worker_pid. *)
Publish(t) ==
  /\ Goto(t, "held", "live")
  /\ row' = [row EXCEPT ![own[t]] = HostOf[t]]
  /\ UNCHANGED <<alive, file, own>>

(* The worker writes a final status before it releases the lease. *)
Retire(t) ==
  /\ Goto(t, "live", "retired")
  /\ row' = [row EXCEPT ![own[t]] = NoProcess]
  /\ UNCHANGED <<alive, file, own>>

(* release: an error before the row is written releases as well. *)
ReadOwner(t) ==
  \E from \in {"held", "retired"} :
    IF HasPayload /\ file.owner = own[t]
    THEN Goto(t, from, "remove") /\ UNCHANGED <<alive, file, row, own>>
    ELSE Refuse(t, from)

(* A mistake: a release that forgets the unlink. *)
RemoveNothing(t) ==
  /\ Goto(t, "remove", "idle")
  /\ own' = [own EXCEPT ![t] = NoOwner]
  /\ UNCHANGED <<alive, file, row>>

Remove(t) ==
  /\ Goto(t, "remove", "idle")
  /\ file' = NoFile
  /\ own' = [own EXCEPT ![t] = NoOwner]
  /\ UNCHANGED <<alive, row>>

-----------------------------------------------------------------------------
(* A process dies and every thread in it with it; pids are not reused. *)
Crash(p) ==
  /\ p \in alive
  /\ alive' = alive \ {p}
  /\ UNCHANGED <<file, row, pc, own>>

LeaseStep(t) ==
  \/ \E o \in Owner : BeginAcquire(t, o)
  \/ CheckLease(t) \/ CheckRows(t) \/ DockerBusy(t)
  \/ ReadStale(t) \/ UnlinkStale(t) \/ Create(t) \/ Write(t)
  \/ Publish(t) \/ Retire(t) \/ ReadOwner(t) \/ Remove(t)

LeaseNext == (\E t \in Thread : LeaseStep(t)) \/ (\E p \in Process : Crash(p))

LeaseSpec == LeaseInit /\ [][LeaseNext]_leaseVars

-----------------------------------------------------------------------------
HoldsLease(t) == Running(t) /\ pc[t] \in Holding

(* Fail closed: at most one living thread believes it holds the lease. *)
SecondExecuteRefused ==
  \A t, u \in Thread : HoldsLease(t) /\ HoldsLease(u) => t = u

(* As long as no process has died the lease is a mutex over the whole
   interval from the write of the file to its removal, whatever the
   interleaving of file operations. *)
ExclusiveUntilCrash == alive = Process => SecondExecuteRefused

(* A readable lease of a living process belongs to a thread that still
   holds it: nobody is locked out by a lease its owner already gave up,
   even after crashes and lost races. *)
LiveLeaseHasHolder ==
  HasPayload /\ file.pid \in alive => HoldsLease(file.maker)

-----------------------------------------------------------------------------
(* The inductive invariants behind these two properties. *)

(* A readable lease is still accounted for by its maker, dead or alive. *)
PayloadOwned ==
  HasPayload => /\ pc[file.maker] \in Holding
                /\ file.owner = own[file.maker]
                /\ file.pid = HostOf[file.maker]

(* Before the first crash nobody is about to unlink a stale lease, and the
   path names the file of whoever is writing, holding or removing it. *)
PathFollowsHolder ==
  alive = Process =>
    /\ \A t \in Thread : pc[t] # "unlink"
    /\ \A t \in Thread : pc[t] \in Holding \cup {"write"} =>
         file # NoFile /\ file.maker = t
    /\ \A t \in Thread : pc[t] \in Holding => HasPayload
=============================================================================
