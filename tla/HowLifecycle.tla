---------------------------- MODULE HowLifecycle ----------------------------
(* The HOW store of a campaign, how_pending.json: drafts of detector plugins *)
(* are proposed from literature, invented or selected by the planner, and a  *)
(* lifecycle tick asks a model whether to add one, has it authored and       *)
(* smoked in a sandbox, and accepts it into the overlay from which the       *)
(* manager materializes plans.  Ticks run in the campaign's worker and in    *)
(* API calls; humans release, register, reject and author through the API.   *)
(*                                                                           *)
(* A load with the save that follows it is one step, unless a model, an      *)
(* author or a smoke test runs for minutes in between: author_how_patch      *)
(* writes back the whole store it loaded before.  Drafts are plugins (P ids);*)
(* scout, dialogue and texts are left out, and all drafts are of one round.  *)
EXTENDS Naturals

CONSTANTS
  Cand,          \* candidate ids
  Invent,        \* those of invent-fallback drafts, which no paper grounds
  HowOf,         \* the HOW a candidate is a draft of: a model may reuse one
  Daemon,        \* the campaign's worker
  Caller,        \* handlers of API calls
  MaxTicks,      \* MAX_LIFECYCLE_TICKS
  MaxAttempts,   \* MAX_ATTEMPTS_PER_CANDIDATE
  MaxDrafts,     \* MAX_DRAFT_ARM_TICKS
  MaxEvents      \* bound on API calls, selections by the planner and restarts

ASSUME HowAssumption ==
  /\ Cand # {} /\ Invent \subseteq Cand
  /\ Daemon \notin Caller
  /\ HowOf = [c \in Cand |-> HowOf[c]]
  /\ {MaxTicks, MaxAttempts, MaxDrafts, MaxEvents} \subseteq Nat

VARIABLES
  store,         \* how_pending.json: rows, registered overlay, counters
  promoted,      \* HOWs with a smoked plugin.py in the project tree
  call,          \* the ticks and authorings in flight
  released,      \* history: candidates a human has released or registered
  final,         \* history: rejected by a human when nothing was in flight
  calm,          \* history: no two calls were in flight at once
  events         \* API calls, selections and restarts so far

vars == <<store, promoted, call, released, final, calm, events>>
history == <<released, final>>

Actor == Caller \cup {Daemon}
How == {HowOf[c] : c \in Cand}
Status == {"absent", "proposed", "rejected", "approved_pending_adapter", "registered"}
Row == [status : Status, review : BOOLEAN, smoke : BOOLEAN, needs : BOOLEAN,
        tries : Nat]
Store == [row : [Cand -> Row], overlay : SUBSET How, ticks : Nat, drafts : Nat]

NoRow == [status |-> "absent", review |-> FALSE, smoke |-> FALSE,
          needs |-> FALSE, tries |-> 0]
EmptyStore == [row |-> [c \in Cand |-> NoRow], overlay |-> {}, ticks |-> 0, drafts |-> 0]

Call == [at : {"idle", "draft", "tick", "add", "author", "patch", "save",
               "accept", "decide"},
         of : Cand, smoked : BOOLEAN, free : SUBSET Invent, copy : Store,
         then : {"idle", "accept"}]
Idle == [at |-> "idle", of |-> CHOOSE c \in Cand : TRUE, smoked |-> FALSE,
         free |-> {}, copy |-> EmptyStore, then |-> "accept"]

Init ==
  /\ store = EmptyStore
  /\ promoted = {}
  /\ call = [a \in Actor |-> Idle]
  /\ released = {} /\ final = {} /\ calm = TRUE
  /\ events = 0

-----------------------------------------------------------------------------
(* What the functions on a loaded store look up and change *)

Present(s) == {c \in Cand : s.row[c].status # "absent"}
Proposed(s) == {c \in Cand : s.row[c].status = "proposed"}

(* A draft as it enters the store: only invented ones wait for a human, and  *)
(* only the others are marked as adapter work.                               *)
Draft(c) == [status |-> "proposed", review |-> c \in Invent, smoke |-> FALSE,
             needs |-> c \notin Invent, tries |-> 0]

(* ingest_llm_candidates: decided rows are kept, proposed ones start anew.   *)
Ingested(s, new) ==
  [s EXCEPT !.row = [c \in Cand |->
     IF c \in new \cap (Proposed(s) \cup (Cand \ Present(s))) THEN Draft(c) ELSE @[c]]]

(* The draft arm then stamps the proposed rows of its round as literature.   *)
Stamped(s) ==
  [s EXCEPT !.row = [c \in Cand |->
     IF c \in Proposed(s) THEN [@[c] EXCEPT !.review = FALSE] ELSE @[c]]]

Eligible(s) == {c \in Proposed(s) : ~s.row[c].review}
Waiting(s) == {c \in Proposed(s) : s.row[c].review}
Occupied(s) == {HowOf[c] : c \in Present(s)} \cup s.overlay \cup promoted
Free(s) == {c \in Invent : HowOf[c] \notin Occupied(s)}

(* A mistake: who waits for a human is picked like any other.                *)
UntiredAny(s) == {c \in Cand : s.row[c].tries < MaxAttempts}

(* _pick_candidate: proposed drafts first, then those pending an adapter.    *)
Untired(s) == {c \in Cand : ~s.row[c].review /\ s.row[c].tries < MaxAttempts}
PendingAdapter(s) ==
  {c \in Cand : /\ s.row[c].status = "approved_pending_adapter"
                /\ ~s.row[c].smoke /\ s.row[c].needs}
Pickable(s) ==
  LET drafts == Proposed(s) \cap Untired(s) IN
  IF drafts # {} THEN drafts ELSE PendingAdapter(s) \cap Untired(s)

(* decide_candidate.  A HOW leaves the overlay by its id, whichever of its   *)
(* candidates is rejected.                                                   *)
Rejected(s, c) ==
  [s EXCEPT !.row[c] = [@ EXCEPT !.status = "rejected", !.review = FALSE],
            !.overlay = @ \ {HowOf[c]}]

ToAuthor(s, c) ==
  [s EXCEPT !.row[c] = [@ EXCEPT !.status = "proposed", !.review = FALSE, !.needs = FALSE]]

ToOverlay(s, c) ==
  [s EXCEPT !.row[c] = [@ EXCEPT !.status = "registered", !.review = FALSE, !.needs = FALSE],
            !.overlay = @ \cup {HowOf[c]}]

ToAdapter(s, c) ==
  [s EXCEPT !.row[c] = [@ EXCEPT !.status = "approved_pending_adapter",
                                 !.review = FALSE, !.needs = TRUE]]

(* A mistake: what a human registers is registered, smoked or not.           *)
RegisteredUnsmoked(s, c) ==
  IF s.row[c].status = "registered" THEN s ELSE ToOverlay(s, c)

(* register means register only for a smoked plugin: an unsmoked draft that  *)
(* waits for a human or for authoring is released for the lifecycle instead. *)
Registered(s, c) ==
  LET r == s.row[c] IN
  CASE r.status = "registered"                                       -> s
    [] r.status # "registered" /\ r.smoke                            -> ToOverlay(s, c)
    [] r.status # "registered" /\ ~r.smoke /\ (r.review \/ r.needs)  -> ToAuthor(s, c)
    [] r.status # "registered" /\ ~r.smoke /\ ~(r.review \/ r.needs) -> ToAdapter(s, c)

(* release_invent_for_lifecycle *)
ReleasedFor(s, c) == [s EXCEPT !.row[c].review = FALSE]

(* author_how_patch: the row of a plugin that has passed its smoke test.     *)
Smoked(s, c) == [s EXCEPT !.row[c] = [@ EXCEPT !.smoke = TRUE, !.needs = FALSE]]
-----------------------------------------------------------------------------
(* Steps of a call *)

At(a, label) == call[a].at = label
Goes(a, label) == call' = [call EXCEPT ![a].at = label]
Return(a) == call' = [call EXCEPT ![a] = Idle]
Quiet == \A a \in Actor : At(a, "idle")
RowOf(a) == store.row[call[a].of]
There(a) == call[a].of \in Present(store)
SmokedBy(a) == IF There(a) THEN RowOf(a).smoke ELSE call[a].smoked
Lost(a) == ~There(a) /\ ~SmokedBy(a)

Event == events < MaxEvents /\ events' = events + 1

(* A call begins: those of the API are bounded, and calm is over if another  *)
(* is in flight.                                                             *)
Begins(a) ==
  /\ At(a, "idle")
  /\ IF a = Daemon THEN UNCHANGED events ELSE Event
  /\ calm' = (calm /\ Quiet)

(* A mistake: a draft arm at its cap ends the call.                          *)
ToLifecycleUncapped(a) ==
  /\ Begins(a)
  /\ store.drafts < MaxDrafts /\ Eligible(store) # {}
  /\ Goes(a, "tick")
  /\ UNCHANGED <<store, promoted, history>>

(* run_how_draft_arm before a tick: at its cap, or with a draft to work on,  *)
(* the lifecycle goes on; if a human is waited for, it does not (a step that *)
(* changes nothing); else a model is asked for drafts.                       *)
ToLifecycle(a) ==
  /\ Begins(a)
  /\ store.drafts >= MaxDrafts \/ Eligible(store) # {}
  /\ Goes(a, "tick")
  /\ UNCHANGED <<store, promoted, history>>

AskForDrafts(a) ==
  /\ Begins(a)
  /\ store.drafts < MaxDrafts /\ Proposed(store) = {}
  /\ store' = [store EXCEPT !.drafts = @ + 1]
  /\ call' = [call EXCEPT ![a].at = "draft", ![a].free = Free(store)]
  /\ UNCHANGED <<promoted, history>>

DraftLiterature(a) ==
  /\ At(a, "draft")
  /\ \E new \in SUBSET (Cand \ Invent) \ {{}} : store' = Stamped(Ingested(store, new))
  /\ call' = [call EXCEPT ![a] = [Idle EXCEPT !.at = "tick"]]
  /\ UNCHANGED <<promoted, history, calm, events>>

(* ingest_invent_fallback_candidate: an id that was free when the store was  *)
(* loaded (as long as the instance has one), and a row written over whatever *)
(* is there by now.                                                          *)
DraftInvention(a) ==
  /\ At(a, "draft")
  /\ \E c \in call[a].free : store' = [store EXCEPT !.row[c] = Draft(c)]
  /\ Return(a)
  /\ UNCHANGED <<promoted, history, calm, events>>

(* run_how_lifecycle_tick: an attempt is counted before anything is tried.   *)
Pick(a) ==
  /\ At(a, "tick") /\ store.ticks < MaxTicks
  /\ \E c \in Pickable(store) :
       /\ store' = [store EXCEPT !.row[c].tries = @ + 1, !.ticks = @ + 1]
       /\ call' = [call EXCEPT ![a].at = "add", ![a].of = c,
                               ![a].smoked = store.row[c].smoke]
  /\ UNCHANGED <<promoted, history, calm, events>>

NothingToPick(a) ==
  /\ At(a, "tick")
  /\ store.ticks >= MaxTicks \/ Pickable(store) = {}
  /\ Return(a)
  /\ UNCHANGED <<store, promoted, history, calm, events>>

(* The model may refuse to add a draft, but is not heard while it is unsmoked.*)
Add(a) ==
  /\ At(a, "add") /\ Goes(a, "author")
  /\ UNCHANGED <<store, promoted, history, calm, events>>

RefuseToAdd(a) ==
  /\ At(a, "add") /\ call[a].smoked
  /\ store' = IF There(a) THEN Rejected(store, call[a].of) ELSE store
  /\ Return(a)
  /\ UNCHANGED <<promoted, history, calm, events>>

(* author_how_patch loads the store, then drafts, verifies and smokes; not   *)
(* for a plugin that has been smoked, by the row or else as it was picked.   *)
Author(a) ==
  /\ At(a, "author") /\ ~Lost(a)
  /\ call' = [call EXCEPT ![a] =
                 IF SmokedBy(a) THEN [@ EXCEPT !.at = "accept", !.smoked = FALSE]
                 ELSE [@ EXCEPT !.at = "patch", !.copy = store]]
  /\ UNCHANGED <<store, promoted, history, calm, events>>

Promote(a) ==
  /\ At(a, "patch") /\ Goes(a, "save")
  /\ promoted' = promoted \cup {HowOf[call[a].of]}
  /\ UNCHANGED <<store, history, calm, events>>

SaveSmoked(a) ==
  /\ At(a, "save")
  /\ store' = Smoked(call[a].copy, call[a].of)
  /\ call' = [call EXCEPT ![a] = IF @.then = "idle" THEN Idle
                                 ELSE [@ EXCEPT !.at = "accept", !.copy = EmptyStore]]
  /\ UNCHANGED <<promoted, history, calm, events>>

(* What the acceptance is asked about is the row as it is then.              *)
AskToAccept(a) ==
  /\ At(a, "accept")
  /\ call' = [call EXCEPT ![a].at = "decide", ![a].smoked = There(a) /\ RowOf(a).smoke]
  /\ UNCHANGED <<store, promoted, history, calm, events>>

(* A smoked plugin is registered whatever the model says.                    *)
Accept(a) ==
  /\ At(a, "decide")
  /\ \/ store' = IF There(a) THEN Registered(store, call[a].of) ELSE store
     \/ ~call[a].smoked /\ store' = IF There(a) THEN Rejected(store, call[a].of) ELSE store
  /\ Return(a)
  /\ UNCHANGED <<promoted, history, calm, events>>

(* A model, an author or a check fails, or the row is gone: the call is over.*)
Fails(a) ==
  /\ \/ call[a].at \in {"draft", "add", "patch", "save", "decide"}
     \/ At(a, "author") /\ Lost(a)
  /\ Return(a)
  /\ UNCHANGED <<store, promoted, history, calm, events>>

Steps(a) ==
  \/ DraftLiterature(a) \/ DraftInvention(a)
  \/ Pick(a) \/ NothingToPick(a) \/ Add(a) \/ RefuseToAdd(a)
  \/ Author(a) \/ Promote(a) \/ SaveSmoked(a)
  \/ AskToAccept(a) \/ Accept(a) \/ Fails(a)

LifecycleTick(a) == ToLifecycle(a) \/ AskForDrafts(a)

-----------------------------------------------------------------------------
(* Humans and the planner *)

Asks(c) ==
  /\ c \in Present(store)
  /\ Event
  /\ UNCHANGED <<promoted, call, calm>>

HumanRegisters(c) ==
  /\ Asks(c)
  /\ store' = Registered(store, c)
  /\ released' = released \cup {c} /\ final' = final \ {c}

HumanRejects(c) ==
  /\ Asks(c)
  /\ store' = Rejected(store, c)
  /\ final' = IF Quiet THEN final \cup {c} ELSE final
  /\ UNCHANGED released

HumanReleases(c) ==
  /\ Asks(c) /\ c \in Proposed(store)
  /\ store' = ReleasedFor(store, c)
  /\ released' = released \cup {c}
  /\ UNCHANGED final

(* author_how_candidate: a plugin for any row, with no look at its status.   *)
HumanAuthors(a, c) ==
  /\ a # Daemon /\ Begins(a)
  /\ c \in Present(store)
  /\ call' = [call EXCEPT ![a] = [Idle EXCEPT !.at = "patch", !.of = c,
                                             !.copy = store, !.then = "idle"]]
  /\ UNCHANGED <<store, promoted, history>>

(* The planner, in the worker's thread, selects a HOW nothing can materialize*)
(* and leaves it as a draft.                                                 *)
PlannerSelects ==
  /\ At(Daemon, "idle")
  /\ Event
  /\ \E c \in Cand \ Invent : store' = Ingested(store, {c})
  /\ UNCHANGED <<promoted, call, history, calm>>

Restart ==
  /\ Event
  /\ call' = [a \in Actor |-> Idle]
  /\ UNCHANGED <<store, promoted, history, calm>>

Next ==
  \/ \E a \in Actor : LifecycleTick(a) \/ Steps(a)
  \/ \E c \in Cand : HumanRegisters(c) \/ HumanRejects(c) \/ HumanReleases(c)
  \/ \E a \in Actor, c \in Cand : HumanAuthors(a, c)
  \/ PlannerSelects
  \/ Restart

Spec == Init /\ [][Next]_vars

(* Threads run; and the manager, which cannot materialize the plan, has its  *)
(* worker tick again and again.                                              *)
FairSpec ==
  /\ Spec
  /\ \A a \in Actor : WF_vars(Steps(a))
  /\ WF_vars(LifecycleTick(Daemon))

-----------------------------------------------------------------------------
TypeOK ==
  /\ store \in Store
  /\ promoted \subseteq How
  /\ call \in [Actor -> Call]
  /\ released \subseteq Cand /\ final \subseteq Cand /\ calm \in BOOLEAN
  /\ events \in 0..MaxEvents

(* What the rows say was smoked was, and only that is registered.            *)
Smoke(s) ==
  /\ s.overlay \subseteq promoted
  /\ \A c \in Cand : s.row[c].smoke => HowOf[c] \in promoted
  /\ \A c \in Cand : s.row[c].status = "registered" => s.row[c].smoke

(* Rows and overlay agree; but a rejection takes the HOW of its candidate    *)
(* out whoever else is registered for it.                                    *)
Agree(s) ==
  /\ \A h \in s.overlay :
       \E c \in Cand : HowOf[c] = h /\ s.row[c].status = "registered"
  /\ \A c \in Cand : s.row[c].status = "registered" =>
       \/ HowOf[c] \in s.overlay
       \/ \E d \in Present(s) \ {c} : HowOf[d] = HowOf[c]

(* What the manager materializes from has been smoked and is in the tree,    *)
(* however many older stores are written back over newer ones; and the rows  *)
(* say the same, unless two draft arms have invented under the same id.      *)
OverlaySound == TypeOK /\ Smoke(store) /\ (calm => Agree(store))

(* No model gets to author or register an invented draft before a human has  *)
(* released it: "This draft requires human review before authoring code."    *)
(* Two draft arms at once can break that: the literature stamp of one clears *)
(* the flag of what the other has just invented.                             *)
HumanGate ==
  calm =>
    /\ \A a \in Actor :
         ~At(a, "idle") /\ ~At(a, "draft") /\ ~At(a, "tick") /\ call[a].then = "accept"
           => call[a].of \notin Invent \/ call[a].of \in released
    /\ \A c \in Invent : store.row[c].status = "registered" => c \in released

(* A human's rejection stands against all later ticks, drafts, selections    *)
(* and authorings, if no call was in flight then; calls in flight may end in *)
(* a registration, or write the older store back.                            *)
RejectionStands == \A c \in final : store.row[c].status = "rejected"

(* What a human releases and rejects is what happens.                        *)
HumanDecides == HumanGate /\ RejectionStands

(* Drafts do not wait for ever: they are decided, or tried as often as they  *)
(* may be, unless the ticks are used up, or an invented draft that waits for *)
(* a human keeps those that are pending an adapter waiting too.              *)
DraftsSettle ==
  <>[](\/ Pickable(store) = {} \/ store.ticks >= MaxTicks
       \/ Eligible(store) = {} /\ Waiting(store) # {})
=============================================================================
