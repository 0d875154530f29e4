------------------------- MODULE HowLifecycleProofs -------------------------
(* Proofs about the HOW store, for any candidates, callers, bounds and any   *)
(* number of restarts: the overlay offers only smoked plugins, no invented   *)
(* draft passes the human, and a rejection stands.                           *)
EXTENDS HowLifecycle, TLAPS

(* A decided row: what decide_candidate leaves of a store but for one row.   *)
Writes(s, t, c, status) ==
  /\ t \in Store
  /\ \A d \in Cand \ {c} : t.row[d] = s.row[d]
  /\ t.row[c].status = status
  /\ ~t.row[c].review
  /\ t.row[c].smoke = s.row[c].smoke

(* Every candidate is a draft of one of the HOWs.                            *)
LEMMA HowIn == \A c \in Cand : HowOf[c] \in How
BY DEF How

(* The values that stand for nothing have their types.                       *)
LEMMA Blank == NoRow \in Row /\ EmptyStore \in Store /\ Idle \in Call
<1>1. NoRow \in Row
  BY DEF NoRow, Row, Status
<1>2. EmptyStore \in Store
  BY <1>1 DEF EmptyStore, Store
<1>3. (CHOOSE c \in Cand : TRUE) \in Cand
  BY HowAssumption
<1>4. Idle \in Call
  BY <1>2, <1>3 DEF Idle, Call
<1>5. QED BY <1>1, <1>2, <1>4

(* A fresh draft is proposed, unsmoked, and waits if it is invented.         *)
LEMMA DraftIs == \A c \in Cand : Draft(c) \in Row /\ Draft(c).status = "proposed"
                                 /\ ~Draft(c).smoke /\ Draft(c).review = (c \in Invent)
BY DEF Draft, Row, Status

(* What a rejection writes: one row, and the HOW out of the overlay.         *)
LEMMA RejectedIs ==
  ASSUME NEW s \in Store, NEW c \in Cand
  PROVE  /\ Writes(s, Rejected(s, c), c, "rejected")
         /\ Rejected(s, c).overlay = s.overlay \ {HowOf[c]}
BY DEF Writes, Rejected, Store, Row, Status

(* What a release by decision writes: one row.                               *)
LEMMA ToAuthorIs ==
  ASSUME NEW s \in Store, NEW c \in Cand
  PROVE  /\ Writes(s, ToAuthor(s, c), c, "proposed")
         /\ ToAuthor(s, c).overlay = s.overlay
BY DEF Writes, ToAuthor, Store, Row, Status

(* What a registration writes: one row and its HOW.                          *)
LEMMA ToOverlayIs ==
  ASSUME NEW s \in Store, NEW c \in Cand
  PROVE  /\ Writes(s, ToOverlay(s, c), c, "registered")
         /\ ToOverlay(s, c).overlay = s.overlay \cup {HowOf[c]}
BY ZenonT(30), HowIn DEF Writes, ToOverlay, Store, Row, Status

(* What leaving a draft to adapter work writes: one row.                     *)
LEMMA ToAdapterIs ==
  ASSUME NEW s \in Store, NEW c \in Cand
  PROVE  /\ Writes(s, ToAdapter(s, c), c, "approved_pending_adapter")
         /\ ToAdapter(s, c).overlay = s.overlay
BY DEF Writes, ToAdapter, Store, Row, Status

(* What a registration can do to a store.                                    *)
LEMMA RegisteredIs ==
  ASSUME NEW s \in Store, NEW c \in Cand, NEW t, t = Registered(s, c)
  PROVE  \/ t = s /\ s.row[c].status = "registered"
         \/ /\ Writes(s, t, c, "registered")
            /\ s.row[c].smoke /\ t.overlay = s.overlay \cup {HowOf[c]}
         \/ /\ \/ Writes(s, t, c, "proposed")
               \/ Writes(s, t, c, "approved_pending_adapter")
            /\ s.row[c].status # "registered" /\ t.overlay = s.overlay
<1> DEFINE r == s.row[c]
<1>0. r \in Row
  BY DEF Store
<1>1. CASE r.status = "registered"
  BY <1>1 DEF Registered
<1>2. CASE r.status # "registered" /\ r.smoke
  <2>1. t = ToOverlay(s, c)
    BY <1>2 DEF Registered
  <2>2. QED BY <1>2, <2>1, ToOverlayIs
<1>3. CASE r.status # "registered" /\ ~r.smoke /\ (r.review \/ r.needs)
  <2>1. t = ToAuthor(s, c)
    BY <1>3 DEF Registered
  <2>2. QED BY <1>3, <2>1, ToAuthorIs
<1>4. CASE r.status # "registered" /\ ~r.smoke /\ ~(r.review \/ r.needs)
  <2>1. t = ToAdapter(s, c)
    BY <1>4 DEF Registered
  <2>2. QED BY <1>4, <2>1, ToAdapterIs
<1>5. QED BY <1>0, <1>1, <1>2, <1>3, <1>4 DEF Row

(* What the other operations leave of a store: they decide nothing.          *)
Same(r, q) == /\ q.status = r.status /\ q.smoke = r.smoke /\ (q.review => r.review)

(* Ingesting puts fresh drafts over absent and proposed rows only.           *)
LEMMA IngestedIs ==
  ASSUME NEW s \in Store, NEW new \in SUBSET Cand, NEW t, t = Ingested(s, new)
  PROVE  /\ t \in Store /\ t.overlay = s.overlay
         /\ \A d \in Cand :
              \/ t.row[d] = s.row[d]
              \/ /\ d \in new /\ t.row[d] = Draft(d)
                 /\ s.row[d].status \in {"absent", "proposed"}
<1>1. t \in Store /\ t.overlay = s.overlay
  BY DraftIs DEF Ingested, Store
<1>2. ASSUME NEW d \in Cand
      PROVE  \/ t.row[d] = s.row[d]
             \/ /\ d \in new /\ t.row[d] = Draft(d)
                /\ s.row[d].status \in {"absent", "proposed"}
  BY DEF Ingested, Store, Present, Proposed
<1>3. QED BY <1>1, <1>2

(* The stamp changes proposed rows only, and only clears their review.       *)
LEMMA StampedIs ==
  ASSUME NEW s \in Store, NEW t, t = Stamped(s)
  PROVE  /\ t \in Store /\ t.overlay = s.overlay
         /\ \A d \in Cand : /\ Same(s.row[d], t.row[d])
                            /\ t.row[d] = s.row[d] \/ t.row[d].status = "proposed"
<1>1. t \in Store /\ t.overlay = s.overlay
  BY DEF Stamped, Store, Row
<1>2. ASSUME NEW d \in Cand
      PROVE  /\ Same(s.row[d], t.row[d])
             /\ t.row[d] = s.row[d] \/ t.row[d].status = "proposed"
  BY DEF Stamped, Store, Row, Same, Proposed
<1>3. QED BY <1>1, <1>2

(* A smoke test decides no row.                                              *)
LEMMA SmokedIs ==
  ASSUME NEW s \in Store, NEW c \in Cand, NEW t, t = Smoked(s, c)
  PROVE  /\ t \in Store /\ t.overlay = s.overlay
         /\ \A d \in Cand \ {c} : t.row[d] = s.row[d]
         /\ t.row[c].smoke
         /\ t.row[c].status = s.row[c].status /\ t.row[c].review = s.row[c].review
BY DEF Smoked, Store, Row

(* A release changes one row, and decides nothing.                           *)
LEMMA ReleasedIs ==
  ASSUME NEW s \in Store, NEW c \in Cand, NEW t, t = ReleasedFor(s, c)
  PROVE  /\ t \in Store /\ t.overlay = s.overlay
         /\ \A d \in Cand : Same(s.row[d], t.row[d])
         /\ \A d \in Cand \ {c} : t.row[d] = s.row[d]
BY DEF ReleasedFor, Store, Row, Same

(* Counting an attempt decides nothing.                                      *)
LEMMA PickedIs ==
  ASSUME NEW s \in Store, NEW c \in Cand, NEW t,
         t = [s EXCEPT !.row[c].tries = @ + 1, !.ticks = @ + 1]
  PROVE  /\ t \in Store /\ t.overlay = s.overlay
         /\ \A d \in Cand : Same(s.row[d], t.row[d])
         /\ \A d \in Cand : t.row[d].review = s.row[d].review
<1> DEFINE r == [s.row[c] EXCEPT !.tries = @ + 1]
<1>1. s.row[c] \in Row /\ r \in Row /\ Same(s.row[c], r) /\ r.review = s.row[c].review
  BY DEF Store, Row, Same
<1>2. t.row = [s.row EXCEPT ![c] = r] /\ t.overlay = s.overlay /\ t.drafts = s.drafts
      /\ t.ticks = s.ticks + 1
  BY DEF Store
<1>3. t = [row |-> t.row, overlay |-> t.overlay, ticks |-> t.ticks, drafts |-> t.drafts]
  BY DEF Store
<1>4. t.row \in [Cand -> Row] /\ \A d \in Cand : t.row[d] = IF d = c THEN r ELSE s.row[d]
  BY <1>1, <1>2 DEF Store
<1> HIDE DEF r
<1>5. t \in Store
  BY <1>2, <1>3, <1>4 DEF Store
<1>6. QED BY <1>1, <1>2, <1>4, <1>5 DEF Same

(* Counting a draft changes no row.                                          *)
LEMMA CountedIs ==
  ASSUME NEW s \in Store, NEW t, t = [s EXCEPT !.drafts = @ + 1]
  PROVE  t \in Store /\ t.overlay = s.overlay /\ t.row = s.row
BY DEF Store

(* An invention is written over one row.                                     *)
LEMMA InventedIs ==
  ASSUME NEW s \in Store, NEW c \in Cand, NEW t, t = [s EXCEPT !.row[c] = Draft(c)]
  PROVE  /\ t \in Store /\ t.overlay = s.overlay /\ t.row[c] = Draft(c)
         /\ \A d \in Cand \ {c} : t.row[d] = s.row[d]
BY DraftIs DEF Store

(* Who is picked waits for nobody and is not decided.                        *)
LEMMA Picked == \A s \in Store : \A c \in Pickable(s) :
  /\ c \in Cand /\ ~s.row[c].review
  /\ s.row[c].status \in {"proposed", "approved_pending_adapter"}
BY DEF Pickable, Proposed, Untired, PendingAdapter
-----------------------------------------------------------------------------
(* Types *)

CallOK == call \in [Actor -> Call]

(* Calls in flight know candidates, stores and free ids.                     *)
LEMMA CallTypes ==
  ASSUME CallOK, NEW a \in Actor
  PROVE  /\ call[a] \in Call /\ call[a].of \in Cand /\ call[a].copy \in Store
         /\ call[a].free \subseteq Invent /\ call[a].then \in {"idle", "accept"}
         /\ \A k \in Call : [call EXCEPT ![a] = k] \in [Actor -> Call]
BY DEF CallOK, Call

(* A call that goes on, with what it knows.                                  *)
CallLabel == {"idle", "draft", "tick", "add", "author", "patch", "save",
              "accept", "decide"}

(* Updates of a call yield calls.                                            *)
LEMMA CallMoves ==
  ASSUME NEW k \in Call
  PROVE  /\ \A label \in CallLabel : [k EXCEPT !.at = label] \in Call
         /\ \A label \in CallLabel, f \in SUBSET Invent :
              [k EXCEPT !.at = label, !.free = f] \in Call
         /\ \A label \in CallLabel, c \in Cand, b \in BOOLEAN :
              [k EXCEPT !.at = label, !.of = c, !.smoked = b] \in Call
         /\ \A label \in CallLabel, b \in BOOLEAN :
              [k EXCEPT !.at = label, !.smoked = b] \in Call
         /\ \A label \in CallLabel, s \in Store : [k EXCEPT !.at = label, !.copy = s] \in Call
         /\ \A label \in CallLabel, c \in Cand, s \in Store :
              [k EXCEPT !.at = label, !.of = c, !.copy = s, !.then = "idle"] \in Call
<1> USE DEF Call, CallLabel
<1>1. \A label \in CallLabel : [k EXCEPT !.at = label] \in Call
  OBVIOUS
<1>2. \A label \in CallLabel, f \in SUBSET Invent :
        [k EXCEPT !.at = label, !.free = f] \in Call
  OBVIOUS
<1>3. \A label \in CallLabel, c \in Cand, b \in BOOLEAN :
        [k EXCEPT !.at = label, !.of = c, !.smoked = b] \in Call
  OBVIOUS
<1>4. \A label \in CallLabel, b \in BOOLEAN :
        [k EXCEPT !.at = label, !.smoked = b] \in Call
  OBVIOUS
<1>5. \A label \in CallLabel, s \in Store : [k EXCEPT !.at = label, !.copy = s] \in Call
  OBVIOUS
<1>6. \A label \in CallLabel, c \in Cand, s \in Store :
        [k EXCEPT !.at = label, !.of = c, !.copy = s, !.then = "idle"] \in Call
  OBVIOUS
<1>7. QED BY <1>1, <1>2, <1>3, <1>4, <1>5, <1>6

(* Every step keeps the types.                                               *)
LEMMA TypeKept == TypeOK /\ [Next]_vars => TypeOK'
<1> SUFFICES ASSUME TypeOK, [Next]_vars PROVE TypeOK'
  OBVIOUS
<1> USE HowAssumption, HowIn, Blank
<1>1. CallOK /\ store \in Store
  BY DEF TypeOK, CallOK
<1>3. ASSUME NEW a \in Actor, Begins(a)
      PROVE  calm' \in BOOLEAN /\ events' \in 0..MaxEvents
  BY <1>3 DEF Begins, Event, TypeOK
<1>4. ASSUME NEW a \in Actor, LifecycleTick(a) PROVE TypeOK'
  <2>1. CASE ToLifecycle(a)
    BY <1>1, <1>3, <2>1, CallTypes, CallMoves
       DEF CallLabel, ToLifecycle, Goes, TypeOK, history
  <2>2. CASE AskForDrafts(a)
    <3>1. Free(store) \subseteq Invent
      BY DEF Free
    <3>2. call' \in [Actor -> Call]
      BY <1>1, <2>2, <3>1, CallTypes, CallMoves DEF CallLabel, AskForDrafts
    <3>3. store' \in Store
      BY <1>1, <2>2, CountedIs DEF AskForDrafts
    <3>4. QED BY <1>3, <2>2, <3>2, <3>3 DEF AskForDrafts, TypeOK, history
  <2>3. QED BY <1>4, <2>1, <2>2 DEF LifecycleTick
<1>5. ASSUME NEW a \in Actor, Steps(a) PROVE TypeOK'
  <2>1. store' \in Store /\ promoted' \subseteq How
    <3>1. CASE DraftLiterature(a)
      BY <1>1, <3>1, IngestedIs, StampedIs DEF DraftLiterature, TypeOK
    <3>2. CASE DraftInvention(a)
      BY <1>1, <3>2, InventedIs, CallTypes DEF DraftInvention, TypeOK
    <3>3. CASE Pick(a)
      BY <1>1, <3>3, PickedIs, Picked DEF Pick, TypeOK
    <3>4. CASE NothingToPick(a) \/ Add(a) \/ Author(a) \/ AskToAccept(a) \/ Fails(a)
      BY <1>1, <3>4 DEF NothingToPick, Add, Author, AskToAccept, Fails, TypeOK
    <3>5. CASE RefuseToAdd(a)
      BY <1>1, <3>5, CallTypes, RejectedIs DEF RefuseToAdd, TypeOK, Writes
    <3>6. CASE Promote(a)
      BY <1>1, <3>6, CallTypes DEF Promote, TypeOK
    <3>7. CASE SaveSmoked(a)
      BY <1>1, <3>7, CallTypes, SmokedIs DEF SaveSmoked, TypeOK
    <3>8. CASE Accept(a)
      <4>1. Registered(store, call[a].of) \in Store /\ Rejected(store, call[a].of) \in Store
        BY <1>1, CallTypes, RegisteredIs, RejectedIs DEF Writes
      <4>2. QED BY <1>1, <3>8, <4>1 DEF Accept, TypeOK
    <3>9. QED BY <1>5, <3>1, <3>2, <3>3, <3>4, <3>5, <3>6, <3>7, <3>8 DEF Steps
  <2>2. call' \in [Actor -> Call]
    <3>1. CASE DraftLiterature(a)
      BY <1>1, <3>1, CallTypes, CallMoves DEF CallLabel, DraftLiterature
    <3>2. CASE DraftInvention(a) \/ NothingToPick(a) \/ RefuseToAdd(a) \/ Accept(a) \/ Fails(a)
      BY <1>1, <3>2, CallTypes
         DEF DraftInvention, NothingToPick, RefuseToAdd, Accept, Fails, Return
    <3>3. CASE Pick(a)
      <4>1. PICK c \in Pickable(store) :
              call' = [call EXCEPT ![a].at = "add", ![a].of = c,
                                   ![a].smoked = store.row[c].smoke]
        BY <3>3 DEF Pick
      <4>2. c \in Cand /\ store.row[c].smoke \in BOOLEAN
        BY <1>1, Picked DEF Store, Row
      <4>3. call' = [call EXCEPT ![a] = [call[a] EXCEPT !.at = "add", !.of = c,
                                                 !.smoked = store.row[c].smoke]]
        BY <1>1, <4>1 DEF CallOK, Call
      <4>4. QED BY <1>1, <4>2, <4>3, CallTypes, CallMoves DEF CallLabel
    <3>4. CASE Add(a) \/ Promote(a)
      <4>1. PICK label \in CallLabel : Goes(a, label)
        BY <3>4 DEF Add, Promote, CallLabel
      <4>2. call' = [call EXCEPT ![a] = [call[a] EXCEPT !.at = label]]
        BY <1>1, <4>1 DEF CallOK, Call, Goes
      <4>3. QED BY <1>1, <4>1, <4>2, CallTypes, CallMoves
    <3>5. CASE Author(a)
      BY <1>1, <3>5, CallTypes, CallMoves DEF CallLabel, Author
    <3>6. CASE SaveSmoked(a)
      BY <1>1, <3>6, CallTypes, CallMoves DEF CallLabel, SaveSmoked
    <3>7. CASE AskToAccept(a)
      <4>1. (There(a) /\ RowOf(a).smoke) \in BOOLEAN
        BY <1>1, CallTypes DEF There, RowOf, Store, Row
      <4>2. call' = [call EXCEPT ![a] = [call[a] EXCEPT !.at = "decide",
                                             !.smoked = There(a) /\ RowOf(a).smoke]]
        BY <1>1, <3>7 DEF AskToAccept, CallOK, Call
      <4>3. QED BY <1>1, <4>1, <4>2, CallTypes, CallMoves DEF CallLabel
    <3>8. QED BY <1>5, <3>1, <3>2, <3>3, <3>4, <3>5, <3>6, <3>7 DEF Steps
  <2>3. UNCHANGED <<released, final, calm, events>>
    BY <1>5
       DEF Steps, DraftLiterature, DraftInvention, Pick, NothingToPick, Add,
           RefuseToAdd, Author, Promote, SaveSmoked, AskToAccept, Accept, Fails,
           history
  <2>4. QED BY <2>1, <2>2, <2>3 DEF TypeOK
<1>6. ASSUME NEW c \in Cand, HumanRegisters(c) \/ HumanRejects(c) \/ HumanReleases(c)
      PROVE  TypeOK'
  <2>1. store' \in Store
    <3>1. Registered(store, c) \in Store
      BY <1>1, RegisteredIs DEF Writes
    <3>2. Rejected(store, c) \in Store
      BY <1>1, RejectedIs DEF Writes
    <3>3. ReleasedFor(store, c) \in Store
      BY <1>1, ReleasedIs
    <3>4. QED BY <1>6, <3>1, <3>2, <3>3
                 DEF HumanRegisters, HumanRejects, HumanReleases
  <2>2. QED
    BY <1>6, <2>1
       DEF HumanRegisters, HumanRejects, HumanReleases, Asks, Event, TypeOK
<1>7. ASSUME NEW a \in Actor, NEW c \in Cand, HumanAuthors(a, c) PROVE TypeOK'
  <2>1. call' \in [Actor -> Call]
    BY <1>1, <1>7, CallTypes, CallMoves DEF CallLabel, HumanAuthors
  <2>2. QED BY <1>3, <1>7, <2>1 DEF HumanAuthors, TypeOK, history
<1>8. CASE PlannerSelects
  <2>1. store' \in Store
    BY <1>1, <1>8, IngestedIs DEF PlannerSelects
  <2>2. QED BY <1>8, <2>1 DEF PlannerSelects, Event, TypeOK, history
<1>9. CASE Restart
  BY <1>9 DEF Restart, Event, TypeOK, history
<1>10. CASE UNCHANGED vars
  BY <1>10 DEF vars, TypeOK
<1>11. QED BY <1>4, <1>5, <1>6, <1>7, <1>8, <1>9, <1>10 DEF Next

(* Types of the store, the copies and the calls.                             *)
THEOREM TypeCorrect == Spec => []TypeOK
<1>1. Init => TypeOK
  BY Blank, HowAssumption DEF Init, TypeOK
<1>2. QED BY <1>1, TypeKept, PTL DEF Spec

-----------------------------------------------------------------------------
(* How calls move                                                            *)

Others(a) == \A b \in Actor \ {a} : call'[b] = call[b]

(* How a step moves the call it belongs to, and no other.                    *)
LEMMA Moves ==
  ASSUME TypeOK, NEW a \in Actor, Steps(a)
  PROVE  /\ Others(a)
         /\ ~At(a, "idle") /\ call'[a].at # "draft"
         /\ call'[a].copy \in {call[a].copy, store, EmptyStore}
         /\ call'[a].at = "save" => Promote(a)
         /\ call'[a].at = "patch" => call'[a].copy = store
         /\ call'[a].at = "save" => At(a, "patch") /\ call'[a].copy = call[a].copy
         /\ call'[a].at \in {"idle", "tick"} => call'[a].then = "accept"
         /\ call'[a].at = "add" => Pick(a) /\ At(a, "tick") /\ call'[a].then = call[a].then
         /\ call'[a].at \in {"author", "patch", "save", "accept", "decide"} =>
              /\ call[a].at \notin {"idle", "draft", "tick"}
              /\ call'[a].of = call[a].of /\ call'[a].then = call[a].then
         /\ call'[a].at \in {"author", "accept", "decide"} =>
              call[a].at \in {"add", "author", "accept"} \/ call[a].then = "accept"
<1>1. call \in [Actor -> Call] /\ call[a] \in Call /\ Idle \in Call
  BY Blank DEF TypeOK
<1> USE <1>1
<1>2. CASE DraftLiterature(a)
  BY <1>2 DEF DraftLiterature, Others, At, Call, Idle
<1>3. CASE DraftInvention(a) \/ NothingToPick(a) \/ RefuseToAdd(a) \/ Accept(a)
  BY <1>3
     DEF DraftInvention, NothingToPick, RefuseToAdd, Accept, Return, Others, At,
         Call, Idle
<1>4. CASE Fails(a)
  BY <1>4 DEF Fails, Return, Others, At, Call, Idle
<1>5. CASE Pick(a)
  <2>1. PICK c : call' = [call EXCEPT ![a].at = "add", ![a].of = c,
                                      ![a].smoked = store.row[c].smoke]
    BY <1>5 DEF Pick
  <2>2. call'[a].at = "add" /\ call'[a].copy = call[a].copy /\ call'[a].then = call[a].then
    BY <2>1 DEF Call
  <2>3. Others(a)
    BY <2>1 DEF Others
  <2>4. At(a, "tick")
    BY <1>5 DEF Pick
  <2>5. QED BY <1>5, <2>2, <2>3, <2>4 DEF At
<1>6. CASE Add(a) \/ Promote(a)
  BY <1>6 DEF Add, Promote, Goes, Others, At, Call
<1>7. CASE Author(a)
  BY <1>7 DEF Author, Others, At, Call
<1>8. CASE SaveSmoked(a)
  BY <1>8 DEF SaveSmoked, Others, At, Call, Idle
<1>9. CASE AskToAccept(a)
  BY <1>9 DEF AskToAccept, Others, At, Call
<1>10. QED BY <1>2, <1>3, <1>4, <1>5, <1>6, <1>7, <1>8, <1>9 DEF Steps

(* How a tick begins.                                                        *)
LEMMA Ticks ==
  ASSUME TypeOK, NEW a \in Actor, LifecycleTick(a)
  PROVE  /\ Others(a) /\ Begins(a) /\ UNCHANGED <<promoted, history>>
         /\ call'[a].copy = call[a].copy /\ call'[a].then = call[a].then
         /\ \/ call'[a].at = "tick" /\ UNCHANGED store
            \/ /\ call'[a].at = "draft" /\ call'[a].free = Free(store)
               /\ Proposed(store) = {}
               /\ store' = [store EXCEPT !.drafts = @ + 1]
<1>1. call \in [Actor -> Call] /\ call[a] \in Call
  BY DEF TypeOK
<1>2. CASE ToLifecycle(a)
  BY <1>1, <1>2 DEF ToLifecycle, Goes, Others, Call, history
<1>3. CASE AskForDrafts(a)
  BY <1>1, <1>3 DEF AskForDrafts, Others, Call, history
<1>4. QED BY <1>2, <1>3 DEF LifecycleTick

(* Pick's choice, spelled out.                                               *)
LEMMA PickOf ==
  ASSUME TypeOK, NEW a \in Actor, Pick(a)
  PROVE  \E c \in Pickable(store) :
           /\ call'[a].of = c
           /\ store' = [store EXCEPT !.row[c].tries = @ + 1, !.ticks = @ + 1]
<1>1. PICK c \in Pickable(store) :
        /\ store' = [store EXCEPT !.row[c].tries = @ + 1, !.ticks = @ + 1]
        /\ call' = [call EXCEPT ![a].at = "add", ![a].of = c,
                                ![a].smoked = store.row[c].smoke]
  BY DEF Pick
<1>2. call'[a].of = c
  BY <1>1 DEF TypeOK, Call
<1>3. QED BY <1>1, <1>2

(* How a human's authoring begins.                                           *)
LEMMA Authors ==
  ASSUME TypeOK, NEW a \in Actor, NEW c \in Cand, HumanAuthors(a, c)
  PROVE  /\ Others(a) /\ Begins(a) /\ UNCHANGED <<store, promoted, history>>
         /\ call'[a].at = "patch" /\ call'[a].copy = store /\ call'[a].then = "idle"
<1>1. call \in [Actor -> Call] /\ Idle \in Call
  BY Blank DEF TypeOK
<1>2. QED BY <1>1 DEF HumanAuthors, Others, Call, Idle

-----------------------------------------------------------------------------
(* Smoke: what is registered or offered has been smoked, in the store and in *)
(* all older copies of it that may be written back.                          *)

SmokeIn(s, p) ==
  /\ s.overlay \subseteq p
  /\ \A c \in Cand : s.row[c].smoke => HowOf[c] \in p
  /\ \A c \in Cand : s.row[c].status = "registered" => s.row[c].smoke

SmokeInv ==
  /\ SmokeIn(store, promoted)
  /\ \A a \in Actor : SmokeIn(call[a].copy, promoted)
  /\ \A a \in Actor : At(a, "save") => HowOf[call[a].of] \in promoted

(* A step that decides one row, and one that decides none.                   *)
LEMMA SmokeWrites ==
  ASSUME NEW s \in Store, NEW t, NEW c \in Cand, NEW p, SmokeIn(s, p),
         NEW status \in Status, Writes(s, t, c, status),
         status = "registered" => s.row[c].smoke,
         t.overlay \subseteq s.overlay \cup {h \in {HowOf[c]} : s.row[c].smoke}
  PROVE  SmokeIn(t, p)
<1>1. \A d \in Cand : t.row[d].smoke = s.row[d].smoke
  BY DEF Writes
<1>2. \A d \in Cand : t.row[d].status = "registered" => s.row[d].smoke
  BY DEF Writes, SmokeIn
<1>3. t.overlay \subseteq p
  BY DEF SmokeIn
<1>4. QED BY <1>1, <1>2, <1>3 DEF SmokeIn

(* Stores that decide nothing new are as sound as before.                    *)
LEMMA SmokeSame ==
  ASSUME NEW s \in Store, NEW t \in Store, NEW p, SmokeIn(s, p), t.overlay = s.overlay,
         \A d \in Cand : Same(s.row[d], t.row[d]) \/ t.row[d] = Draft(d)
  PROVE  SmokeIn(t, p)
BY DraftIs DEF SmokeIn, Same

(* More promoted plugins never hurt.                                         *)
LEMMA SmokeMore ==
  ASSUME NEW s, NEW p, NEW q, SmokeIn(s, p), p \subseteq q
  PROVE  SmokeIn(s, q)
BY DEF SmokeIn

(* The empty store is sound.                                                 *)
LEMMA SmokeEmpty == \A p : SmokeIn(EmptyStore, p)
BY DEF SmokeIn, EmptyStore, NoRow

(* Decisions keep a store sound.                                             *)
LEMMA SmokeDecides ==
  ASSUME NEW s \in Store, NEW c \in Cand, NEW p, SmokeIn(s, p)
  PROVE  SmokeIn(Rejected(s, c), p) /\ SmokeIn(Registered(s, c), p)
<1>1. SmokeIn(Rejected(s, c), p)
  BY RejectedIs, SmokeWrites DEF Status
<1>2. SmokeIn(Registered(s, c), p)
  BY RegisteredIs, SmokeWrites DEF Status
<1>3. QED BY <1>1, <1>2

(* A saved smoke test of a promoted plugin keeps a store sound.              *)
LEMMA SmokeSaves ==
  ASSUME NEW s \in Store, NEW c \in Cand, NEW p, SmokeIn(s, p), HowOf[c] \in p
  PROVE  SmokeIn(Smoked(s, c), p)
<1> DEFINE t == Smoked(s, c)
<1>1. /\ t.overlay = s.overlay /\ \A d \in Cand \ {c} : t.row[d] = s.row[d]
      /\ t.row[c].smoke
  BY SmokedIs
<1> HIDE DEF t
<1>2. SmokeIn(t, p)
  BY <1>1 DEF SmokeIn
<1>3. QED BY <1>2 DEF t

(* The overlay and every registered row stand for a smoked plugin that is in *)
(* the tree, in the store and in every copy of it that may be written back.  *)
THEOREM OverlaySmoked == Spec => []SmokeInv
<1>1. Init => SmokeInv
  <2> SUFFICES ASSUME Init PROVE SmokeInv
    OBVIOUS
  <2>1. \A a \in Actor : call[a].copy = EmptyStore /\ call[a].at = "idle"
    BY DEF Init, Idle
  <2>2. QED BY <2>1, SmokeEmpty DEF Init, SmokeInv, At
<1>2. TypeOK /\ SmokeInv /\ [Next]_vars => SmokeInv'
  <2> SUFFICES ASSUME TypeOK, SmokeInv, [Next]_vars PROVE SmokeInv'
    OBVIOUS
  <2>1. /\ store \in Store /\ call \in [Actor -> Call]
        /\ SmokeIn(store, promoted) /\ \A a \in Actor : SmokeIn(call[a].copy, promoted)
        /\ \A a \in Actor : call[a].copy \in Store /\ call[a].of \in Cand
    BY DEF TypeOK, SmokeInv, Call
  <2>2. ASSUME UNCHANGED <<store, promoted>>, NEW a \in Actor, Others(a),
               call'[a].copy \in {call[a].copy, store, EmptyStore}, call'[a].at # "save"
        PROVE  SmokeInv'
    BY <2>1, <2>2, SmokeEmpty DEF SmokeInv, Others, At
  <2>3. ASSUME NEW a \in Actor, LifecycleTick(a) PROVE SmokeInv'
    <3>1. SmokeIn(store', promoted)
      <4>1. CASE UNCHANGED store
        BY <2>1, <4>1
      <4>2. CASE store' = [store EXCEPT !.drafts = @ + 1]
        BY <2>1, <4>2, CountedIs, SmokeSame DEF Same
      <4>3. QED BY <2>3, <4>1, <4>2, Ticks
    <3>2. QED BY <2>1, <2>3, <3>1, Ticks DEF SmokeInv, Others, At
  <2>4. ASSUME NEW a \in Actor, Steps(a) PROVE SmokeInv'
    <3>1. SmokeIn(store', promoted')
      <4>1. CASE DraftLiterature(a)
        <5>1. PICK new \in SUBSET Cand : store' = Stamped(Ingested(store, new))
          BY <4>1 DEF DraftLiterature
        <5>2. SmokeIn(Ingested(store, new), promoted) /\ Ingested(store, new) \in Store
          BY <2>1, IngestedIs, SmokeSame DEF Same
        <5>3. QED BY <4>1, <5>1, <5>2, StampedIs, SmokeSame DEF DraftLiterature
      <4>2. CASE DraftInvention(a)
        <5>1. PICK c \in Cand : store' = [store EXCEPT !.row[c] = Draft(c)]
          BY <2>1, <4>2, HowAssumption DEF DraftInvention, TypeOK, Call
        <5>2. QED BY <2>1, <4>2, <5>1, InventedIs, SmokeSame
                     DEF DraftInvention, Same
      <4>3. CASE Pick(a)
        <5>1. PICK c \in Pickable(store) :
                store' = [store EXCEPT !.row[c].tries = @ + 1, !.ticks = @ + 1]
          BY <4>3 DEF Pick
        <5>2. c \in Cand /\ UNCHANGED promoted
          BY <2>1, <4>3, Picked DEF Pick
        <5>3. /\ store' \in Store /\ store'.overlay = store.overlay
              /\ \A d \in Cand : Same(store.row[d], store'.row[d])
          BY <2>1, <5>1, <5>2, PickedIs
        <5>4. QED BY <2>1, <5>2, <5>3, SmokeSame
      <4>4. CASE NothingToPick(a) \/ Add(a) \/ Author(a) \/ AskToAccept(a) \/ Fails(a)
        BY <2>1, <4>4 DEF NothingToPick, Add, Author, AskToAccept, Fails
      <4>5. CASE RefuseToAdd(a) \/ Accept(a)
        BY <2>1, <4>5, SmokeDecides DEF RefuseToAdd, Accept
      <4>6. CASE Promote(a)
        BY <2>1, <4>6, SmokeMore DEF Promote
      <4>7. CASE SaveSmoked(a)
        <5>1. HowOf[call[a].of] \in promoted
          BY <4>7 DEF SmokeInv, SaveSmoked
        <5>2. SmokeIn(Smoked(call[a].copy, call[a].of), promoted)
          BY <2>1, <5>1, SmokeSaves
        <5>3. QED BY <4>7, <5>2 DEF SaveSmoked
      <4>8. QED BY <2>4, <4>1, <4>2, <4>3, <4>4, <4>5, <4>6, <4>7 DEF Steps
    <3>2. promoted \subseteq promoted' /\ (Promote(a) => HowOf[call[a].of] \in promoted')
      BY <2>4
         DEF Steps, DraftLiterature, DraftInvention, Pick, NothingToPick, Add,
             RefuseToAdd, Author, Promote, SaveSmoked, AskToAccept, Accept,
             Fails
    <3>3. \A b \in Actor : SmokeIn(call'[b].copy, promoted')
      <4>1. SmokeIn(store, promoted') /\ \A b \in Actor : SmokeIn(call[b].copy, promoted')
        BY <2>1, <3>2, SmokeMore
      <4>2. QED BY <2>4, <4>1, Moves, SmokeEmpty DEF Others
    <3>4. \A b \in Actor : call'[b].at = "save" => HowOf[call'[b].of] \in promoted'
      BY <2>4, <3>2, Moves DEF Others, SmokeInv, At
    <3>5. QED BY <3>1, <3>3, <3>4 DEF SmokeInv, At
  <2>5. ASSUME NEW c \in Cand, HumanRegisters(c) \/ HumanRejects(c) \/ HumanReleases(c)
        PROVE  SmokeInv'
    <3>1. SmokeIn(ReleasedFor(store, c), promoted)
      BY <2>1, ReleasedIs, SmokeSame
    <3>2. SmokeIn(store', promoted) /\ UNCHANGED <<call, promoted>>
      BY <2>1, <2>5, <3>1, SmokeDecides
         DEF HumanRegisters, HumanRejects, HumanReleases, Asks
    <3>3. QED BY <3>2 DEF SmokeInv, At
  <2>6. ASSUME NEW a \in Actor, NEW c \in Cand, HumanAuthors(a, c) PROVE SmokeInv'
    BY <2>2, <2>6, Authors
  <2>7. CASE PlannerSelects
    <3>1. SmokeIn(store', promoted)
      BY <2>1, <2>7, IngestedIs, SmokeSame DEF PlannerSelects, Same
    <3>2. QED BY <2>7, <3>1 DEF PlannerSelects, SmokeInv, At
  <2>8. CASE Restart
    <3>1. \A a \in Actor : call'[a].copy = EmptyStore /\ call'[a].at = "idle"
      BY <2>8 DEF Restart, Idle
    <3>2. QED BY <2>1, <2>8, <3>1, SmokeEmpty DEF Restart, SmokeInv, At
  <2>9. CASE UNCHANGED vars
    BY <2>9 DEF vars, SmokeInv, At
  <2>10. QED BY <2>3, <2>4, <2>5, <2>6, <2>7, <2>8, <2>9 DEF Next
<1>3. QED BY <1>1, <1>2, TypeCorrect, PTL DEF Spec

-----------------------------------------------------------------------------
(* While calls do not overlap                                                *)

Single == \A a, b \in Actor : ~At(a, "idle") /\ ~At(b, "idle") => a = b

(* Calm never comes back.                                                    *)
LEMMA CalmBefore == ASSUME [Next]_vars, calm' PROVE calm
<1>1. ASSUME NEW a \in Actor, LifecycleTick(a) \/ Steps(a) PROVE calm
  BY <1>1
     DEF LifecycleTick, ToLifecycle, AskForDrafts, Begins, Steps,
         DraftLiterature, DraftInvention, Pick, NothingToPick, Add, RefuseToAdd,
         Author, Promote, SaveSmoked, AskToAccept, Accept, Fails
<1>2. ASSUME NEW c \in Cand, HumanRegisters(c) \/ HumanRejects(c) \/ HumanReleases(c)
      PROVE  calm
  BY <1>2 DEF HumanRegisters, HumanRejects, HumanReleases, Asks
<1>3. ASSUME NEW a \in Actor, NEW c \in Cand, HumanAuthors(a, c) PROVE calm
  BY <1>3 DEF HumanAuthors, Begins
<1>4. CASE PlannerSelects \/ Restart \/ UNCHANGED vars
  BY <1>4 DEF PlannerSelects, Restart, vars
<1>5. QED BY <1>1, <1>2, <1>3, <1>4 DEF Next

(* While calls have not overlapped, at most one is in flight.                *)
THEOREM OneCallWhileCalm == Spec => [](calm => Single)
<1>1. Init => (calm => Single)
  BY DEF Init, Single, At, Idle
<1>2. TypeOK /\ (calm => Single) /\ [Next]_vars => (calm => Single)'
  <2> SUFFICES ASSUME TypeOK, Single, [Next]_vars, calm' PROVE Single'
    BY CalmBefore
  <2>1. ASSUME NEW a \in Actor, Others(a), ~At(a, "idle") \/ Quiet PROVE Single'
    BY <2>1 DEF Single, Others, At, Quiet
  <2>2. ASSUME NEW a \in Actor, LifecycleTick(a) PROVE Single'
    BY <2>1, <2>2, Ticks DEF Begins
  <2>3. ASSUME NEW a \in Actor, Steps(a) PROVE Single'
    BY <2>1, <2>3, Moves
  <2>4. ASSUME NEW a \in Actor, NEW c \in Cand, HumanAuthors(a, c) PROVE Single'
    BY <2>1, <2>4, Authors DEF Begins
  <2>5. CASE UNCHANGED call
    BY <2>5 DEF Single, At
  <2>6. CASE Restart
    BY <2>6 DEF Restart, Single, At, Idle
  <2>7. QED BY <2>2, <2>3, <2>4, <2>5, <2>6
               DEF Next, HumanRegisters, HumanRejects, HumanReleases, Asks,
                   PlannerSelects, vars
<1>3. QED BY <1>1, <1>2, TypeCorrect, PTL DEF Spec

(* Rows and overlay agree, and what a draft arm has found free still is.     *)
AgreeInv ==
  calm => /\ Agree(store) /\ \A a \in Actor : Agree(call[a].copy)
          /\ \A a \in Actor : At(a, "draft") =>
               \A c \in call[a].free : store.row[c].status = "absent"

(* The empty store agrees with itself.                                       *)
LEMMA AgreeEmpty == Agree(EmptyStore)
BY DEF Agree, EmptyStore, NoRow

(* Stores that decide nothing new agree as before.                           *)
LEMMA AgreeSame ==
  ASSUME NEW s \in Store, NEW t \in Store, Agree(s), t.overlay = s.overlay,
         \A d \in Cand : \/ t.row[d].status = s.row[d].status
                         \/ /\ t.row[d].status = "proposed"
                            /\ s.row[d].status \in {"absent", "proposed"}
  PROVE  Agree(t)
<1>1. \A d \in Cand : t.row[d].status = "registered" <=> s.row[d].status = "registered"
  OBVIOUS
<1>2. Present(s) \subseteq Present(t)
  BY DEF Present
<1>3. QED BY <1>1, <1>2 DEF Agree

(* Decisions keep rows and overlay in agreement.                             *)
LEMMA AgreeDecides ==
  ASSUME NEW s \in Store, NEW c \in Present(s), Agree(s)
  PROVE  Agree(Rejected(s, c)) /\ Agree(Registered(s, c))
<1>0. c \in Cand /\ s.row[c].status # "absent"
  BY DEF Present
<1>1. ASSUME NEW t, NEW status, status # "absent", Writes(s, t, c, status)
      PROVE  Present(t) = Present(s)
  BY <1>0, <1>1 DEF Present, Writes
<1>2. Agree(Rejected(s, c))
  <2> DEFINE t == Rejected(s, c)
  <2>1. Writes(s, t, c, "rejected") /\ t.overlay = s.overlay \ {HowOf[c]}
    BY <1>0, RejectedIs
  <2> HIDE DEF t
  <2>2. Present(t) = Present(s)
    BY <1>1, <2>1
  <2>3. \A h \in t.overlay : \E d \in Cand : HowOf[d] = h /\ t.row[d].status = "registered"
    BY <2>1 DEF Agree, Writes
  <2>4. ASSUME NEW d \in Cand, t.row[d].status = "registered"
        PROVE  HowOf[d] \in t.overlay \/ \E e \in Present(t) \ {d} : HowOf[e] = HowOf[d]
    <3>1. d # c /\ s.row[d].status = "registered"
      BY <2>1, <2>4 DEF Writes
    <3>2. QED BY <2>1, <2>2, <3>1 DEF Agree
  <2>5. Agree(t)
    BY <2>3, <2>4 DEF Agree
  <2>6. QED BY <2>5 DEF t
<1>3. Agree(Registered(s, c))
  <2> DEFINE t == Registered(s, c)
  <2>1. \/ t = s
        \/ Writes(s, t, c, "registered") /\ t.overlay = s.overlay \cup {HowOf[c]}
        \/ /\ \/ Writes(s, t, c, "proposed")
              \/ Writes(s, t, c, "approved_pending_adapter")
           /\ s.row[c].status # "registered" /\ t.overlay = s.overlay
    BY <1>0, RegisteredIs
  <2>2. CASE t = s
    BY <2>2
  <2>3. CASE Writes(s, t, c, "registered") /\ t.overlay = s.overlay \cup {HowOf[c]}
    <3> HIDE DEF t
    <3>1. Present(t) = Present(s)
      BY <1>1, <2>3
    <3>2. t.row[c].status = "registered" /\ \A d \in Cand \ {c} : t.row[d] = s.row[d]
      BY <2>3 DEF Writes
    <3>3. \A h \in t.overlay : \E d \in Cand : HowOf[d] = h /\ t.row[d].status = "registered"
      <4>1. \A d \in Cand : s.row[d].status = "registered" => t.row[d].status = "registered"
        BY <3>2
      <4>2. QED BY <1>0, <2>3, <3>2, <4>1 DEF Agree
    <3>4. ASSUME NEW d \in Cand, t.row[d].status = "registered"
          PROVE  HowOf[d] \in t.overlay \/ \E e \in Present(t) \ {d} : HowOf[e] = HowOf[d]
      <4>1. CASE d = c
        BY <2>3, <4>1
      <4>2. CASE d # c
        BY <2>3, <3>1, <3>2, <3>4, <4>2 DEF Agree
      <4>3. QED BY <4>1, <4>2
    <3>5. Agree(t)
      BY <3>3, <3>4 DEF Agree
    <3>6. QED BY <3>5 DEF t
  <2>4. ASSUME NEW status \in {"proposed", "approved_pending_adapter"},
               Writes(s, t, c, status), s.row[c].status # "registered",
               t.overlay = s.overlay
        PROVE  Agree(t)
    <3> HIDE DEF t
    <3>1. Present(t) = Present(s)
      BY <1>1, <2>4
    <3>2. QED BY <1>0, <2>4, <3>1 DEF Agree, Writes
  <2> HIDE DEF t
  <2>5. Agree(t)
    BY <2>1, <2>2, <2>3, <2>4 DEF t
  <2>6. QED BY <2>5 DEF t
<1>4. QED BY <1>2, <1>3

(* So do new drafts,                                                         *)
LEMMA AgreeDrafts ==
  ASSUME NEW s \in Store, NEW new \in SUBSET Cand, Agree(s)
  PROVE  Agree(Ingested(s, new)) /\ Agree(Stamped(s)) /\ Stamped(Ingested(s, new)) \in Store
         /\ Agree(Stamped(Ingested(s, new)))
<1> DEFINE t == Ingested(s, new)
<1>1. t \in Store /\ Agree(t)
  BY IngestedIs, AgreeSame, DraftIs
<1> HIDE DEF t
<1>2. ASSUME NEW u \in Store, Agree(u) PROVE Stamped(u) \in Store /\ Agree(Stamped(u))
  BY <1>2, StampedIs, AgreeSame DEF Same
<1>3. QED BY <1>1, <1>2 DEF t

(* and what touches one row, but for a draft over a decided one.             *)
LEMMA AgreeTouches ==
  ASSUME NEW s \in Store, NEW c \in Cand, Agree(s)
  PROVE  /\ Agree(Smoked(s, c)) /\ Agree(ReleasedFor(s, c))
         /\ Agree([s EXCEPT !.row[c].tries = @ + 1, !.ticks = @ + 1])
         /\ Agree([s EXCEPT !.drafts = @ + 1])
         /\ s.row[c].status = "absent" => Agree([s EXCEPT !.row[c] = Draft(c)])
<1>1. Agree(Smoked(s, c))
  <2> DEFINE t == Smoked(s, c)
  <2>1. /\ t \in Store /\ t.overlay = s.overlay
        /\ \A d \in Cand : t.row[d].status = s.row[d].status
    BY SmokedIs
  <2> HIDE DEF t
  <2>2. Agree(t)
    BY <2>1, AgreeSame
  <2>3. QED BY <2>2 DEF t
<1>2. Agree(ReleasedFor(s, c))
  BY ReleasedIs, AgreeSame DEF Same
<1>3. Agree([s EXCEPT !.row[c].tries = @ + 1, !.ticks = @ + 1])
  <2>1. PICK t : t = [s EXCEPT !.row[c].tries = @ + 1, !.ticks = @ + 1]
    OBVIOUS
  <2>2. t \in Store /\ t.overlay = s.overlay /\ \A d \in Cand : Same(s.row[d], t.row[d])
    BY <2>1, PickedIs
  <2>3. Agree(t)
    BY <2>2, AgreeSame DEF Same
  <2>4. QED BY <2>1, <2>3
<1>4. Agree([s EXCEPT !.drafts = @ + 1])
  BY CountedIs, AgreeSame
<1>5. s.row[c].status = "absent" => Agree([s EXCEPT !.row[c] = Draft(c)])
  <2> DEFINE t == [s EXCEPT !.row[c] = Draft(c)]
  <2>1. /\ t \in Store /\ t.overlay = s.overlay /\ t.row[c].status = "proposed"
        /\ \A d \in Cand \ {c} : t.row[d] = s.row[d]
    <3>1. t.row[c] = Draft(c)
      BY InventedIs
    <3>2. Draft(c).status = "proposed"
      BY DraftIs
    <3>3. QED BY <3>1, <3>2, InventedIs
  <2> HIDE DEF t
  <2>2. s.row[c].status = "absent" => Agree(t)
    BY <2>1, AgreeSame
  <2>3. QED BY <2>2 DEF t
<1>6. QED BY <1>1, <1>2, <1>3, <1>4, <1>5

(* A free id has no row.                                                     *)
LEMMA FreeIs == Free(store) \subseteq Cand /\ \A c \in Free(store) : store.row[c].status = "absent"
BY HowAssumption DEF Free, Occupied, Present

(* A human's decision leaves absent rows absent.                             *)
LEMMA HumanActs ==
  ASSUME TypeOK, NEW c \in Cand, HumanRegisters(c) \/ HumanRejects(c) \/ HumanReleases(c)
  PROVE  /\ UNCHANGED <<promoted, call, calm>> /\ c \in Present(store)
         /\ store' \in {Registered(store, c), Rejected(store, c), ReleasedFor(store, c)}
         /\ \A d \in Cand \ {c} : store'.row[d] = store.row[d]
<1>1. store \in Store
  BY DEF TypeOK
<1>2. \A d \in Cand \ {c} : /\ Registered(store, c).row[d] = store.row[d]
                            /\ Rejected(store, c).row[d] = store.row[d]
                            /\ ReleasedFor(store, c).row[d] = store.row[d]
  <2>1. \A d \in Cand \ {c} : Registered(store, c).row[d] = store.row[d]
    BY <1>1, RegisteredIs DEF Writes
  <2>2. \A d \in Cand \ {c} : Rejected(store, c).row[d] = store.row[d]
    BY <1>1, RejectedIs DEF Writes
  <2>3. \A d \in Cand \ {c} : ReleasedFor(store, c).row[d] = store.row[d]
    BY <1>1, ReleasedIs
  <2>4. QED BY <2>1, <2>2, <2>3
<1>3. QED BY <1>2 DEF HumanRegisters, HumanRejects, HumanReleases, Asks

(* Rows and overlay agree as long as calls do not overlap.                   *)
THEOREM OverlayAgrees == Spec => []AgreeInv
<1>1. Init => AgreeInv
  <2> SUFFICES ASSUME Init PROVE AgreeInv
    OBVIOUS
  <2>1. \A a \in Actor : call[a].copy = EmptyStore /\ call[a].at = "idle"
    BY DEF Init, Idle
  <2>2. QED BY <2>1, AgreeEmpty DEF Init, AgreeInv, At
<1>2. TypeOK /\ (calm => Single) /\ AgreeInv /\ [Next]_vars => AgreeInv'
  <2> SUFFICES ASSUME TypeOK, calm, Single, AgreeInv, [Next]_vars, calm' PROVE AgreeInv'
    BY CalmBefore DEF AgreeInv
  <2>1. /\ store \in Store /\ call \in [Actor -> Call]
        /\ Agree(store) /\ \A a \in Actor : Agree(call[a].copy)
        /\ \A a \in Actor : /\ call[a].copy \in Store /\ call[a].of \in Cand
                            /\ call[a].free \subseteq Cand
    BY HowAssumption DEF TypeOK, AgreeInv, Call
  <2>2. ASSUME NEW a \in Actor, Others(a), Agree(store'),
               call'[a].copy \in {call[a].copy, store, EmptyStore},
               ~At(a, "idle") \/ Quiet,
               call'[a].at = "draft" => \A c \in call'[a].free : store'.row[c].status = "absent"
        PROVE  AgreeInv'
    <3>1. \A b \in Actor \ {a} : call'[b] = call[b] /\ call'[b].at = "idle"
      BY <2>2 DEF Others, Single, At, Quiet
    <3>2. QED BY <2>1, <2>2, <3>1, AgreeEmpty DEF AgreeInv, At
  <2>3. ASSUME NEW a \in Actor, LifecycleTick(a) PROVE AgreeInv'
    <3>1. Agree(store')
      BY <2>1, <2>3, Ticks, AgreeTouches, HowAssumption
    <3>2. call'[a].at = "draft" => \A c \in call'[a].free : store'.row[c].status = "absent"
      BY <2>1, <2>3, Ticks, FreeIs, CountedIs
    <3>3. QED BY <2>2, <2>3, <3>1, <3>2, Ticks DEF Begins
  <2>4. ASSUME NEW a \in Actor, Steps(a) PROVE AgreeInv'
    <3>1. Agree(store')
      <4>1. CASE DraftLiterature(a)
        <5>1. PICK new \in SUBSET Cand : store' = Stamped(Ingested(store, new))
          BY <4>1 DEF DraftLiterature
        <5>2. QED BY <2>1, <5>1, AgreeDrafts
      <4>2. CASE DraftInvention(a)
        <5>1. PICK c \in call[a].free : store' = [store EXCEPT !.row[c] = Draft(c)]
          BY <4>2 DEF DraftInvention
        <5>2. c \in Cand /\ store.row[c].status = "absent"
          BY <2>1, <4>2, <5>1 DEF DraftInvention, AgreeInv
        <5>3. QED BY <2>1, <5>1, <5>2, AgreeTouches
      <4>3. CASE Pick(a)
        <5>1. PICK c \in Pickable(store) :
                store' = [store EXCEPT !.row[c].tries = @ + 1, !.ticks = @ + 1]
          BY <4>3 DEF Pick
        <5>2. c \in Cand
          BY <2>1, Picked
        <5>3. Agree([store EXCEPT !.row[c].tries = @ + 1, !.ticks = @ + 1])
          BY <2>1, <5>2, AgreeTouches
        <5>4. QED BY <5>1, <5>3
      <4>4. CASE NothingToPick(a) \/ Add(a) \/ Author(a) \/ AskToAccept(a) \/ Fails(a)
                 \/ Promote(a)
        BY <2>1, <4>4
           DEF NothingToPick, Add, Author, AskToAccept, Fails, Promote
      <4>5. CASE RefuseToAdd(a) \/ Accept(a)
        BY <2>1, <4>5, AgreeDecides DEF RefuseToAdd, Accept, There
      <4>6. CASE SaveSmoked(a)
        BY <2>1, <4>6, AgreeTouches DEF SaveSmoked
      <4>7. QED BY <2>4, <4>1, <4>2, <4>3, <4>4, <4>5, <4>6 DEF Steps
    <3>2. QED BY <2>2, <2>4, <3>1, Moves
  <2>5. ASSUME NEW c \in Cand, HumanRegisters(c) \/ HumanRejects(c) \/ HumanReleases(c)
        PROVE  AgreeInv'
    <3>1. Agree(store')
      BY <2>1, <2>5, HumanActs, AgreeDecides, AgreeTouches
    <3>2. \A d \in Cand : store.row[d].status = "absent" => store'.row[d].status = "absent"
      BY <2>5, HumanActs DEF Present
    <3>3. QED BY <2>1, <2>5, <3>1, <3>2, HumanActs DEF AgreeInv, At
  <2>6. ASSUME NEW a \in Actor, NEW c \in Cand, HumanAuthors(a, c) PROVE AgreeInv'
    BY <2>1, <2>2, <2>6, Authors DEF Begins
  <2>7. CASE PlannerSelects
    <3>1. PICK c \in Cand \ Invent : store' = Ingested(store, {c})
      BY <2>7 DEF PlannerSelects
    <3>2. Agree(store')
      BY <2>1, <3>1, AgreeDrafts
    <3>3. \A d \in Invent : store'.row[d] = store.row[d]
      BY <2>1, <3>1, IngestedIs, HowAssumption
    <3>4. \A a \in Actor : call[a].free \subseteq Invent
      BY DEF TypeOK, Call
    <3>5. QED BY <2>1, <2>7, <3>2, <3>3, <3>4 DEF PlannerSelects, AgreeInv, At
  <2>8. CASE Restart
    <3>1. \A a \in Actor : call'[a].copy = EmptyStore /\ call'[a].at = "idle"
      BY <2>8 DEF Restart, Idle
    <3>2. QED BY <2>1, <2>8, <3>1, AgreeEmpty DEF Restart, AgreeInv, At
  <2>9. CASE UNCHANGED vars
    BY <2>9 DEF vars, AgreeInv, At
  <2>10. QED BY <2>3, <2>4, <2>5, <2>6, <2>7, <2>8, <2>9 DEF Next
<1>3. QED BY <1>1, <1>2, TypeCorrect, OneCallWhileCalm, PTL DEF Spec

(* What the manager materializes from has been smoked and is in the tree;    *)
(* and while calls do not overlap the rows say the same.                     *)
THEOREM OverlayIsSound == Spec => []OverlaySound
<1>1. TypeOK /\ SmokeInv /\ AgreeInv => OverlaySound
  BY DEF SmokeInv, SmokeIn, AgreeInv, OverlaySound, Smoke
<1>2. QED BY <1>1, TypeCorrect, OverlaySmoked, OverlayAgrees, PTL

-----------------------------------------------------------------------------
(* The human gate                                                            *)

(* Invented drafts that have left the human's desk, but for a rejection.     *)
Vetted(s, r) ==
  \A c \in Invent :
    \/ s.row[c].status \in {"absent", "rejected"}
    \/ s.row[c].status = "proposed" /\ s.row[c].review
    \/ c \in r

NoneWaits(s) ==
  \A c \in Invent : s.row[c].status = "proposed" => ~s.row[c].review

GateInv ==
  calm =>
    /\ Vetted(store, released) /\ \A a \in Actor : Vetted(call[a].copy, released)
    /\ \A a \in Actor : At(a, "draft") => NoneWaits(store)
    /\ \A a \in Actor : call[a].at \notin {"idle", "draft", "tick"} /\ call[a].then = "accept"
                          => call[a].of \notin Invent \/ call[a].of \in released

(* Nothing has passed the human in an empty store.                           *)
LEMMA VettedEmpty == \A r : Vetted(EmptyStore, r)
BY HowAssumption DEF Vetted, EmptyStore, NoRow

(* A later set of released drafts is larger.                                 *)
LEMMA VettedMore == ASSUME NEW s, NEW r, NEW q, Vetted(s, r), r \subseteq q PROVE Vetted(s, q)
BY DEF Vetted

(* Rows released by a human, or waiting, or rejected, are vetted.            *)
LEMMA VettedSame ==
  ASSUME NEW s, NEW t, NEW r, Vetted(s, r),
         \A d \in Cand : \/ t.row[d] = s.row[d]
                         \/ /\ t.row[d].status = s.row[d].status
                            /\ t.row[d].review = s.row[d].review
                         \/ d \in r \/ d \notin Invent
                         \/ t.row[d].status = "rejected"
                         \/ t.row[d].status = "proposed" /\ t.row[d].review
  PROVE  Vetted(t, r)
<1> SUFFICES ASSUME NEW d \in Invent
             PROVE  \/ t.row[d].status \in {"absent", "rejected"}
                    \/ t.row[d].status = "proposed" /\ t.row[d].review
                    \/ d \in r
  BY DEF Vetted
<1>1. /\ d \in Cand
      /\ \/ s.row[d].status \in {"absent", "rejected"}
         \/ s.row[d].status = "proposed" /\ s.row[d].review
         \/ d \in r
  BY HowAssumption DEF Vetted
<1>2. QED BY <1>1

(* Deciding a released draft, or one from papers, is vetted.                 *)
LEMMA VettedDecides ==
  ASSUME NEW s \in Store, NEW c \in Cand, NEW r, Vetted(s, r), c \in r \/ c \notin Invent
  PROVE  Vetted(Registered(s, c), r)
<1> DEFINE t == Registered(s, c)
<1>1. \A d \in Cand \ {c} : t.row[d] = s.row[d]
  BY RegisteredIs DEF Writes
<1> HIDE DEF t
<1>2. Vetted(t, r)
  BY <1>1, VettedSame
<1>3. QED BY <1>2 DEF t

(* So is rejecting any draft.                                                *)
LEMMA VettedRejects ==
  ASSUME NEW s \in Store, NEW c \in Cand, NEW r, Vetted(s, r)
  PROVE  Vetted(Rejected(s, c), r)
<1> DEFINE t == Rejected(s, c)
<1>1. t.row[c].status = "rejected" /\ \A d \in Cand \ {c} : t.row[d] = s.row[d]
  BY RejectedIs DEF Writes
<1> HIDE DEF t
<1>2. Vetted(t, r)
  BY <1>1, VettedSame
<1>3. QED BY <1>2 DEF t

(* New drafts are vetted, and their stamp too if none waits for a human.     *)
LEMMA VettedDrafts ==
  ASSUME NEW s \in Store, NEW new \in SUBSET (Cand \ Invent), NEW r, Vetted(s, r)
  PROVE  /\ Vetted(Ingested(s, new), r)
         /\ NoneWaits(s) => NoneWaits(Ingested(s, new))
         /\ NoneWaits(s) => Vetted(Stamped(Ingested(s, new)), r)
<1> DEFINE t == Ingested(s, new)
<1>1. t \in Store /\ \A d \in Invent : t.row[d] = s.row[d]
  BY IngestedIs, HowAssumption
<1> HIDE DEF t
<1>2. Vetted(t, r) /\ (NoneWaits(s) => NoneWaits(t))
  BY <1>1, HowAssumption DEF Vetted, NoneWaits
<1> DEFINE u == Stamped(t)
<1>3. \A d \in Cand : Same(t.row[d], u.row[d])
  BY <1>1, StampedIs
<1> HIDE DEF u
<1>4. NoneWaits(t) => Vetted(u, r)
  BY <1>2, <1>3, HowAssumption DEF Vetted, NoneWaits, Same
<1>5. QED BY <1>2, <1>4 DEF t, u

(* Operations on one row keep a store vetted.                                *)
LEMMA VettedTouches ==
  ASSUME NEW s \in Store, NEW c \in Cand, NEW r, Vetted(s, r)
  PROVE  /\ Vetted(Smoked(s, c), r)
         /\ c \in r => Vetted(ReleasedFor(s, c), r)
         /\ Vetted([s EXCEPT !.row[c].tries = @ + 1, !.ticks = @ + 1], r)
         /\ Vetted([s EXCEPT !.drafts = @ + 1], r)
         /\ Vetted([s EXCEPT !.row[c] = Draft(c)], r)
<1>1. Vetted(Smoked(s, c), r)
  <2> DEFINE t == Smoked(s, c)
  <2>1. \A d \in Cand : t.row[d].status = s.row[d].status /\ t.row[d].review = s.row[d].review
    BY SmokedIs
  <2> HIDE DEF t
  <2>2. Vetted(t, r)
    BY <2>1, VettedSame
  <2>3. QED BY <2>2 DEF t
<1>2. c \in r => Vetted(ReleasedFor(s, c), r)
  <2> DEFINE t == ReleasedFor(s, c)
  <2>1. \A d \in Cand \ {c} : t.row[d] = s.row[d]
    BY ReleasedIs
  <2> HIDE DEF t
  <2>2. c \in r => Vetted(t, r)
    BY <2>1, VettedSame
  <2>3. QED BY <2>2 DEF t
<1>3. Vetted([s EXCEPT !.row[c].tries = @ + 1, !.ticks = @ + 1], r)
  <2>1. PICK t : t = [s EXCEPT !.row[c].tries = @ + 1, !.ticks = @ + 1]
    OBVIOUS
  <2>2. \A d \in Cand : Same(s.row[d], t.row[d]) /\ t.row[d].review = s.row[d].review
    BY ZenonT(30), <2>1, PickedIs
  <2>3. Vetted(t, r)
    BY <2>2, VettedSame DEF Same
  <2>4. QED BY <2>1, <2>3
<1>4. Vetted([s EXCEPT !.drafts = @ + 1], r)
  BY CountedIs DEF Vetted
<1>5. Vetted([s EXCEPT !.row[c] = Draft(c)], r)
  <2> DEFINE t == [s EXCEPT !.row[c] = Draft(c)]
  <2>1. /\ t.row[c] = Draft(c)
        /\ \A d \in Cand \ {c} : t.row[d] = s.row[d]
    <3>1. t.row[c] = Draft(c)
      BY InventedIs
    <3>2. \A d \in Cand \ {c} : t.row[d] = s.row[d]
      BY InventedIs
    <3>3. QED BY <3>1, <3>2
  <2>2. t.row[c].status = "proposed" /\ (t.row[c].review \/ c \notin Invent)
    <3>1. Draft(c).status = "proposed" /\ (Draft(c).review \/ c \notin Invent)
      BY DraftIs
    <3>2. QED BY <2>1, <3>1
  <2> HIDE DEF t
  <2>3. Vetted(t, r)
    BY <2>1, <2>2, VettedSame
  <2>4. QED BY <2>3 DEF t
<1>6. QED BY <1>1, <1>2, <1>3, <1>4, <1>5

(* Only a draft arm makes an invented draft wait.                            *)
LEMMA DecisionsWaitNot ==
  ASSUME NEW s \in Store, NEW c \in Cand, NoneWaits(s)
  PROVE  /\ NoneWaits(Registered(s, c)) /\ NoneWaits(Rejected(s, c))
         /\ NoneWaits(ReleasedFor(s, c))
<1>1. NoneWaits(Registered(s, c))
  <2> DEFINE t == Registered(s, c)
  <2>1. t = s \/ (~t.row[c].review /\ \A d \in Cand \ {c} : t.row[d] = s.row[d])
    BY RegisteredIs DEF Writes
  <2> HIDE DEF t
  <2>2. NoneWaits(t)
    BY <2>1, HowAssumption DEF NoneWaits
  <2>3. QED BY <2>2 DEF t
<1>2. NoneWaits(Rejected(s, c))
  <2> DEFINE t == Rejected(s, c)
  <2>1. ~t.row[c].review /\ \A d \in Cand \ {c} : t.row[d] = s.row[d]
    BY RejectedIs DEF Writes
  <2> HIDE DEF t
  <2>2. NoneWaits(t)
    BY <2>1, HowAssumption DEF NoneWaits
  <2>3. QED BY <2>2 DEF t
<1>3. NoneWaits(ReleasedFor(s, c))
  <2> DEFINE t == ReleasedFor(s, c)
  <2>1. \A d \in Cand : Same(s.row[d], t.row[d])
    BY ReleasedIs
  <2> HIDE DEF t
  <2>2. NoneWaits(t)
    BY <2>1, HowAssumption DEF NoneWaits, Same
  <2>3. QED BY <2>2 DEF t
<1>4. QED BY <1>1, <1>2, <1>3

(* A call that returns once its plugin is saved does nothing else.           *)
ThenInv == \A a \in Actor : call[a].then = "idle" => call[a].at \in {"patch", "save"}

(* A human's authoring ends with its save: no decision follows.              *)
THEOREM AuthorsReturn == Spec => []ThenInv
<1>1. Init => ThenInv
  BY DEF Init, ThenInv, Idle
<1>2. TypeOK /\ ThenInv /\ [Next]_vars => ThenInv'
  <2> SUFFICES ASSUME TypeOK, ThenInv, [Next]_vars PROVE ThenInv'
    OBVIOUS
  <2>0. \A a \in Actor : call[a].then \in {"idle", "accept"}
    BY DEF TypeOK, Call
  <2>1. ASSUME NEW a \in Actor, LifecycleTick(a) PROVE ThenInv'
    BY <2>0, <2>1, Ticks DEF ThenInv, Others, Begins, At
  <2>2. ASSUME NEW a \in Actor, Steps(a) PROVE ThenInv'
    <3>1. call'[a] \in Call
      BY <2>2, TypeKept DEF TypeOK
    <3>2. call'[a].then = "idle" => call'[a].at \in {"patch", "save"}
      BY <2>0, <2>2, <3>1, Moves DEF ThenInv, At, Call
    <3>3. QED BY <2>2, <3>2, Moves DEF ThenInv, Others
  <2>3. ASSUME NEW a \in Actor, NEW c \in Cand, HumanAuthors(a, c) PROVE ThenInv'
    BY <2>3, Authors DEF ThenInv, Others
  <2>4. CASE UNCHANGED call
    BY <2>4 DEF ThenInv
  <2>5. CASE Restart
    BY <2>5 DEF Restart, ThenInv, Idle
  <2>6. QED BY <2>1, <2>2, <2>3, <2>4, <2>5
               DEF Next, HumanRegisters, HumanRejects, HumanReleases, Asks,
                   PlannerSelects, vars
<1>3. QED BY <1>1, <1>2, TypeCorrect, PTL DEF Spec

(* No model authors or registers an invented draft a human has not released. *)
THEOREM GateHolds == Spec => []HumanGate
<1>1. Init => GateInv
  <2> SUFFICES ASSUME Init PROVE GateInv
    OBVIOUS
  <2>1. \A a \in Actor : call[a].copy = EmptyStore /\ call[a].at = "idle"
    BY DEF Init, Idle
  <2>2. QED BY <2>1, VettedEmpty DEF Init, GateInv, At
<1>2. TypeOK /\ ThenInv /\ (calm => Single) /\ GateInv /\ [Next]_vars => GateInv'
  <2> SUFFICES ASSUME TypeOK, ThenInv, calm, Single, GateInv, [Next]_vars, calm'
               PROVE  GateInv'
    BY CalmBefore DEF GateInv
  <2>1. /\ store \in Store /\ call \in [Actor -> Call]
        /\ Vetted(store, released) /\ \A a \in Actor : Vetted(call[a].copy, released)
        /\ \A a \in Actor : /\ call[a].copy \in Store /\ call[a].of \in Cand
                            /\ call[a].free \subseteq Cand
    BY HowAssumption DEF TypeOK, GateInv, Call
  <2>2. ASSUME NEW a \in Actor, Others(a), UNCHANGED released, Vetted(store', released),
               call'[a].copy \in {call[a].copy, store, EmptyStore},
               ~At(a, "idle") \/ Quiet,
               call'[a].at = "draft" => NoneWaits(store'),
               call'[a].at \notin {"idle", "draft", "tick"} /\ call'[a].then = "accept"
                 => call'[a].of \notin Invent \/ call'[a].of \in released
        PROVE  GateInv'
    <3>1. \A b \in Actor \ {a} : call'[b] = call[b] /\ call'[b].at = "idle"
      BY <2>2 DEF Others, Single, At, Quiet
    <3>2. \A b \in Actor : Vetted(call'[b].copy, released)
      BY <2>1, <2>2, <3>1, VettedEmpty
    <3>3. QED BY <2>1, <2>2, <3>1, <3>2 DEF GateInv, At
  <2>3. ASSUME NEW a \in Actor, LifecycleTick(a) PROVE GateInv'
    <3>1. Vetted(store', released)
      BY ZenonT(30), <2>1, <2>3, Ticks, VettedTouches, HowAssumption
    <3>2. call'[a].at = "draft" => NoneWaits(store')
      BY <2>1, <2>3, Ticks, CountedIs, HowAssumption DEF NoneWaits, Proposed
    <3>3. QED BY <2>2, <2>3, <3>1, <3>2, Ticks DEF Begins, history
  <2>4. ASSUME NEW a \in Actor, Steps(a) PROVE GateInv'
    <3>0. call[a].at \notin {"idle", "draft", "tick"} /\ call[a].then = "accept"
            => call[a].of \notin Invent \/ call[a].of \in released
      BY DEF GateInv
    <3>1. Vetted(store', released)
      <4>1. CASE DraftLiterature(a)
        <5>1. PICK new \in SUBSET (Cand \ Invent) : store' = Stamped(Ingested(store, new))
          BY <4>1 DEF DraftLiterature
        <5>2. NoneWaits(store)
          BY <4>1 DEF DraftLiterature, GateInv
        <5>3. QED BY <2>1, <5>1, <5>2, VettedDrafts
      <4>2. CASE DraftInvention(a)
        <5>1. PICK c \in Cand : store' = [store EXCEPT !.row[c] = Draft(c)]
          BY <2>1, <4>2 DEF DraftInvention
        <5>2. QED BY <2>1, <5>1, VettedTouches
      <4>3. CASE Pick(a)
        <5>1. PICK c \in Pickable(store) :
                store' = [store EXCEPT !.row[c].tries = @ + 1, !.ticks = @ + 1]
          BY <4>3 DEF Pick
        <5>2. c \in Cand
          BY <2>1, Picked
        <5>3. Vetted([store EXCEPT !.row[c].tries = @ + 1, !.ticks = @ + 1], released)
          BY <2>1, <5>2, VettedTouches
        <5>4. QED BY <5>1, <5>3
      <4>4. CASE NothingToPick(a) \/ Add(a) \/ Author(a) \/ AskToAccept(a) \/ Fails(a)
                 \/ Promote(a)
        BY <2>1, <4>4
           DEF NothingToPick, Add, Author, AskToAccept, Fails, Promote
      <4>5. CASE RefuseToAdd(a)
        BY <2>1, <4>5, VettedRejects DEF RefuseToAdd
      <4>6. CASE Accept(a)
        <5>1. call[a].of \notin Invent \/ call[a].of \in released
          BY <3>0, <4>6 DEF Accept, At, ThenInv, TypeOK, Call
        <5>2. QED BY <2>1, <4>6, <5>1, VettedRejects, VettedDecides DEF Accept
      <4>7. CASE SaveSmoked(a)
        BY <2>1, <4>7, VettedTouches DEF SaveSmoked
      <4>8. QED BY <2>4, <4>1, <4>2, <4>3, <4>4, <4>5, <4>6, <4>7 DEF Steps
    <3>2. UNCHANGED released
      BY <2>4
         DEF Steps, DraftLiterature, DraftInvention, Pick, NothingToPick, Add,
             RefuseToAdd, Author, Promote, SaveSmoked, AskToAccept, Accept,
             Fails, history
    <3>3. Pick(a) => call'[a].of \notin Invent \/ call'[a].of \in released
      <4>1. ASSUME NEW c \in Pickable(store)
            PROVE  c \notin Invent \/ c \in released
        BY <2>1, Picked DEF Vetted
      <4>2. QED BY <4>1, PickOf
    <3>4. call'[a].at \notin {"idle", "draft", "tick"} /\ call'[a].then = "accept"
            => call'[a].of \notin Invent \/ call'[a].of \in released
      <4>1. call'[a].at \in CallLabel
        BY <2>4, TypeKept DEF TypeOK, Call, CallLabel
      <4>2. QED BY <2>4, <3>0, <3>3, <4>1, Moves DEF CallLabel
    <3>5. QED BY <2>2, <2>4, <3>1, <3>2, <3>4, Moves
  <2>5. ASSUME NEW c \in Cand, HumanRegisters(c) \/ HumanRejects(c) \/ HumanReleases(c)
        PROVE  GateInv'
    <3>1. Vetted(store', released')
      <4>1. CASE HumanRegisters(c)
        BY <2>1, <4>1, VettedMore, VettedDecides DEF HumanRegisters
      <4>2. CASE HumanRejects(c)
        BY <2>1, <4>2, VettedRejects DEF HumanRejects
      <4>3. CASE HumanReleases(c)
        <5>1. Vetted(store, released') /\ c \in released'
          BY <2>1, <4>3, VettedMore DEF HumanReleases
        <5>2. QED BY <2>1, <4>3, <5>1, VettedTouches DEF HumanReleases
      <4>4. QED BY <2>5, <4>1, <4>2, <4>3
    <3>2. released \subseteq released'
      BY <2>5 DEF HumanRegisters, HumanRejects, HumanReleases
    <3>3. UNCHANGED call /\ (NoneWaits(store) => NoneWaits(store'))
      BY <2>1, <2>5, HumanActs, DecisionsWaitNot
    <3>4. \A a \in Actor : Vetted(call'[a].copy, released')
      BY <2>1, <3>2, <3>3, VettedMore
    <3>5. QED BY <3>1, <3>2, <3>3, <3>4 DEF GateInv, At
  <2>6. ASSUME NEW a \in Actor, NEW c \in Cand, HumanAuthors(a, c) PROVE GateInv'
    BY <2>1, <2>2, <2>6, Authors DEF Begins, history
  <2>7. CASE PlannerSelects
    <3>1. PICK c \in Cand \ Invent : store' = Ingested(store, {c})
      BY <2>7 DEF PlannerSelects
    <3>2. Vetted(store', released) /\ (NoneWaits(store) => NoneWaits(store'))
      BY <2>1, <3>1, VettedDrafts
    <3>3. QED BY <2>7, <3>2 DEF PlannerSelects, history, GateInv, At
  <2>8. CASE Restart
    <3>1. \A a \in Actor : call'[a].copy = EmptyStore /\ call'[a].at = "idle"
      BY <2>8 DEF Restart, Idle
    <3>2. QED BY <2>1, <2>8, <3>1, VettedEmpty DEF Restart, history, GateInv, At
  <2>9. CASE UNCHANGED vars
    BY <2>9 DEF vars, history, GateInv, At
  <2>10. QED BY <2>3, <2>4, <2>5, <2>6, <2>7, <2>8, <2>9 DEF Next
<1>3. GateInv => HumanGate
  BY DEF GateInv, Vetted, HumanGate, At
<1>4. QED BY <1>1, <1>2, <1>3, TypeCorrect, AuthorsReturn, OneCallWhileCalm, PTL
             DEF Spec

-----------------------------------------------------------------------------
(* A human's rejection                                                       *)

Stands(s, f) == \A c \in f : s.row[c].status = "rejected"

FinalInv ==
  /\ Stands(store, final)
  /\ \A a \in Actor : call[a].at \in {"patch", "save"} => Stands(call[a].copy, final)
  /\ \A a \in Actor : call[a].at \notin {"idle", "draft", "tick"} /\ call[a].then = "accept"
                        => call[a].of \notin final
  /\ \A a \in Actor : call[a].at = "draft" => call[a].free \cap final = {}

(* Rejections stand while rejected rows keep their status.                   *)
LEMMA StandsSame ==
  ASSUME NEW s, NEW t, NEW f \in SUBSET Cand, Stands(s, f),
         \A d \in Cand : \/ t.row[d].status = s.row[d].status
                         \/ s.row[d].status # "rejected" \/ d \notin f
  PROVE  Stands(t, f)
BY DEF Stands

(* New drafts leave rejections alone.                                        *)
LEMMA StandsDrafts ==
  ASSUME NEW s \in Store, NEW new \in SUBSET Cand, NEW f \in SUBSET Cand, Stands(s, f)
  PROVE  Stands(Ingested(s, new), f) /\ Stands(Stamped(Ingested(s, new)), f)
<1> DEFINE t == Ingested(s, new)
<1>1. t \in Store /\ \A d \in Cand : t.row[d] = s.row[d] \/ s.row[d].status # "rejected"
  BY IngestedIs
<1> HIDE DEF t
<1>2. Stands(t, f)
  BY <1>1, StandsSame
<1> DEFINE u == Stamped(t)
<1>3. \A d \in Cand : u.row[d].status = t.row[d].status
  BY <1>1, StampedIs DEF Same
<1> HIDE DEF u
<1>4. Stands(u, f)
  BY <1>2, <1>3, StandsSame
<1>5. QED BY <1>2, <1>4 DEF t, u

(* So does what touches one row, unless it decides a rejected one.           *)
LEMMA StandsTouches ==
  ASSUME NEW s \in Store, NEW c \in Cand, NEW f \in SUBSET Cand, Stands(s, f)
  PROVE  /\ Stands(Smoked(s, c), f) /\ Stands(ReleasedFor(s, c), f)
         /\ Stands([s EXCEPT !.row[c].tries = @ + 1, !.ticks = @ + 1], f)
         /\ Stands([s EXCEPT !.drafts = @ + 1], f)
         /\ c \notin f => Stands([s EXCEPT !.row[c] = Draft(c)], f)
         /\ c \notin f => Stands(Registered(s, c), f)
         /\ Stands(Rejected(s, c), f \cup {c})
<1>1. Stands(Smoked(s, c), f)
  <2> DEFINE t == Smoked(s, c)
  <2>1. \A d \in Cand : t.row[d].status = s.row[d].status
    BY SmokedIs
  <2> HIDE DEF t
  <2>2. Stands(t, f)
    BY <2>1, StandsSame
  <2>3. QED BY <2>2 DEF t
<1>2. Stands(ReleasedFor(s, c), f)
  <2> DEFINE t == ReleasedFor(s, c)
  <2>1. \A d \in Cand : Same(s.row[d], t.row[d])
    BY ReleasedIs
  <2> HIDE DEF t
  <2>2. Stands(t, f)
    BY <2>1, StandsSame DEF Same
  <2>3. QED BY <2>2 DEF t
<1>3. Stands([s EXCEPT !.row[c].tries = @ + 1, !.ticks = @ + 1], f)
  <2>1. PICK t : t = [s EXCEPT !.row[c].tries = @ + 1, !.ticks = @ + 1]
    OBVIOUS
  <2>2. \A d \in Cand : Same(s.row[d], t.row[d])
    BY <2>1, PickedIs
  <2>3. Stands(t, f)
    BY <2>2, StandsSame DEF Same
  <2>4. QED BY <2>1, <2>3
<1>4. Stands([s EXCEPT !.drafts = @ + 1], f)
  BY CountedIs DEF Stands
<1>5. c \notin f => Stands([s EXCEPT !.row[c] = Draft(c)], f)
  <2> DEFINE t == [s EXCEPT !.row[c] = Draft(c)]
  <2>1. \A d \in Cand \ {c} : t.row[d] = s.row[d]
    BY InventedIs
  <2> HIDE DEF t
  <2>2. c \notin f => Stands(t, f)
    BY <2>1, StandsSame
  <2>3. QED BY <2>2 DEF t
<1>6. c \notin f => Stands(Registered(s, c), f)
  <2> DEFINE t == Registered(s, c)
  <2>1. \A d \in Cand \ {c} : t.row[d] = s.row[d]
    BY RegisteredIs DEF Writes
  <2> HIDE DEF t
  <2>2. c \notin f => Stands(t, f)
    BY <2>1, StandsSame
  <2>3. QED BY <2>2 DEF t
<1>7. Stands(Rejected(s, c), f \cup {c})
  <2> DEFINE t == Rejected(s, c)
  <2>1. t.row[c].status = "rejected" /\ \A d \in Cand \ {c} : t.row[d] = s.row[d]
    BY RejectedIs DEF Writes
  <2> HIDE DEF t
  <2>2. Stands(t, f \cup {c})
    BY <2>1 DEF Stands
  <2>3. QED BY <2>2 DEF t
<1>8. QED BY <1>1, <1>2, <1>3, <1>4, <1>5, <1>6, <1>7

(* What stands for many stands for fewer.                                    *)
LEMMA StandsLess ==
  ASSUME NEW s, NEW f, NEW g, Stands(s, f), g \subseteq f
  PROVE  Stands(s, g)
BY DEF Stands

(* A human's rejection stands against all calls begun later.                 *)
THEOREM RejectionHolds == Spec => []RejectionStands
<1>1. Init => FinalInv
  BY DEF Init, FinalInv, Stands, Idle
<1>2. TypeOK /\ ThenInv /\ FinalInv /\ [Next]_vars => FinalInv'
  <2> SUFFICES ASSUME TypeOK, ThenInv, FinalInv, [Next]_vars PROVE FinalInv'
    OBVIOUS
  <2>1. /\ store \in Store /\ call \in [Actor -> Call] /\ final \in SUBSET Cand
        /\ Stands(store, final)
        /\ \A a \in Actor : /\ call[a].copy \in Store /\ call[a].of \in Cand
                            /\ call[a].then \in {"idle", "accept"}
                            /\ call[a].free \subseteq Cand
    BY HowAssumption DEF TypeOK, FinalInv, Call
  <2>2. ASSUME NEW a \in Actor, Others(a), UNCHANGED final, Stands(store', final),
               call'[a].at \in {"patch", "save"} => Stands(call'[a].copy, final),
               call'[a].at \notin {"idle", "draft", "tick"} /\ call'[a].then = "accept"
                 => call'[a].of \notin final,
               call'[a].at = "draft" => call'[a].free \cap final = {}
        PROVE  FinalInv'
    BY <2>2 DEF FinalInv, Others
  <2>3. ASSUME NEW a \in Actor, LifecycleTick(a) PROVE FinalInv'
    <3>1. Stands(store', final)
      BY <2>1, <2>3, Ticks, StandsTouches, HowAssumption
    <3>2. call'[a].at = "draft" => call'[a].free \cap final = {}
      BY <2>1, <2>3, Ticks, FreeIs DEF Stands
    <3>3. QED BY <2>2, <2>3, <3>1, <3>2, Ticks DEF history
  <2>4. ASSUME NEW a \in Actor, Steps(a) PROVE FinalInv'
    <3>0. call[a].at \notin {"idle", "draft", "tick"} /\ call[a].then = "accept"
            => call[a].of \notin final
      BY DEF FinalInv
    <3>1. Stands(store', final)
      <4>1. CASE DraftLiterature(a)
        <5>1. PICK new \in SUBSET Cand : store' = Stamped(Ingested(store, new))
          BY <4>1 DEF DraftLiterature
        <5>2. QED BY <2>1, <5>1, StandsDrafts
      <4>2. CASE DraftInvention(a)
        <5>1. PICK c \in call[a].free : store' = [store EXCEPT !.row[c] = Draft(c)]
          BY <4>2 DEF DraftInvention
        <5>2. c \in Cand /\ c \notin final
          BY <2>1, <4>2, <5>1 DEF DraftInvention, FinalInv, At
        <5>3. QED BY <2>1, <5>1, <5>2, StandsTouches
      <4>3. CASE Pick(a)
        <5>1. PICK c \in Pickable(store) :
                store' = [store EXCEPT !.row[c].tries = @ + 1, !.ticks = @ + 1]
          BY <4>3 DEF Pick
        <5>2. c \in Cand
          BY <2>1, Picked
        <5>3. Stands([store EXCEPT !.row[c].tries = @ + 1, !.ticks = @ + 1], final)
          BY <2>1, <5>2, StandsTouches
        <5>4. QED BY <5>1, <5>3
      <4>4. CASE NothingToPick(a) \/ Add(a) \/ Author(a) \/ AskToAccept(a) \/ Fails(a)
                 \/ Promote(a)
        BY <2>1, <4>4
           DEF NothingToPick, Add, Author, AskToAccept, Fails, Promote
      <4>5. ASSUME NEW c \in Cand PROVE Stands(Rejected(store, c), final)
        <5>1. Stands(Rejected(store, c), final \cup {c})
          BY <2>1, StandsTouches
        <5>2. QED BY <5>1, StandsLess
      <4>6. CASE RefuseToAdd(a)
        BY <2>1, <4>5, <4>6 DEF RefuseToAdd
      <4>7. CASE Accept(a)
        <5>1. call[a].of \notin final
          BY <2>1, <3>0, <4>7 DEF Accept, At, ThenInv
        <5>2. QED BY <2>1, <4>5, <4>7, <5>1, StandsTouches DEF Accept
      <4>8. CASE SaveSmoked(a)
        <5>1. Stands(call[a].copy, final)
          BY <4>8 DEF SaveSmoked, At, FinalInv
        <5>2. QED BY <2>1, <4>8, <5>1, StandsTouches DEF SaveSmoked
      <4>9. QED BY <2>4, <4>1, <4>2, <4>3, <4>4, <4>6, <4>7, <4>8 DEF Steps
    <3>2. UNCHANGED final
      BY <2>4
         DEF Steps, DraftLiterature, DraftInvention, Pick, NothingToPick, Add,
             RefuseToAdd, Author, Promote, SaveSmoked, AskToAccept, Accept,
             Fails, history
    <3>3. Pick(a) => call'[a].of \notin final
      <4>1. ASSUME NEW c \in Pickable(store) PROVE c \notin final
        BY <2>1, Picked DEF Stands
      <4>2. QED BY <4>1, PickOf
    <3>4. call'[a].at \notin {"idle", "draft", "tick"} /\ call'[a].then = "accept"
            => call'[a].of \notin final
      <4>1. call'[a].at \in CallLabel
        BY <2>4, TypeKept DEF TypeOK, Call, CallLabel
      <4>2. QED BY <2>4, <3>0, <3>3, <4>1, Moves DEF CallLabel
    <3>5. call'[a].at \in {"patch", "save"} => Stands(call'[a].copy, final)
      BY <2>1, <2>4, Moves DEF FinalInv, At
    <3>6. QED BY <2>2, <2>4, <3>1, <3>2, <3>4, <3>5, Moves
  <2>5. ASSUME NEW c \in Cand, HumanRegisters(c) \/ HumanRejects(c) \/ HumanReleases(c)
        PROVE  FinalInv'
    <3>1. UNCHANGED call
      BY <2>5, HumanActs
    <3>2. CASE HumanRegisters(c)
      <4>1. Stands(store, final \ {c})
        BY <2>1, StandsLess
      <4>2. Stands(Registered(store, c), final \ {c})
        BY <2>1, <4>1, StandsTouches
      <4>3. final' = final \ {c} /\ store' = Registered(store, c)
        BY <3>2 DEF HumanRegisters
      <4>4. QED BY <3>1, <4>2, <4>3 DEF FinalInv, Stands
    <3>3. CASE HumanRejects(c) /\ Quiet
      <4>1. Stands(Rejected(store, c), final \cup {c})
        BY <2>1, StandsTouches
      <4>2. final' = final \cup {c} /\ store' = Rejected(store, c)
        BY <3>3 DEF HumanRejects
      <4>3. \A a \in Actor : call[a].at = "idle"
        BY <3>3 DEF Quiet, At
      <4>4. QED BY <3>1, <4>1, <4>2, <4>3 DEF FinalInv
    <3>4. CASE HumanRejects(c) /\ ~Quiet
      <4>1. Stands(Rejected(store, c), final \cup {c})
        BY <2>1, StandsTouches
      <4>2. Stands(store', final) /\ UNCHANGED final
        BY <3>4, <4>1, StandsLess DEF HumanRejects
      <4>3. QED BY <3>1, <4>2 DEF FinalInv
    <3>5. CASE HumanReleases(c)
      <4>1. Stands(store', final) /\ UNCHANGED final
        BY <2>1, <3>5, StandsTouches DEF HumanReleases
      <4>2. QED BY <3>1, <4>1 DEF FinalInv
    <3>6. QED BY <2>5, <3>2, <3>3, <3>4, <3>5
  <2>6. ASSUME NEW a \in Actor, NEW c \in Cand, HumanAuthors(a, c) PROVE FinalInv'
    BY <2>1, <2>2, <2>6, Authors DEF history
  <2>7. CASE PlannerSelects
    <3>1. Stands(store', final)
      BY <2>1, <2>7, StandsDrafts DEF PlannerSelects
    <3>2. QED BY <2>7, <3>1 DEF PlannerSelects, history, FinalInv
  <2>8. CASE Restart
    <3>1. \A a \in Actor : call'[a].at = "idle"
      BY <2>8 DEF Restart, Idle
    <3>2. QED BY <2>1, <2>8, <3>1 DEF Restart, history, FinalInv
  <2>9. CASE UNCHANGED vars
    BY <2>9 DEF vars, history, FinalInv
  <2>10. QED BY <2>3, <2>4, <2>5, <2>6, <2>7, <2>8, <2>9 DEF Next
<1>3. FinalInv => RejectionStands
  BY DEF FinalInv, Stands, RejectionStands
<1>4. QED BY <1>1, <1>2, <1>3, TypeCorrect, AuthorsReturn, PTL DEF Spec

(* An invented draft waits for its human, and a rejection stands.            *)
THEOREM HumansDecide == Spec => []HumanDecides
<1>1. HumanGate /\ RejectionStands => HumanDecides
  BY DEF HumanDecides
<1>2. QED BY <1>1, GateHolds, RejectionHolds, PTL
=============================================================================
