---------------------------- MODULE SearchProofs ----------------------------
(* Proofs about the search for better experiments, for every number of     *)
(* requests, iterations, seeds, nodes and mishaps: about the iterations    *)
(* (Iteration), and about the tree whose nodes they are (TreeSearch).      *)
EXTENDS Iteration, TreeSearch, FiniteSetTheorems, SequenceTheorems, WellFoundedInduction, TLAPS

(***************************************************************************)
(* Iterations                                                              *)
(***************************************************************************)

(* The status a call's copy has at each of its places. *)
StatusAt(l) ==
  CASE l \in {"feedback", "plan"} -> "created"
    [] l = "propose" -> "feedback_ready"
    [] l \in {"approve", "start", "reject"} -> "waiting_approval"
    [] l \in {"seed", "wait", "ids", "poll", "finish"} -> "running"
    [] l = "compare" -> "comparing"
    [] l \in {"decide", "complete"} -> "waiting_decision"
    [] OTHER -> "absent"

Early == {"absent", "created", "feedback_ready", "waiting_approval"}
Weighed == {"comparing", "waiting_decision", "completed"}
Submits == {"seed", "wait", "ids"}

(* A session, in its row or in a call's copy, names runs of its iteration:   *)
(* none before it is approved, enough that were seen completed once they     *)
(* have been weighed.                                                        *)
SessionFits(i, s) ==
  /\ s.ids \subseteq RunsOf(i)
  /\ s.status \in Early => s.ids = {}
  /\ s.status \in Weighed => Cardinality(s.ids \cap shown) >= MinSeeds

(* What the place of a call says of it. *)
RequestFits(q) ==
  /\ q.copy.status = StatusAt(q.at)
  /\ SessionFits(q.of, q.copy)
  /\ q.batch \subseteq RunsOf(q.of)
  /\ q.good \subseteq q.batch \cap shown
  /\ q.at \in {"approve", "start"} => q.batch = {}
  /\ q.at \in Submits => q.copy.ids = {}
  /\ q.at \in {"start"} \cup Submits => q.of \in approvals
  /\ q.at = "wait" => \E n \in q.batch : \A y \in q.batch : y <= n
  /\ q.at = "poll" => q.batch \subseteq q.copy.ids
  /\ q.at = "finish" => q.batch = q.copy.ids

SessionsFit == \A i \in Iter : SessionFits(i, session[i])
RequestsFit == \A c \in Requester : RequestFits(request[c])
DecisionsFit ==
  /\ Completed(Submitted) \subseteq shown
  /\ \A i \in Iter :
       /\ decisions[i] > 0 => Cardinality(RunsOf(i) \cap shown) >= MinSeeds
       /\ RunsOf(i) # {} => i \in approvals
  /\ \A c \in Requester : ~At(c, "idle") => session[Of(c)].status # "absent"

(* On an iteration that nothing has disturbed there is at most one call, its *)
(* copy is the row, and the runs are those that the row names or that the    *)
(* call is submitting.                                                       *)
Undisturbed(i) ==
  /\ \A b, c \in Requester :
       ~At(b, "idle") /\ ~At(c, "idle") /\ Of(b) = i /\ Of(c) = i => b = c
  /\ \A c \in Requester :
       ~At(c, "idle") /\ Of(c) = i =>
         /\ request[c].copy = session[i]
         /\ RunsOf(i) = IF request[c].at \in Submits THEN request[c].batch
                        ELSE session[i].ids
  /\ (\A c \in Requester : At(c, "idle") \/ Of(c) # i) => RunsOf(i) = session[i].ids
AllUndisturbed == \A i \in Iter \ disturbed : Undisturbed(i)
IterInv == IterTypeOK /\ SessionsFit /\ RequestsFit /\ DecisionsFit /\ AllUndisturbed

-----------------------------------------------------------------------------
(* The records that stand for nothing have their types. *)
LEMMA NothingTyped ==
  /\ NoSession \in Session /\ NoRequest \in Request
  /\ NoRequest.at = "idle" /\ NoRequest.copy = NoSession
  /\ NoRequest.batch = {} /\ NoRequest.good = {}
<1>1. NoSession \in Session
  BY DEF NoSession, Session, Status
<1>2. (CHOOSE i \in Iter : TRUE) \in Iter
  BY IterExists
<1>3. NoRequest \in Request
  BY <1>1, <1>2 DEF NoRequest, Request, RequestLabel
<1>4. QED BY <1>1, <1>3 DEF NoRequest

(* It fits, whatever the runs. *)
LEMMA NothingFits == RequestFits(NoRequest)
BY NothingTyped
   DEF RequestFits, SessionFits, NoSession, StatusAt, Submits, Weighed

(* The runs are numbered in the order of their submission. *)
LEMMA RunsTyped ==
  ASSUME IterTypeOK
  PROVE  /\ Len(runs) \in 0..MaxRuns
         /\ runs \in [1..Len(runs) -> [of : Iter, status : RunStatus]]
         /\ Submitted = 1..Len(runs) /\ Submitted \subseteq Run
<1>1. PICK n \in 0..MaxRuns : runs \in [1..n -> [of : Iter, status : RunStatus]]
  BY DEF IterTypeOK
<1>2. n \in Nat /\ MaxRuns \in Nat
  BY IterationBounds
<1>3. Len(runs) = n
  BY <1>1, <1>2
<1>4. QED BY <1>1, <1>2, <1>3 DEF Submitted, Run

(* Sets of runs are finite, and more of them are no fewer. *)
LEMMA MoreRuns ==
  ASSUME NEW S \in SUBSET Run, NEW T \in SUBSET Run, S \subseteq T
  PROVE  Cardinality(S) \in Nat /\ Cardinality(T) \in Nat /\ Cardinality(S) <= Cardinality(T)
<1>1. IsFiniteSet(Run)
  BY IterationBounds, FS_Interval DEF Run
<1>2. IsFiniteSet(T)
  BY <1>1, FS_Subset
<1>3. QED BY <1>2, FS_Subset, FS_CardinalityType

(* Runs, those seen completed and approvals only grow. *)
Grown ==
  /\ \A i \in Iter : RunsOf(i) \subseteq RunsOf(i)'
  /\ shown \subseteq shown' /\ approvals \subseteq approvals'

LEMMA SessionStillFits ==
  ASSUME Grown, NEW i \in Iter, NEW s \in Session, SessionFits(i, s)
  PROVE  SessionFits(i, s)'
<1>1. s.ids \subseteq RunsOf(i)'
  BY DEF SessionFits, Grown
<1>2. s.ids \cap shown \subseteq s.ids \cap shown' /\ s.ids \subseteq Run
  BY DEF Grown, Session
<1>3. Cardinality(s.ids \cap shown) <= Cardinality(s.ids \cap shown')
      /\ Cardinality(s.ids \cap shown) \in Nat /\ Cardinality(s.ids \cap shown') \in Nat
  BY <1>2, MoreRuns
<1>4. MinSeeds \in Nat
  BY IterationBounds
<1>5. s.status \in Weighed => Cardinality(s.ids \cap shown') >= MinSeeds
  BY <1>3, <1>4 DEF SessionFits
<1>6. QED BY <1>1, <1>5 DEF SessionFits

LEMMA RequestStillFits ==
  ASSUME Grown, NEW q \in Request, RequestFits(q)
  PROVE  RequestFits(q)'
<1>1. q.of \in Iter /\ q.copy \in Session
  BY DEF Request
<1>2. SessionFits(q.of, q.copy)'
  BY <1>1, SessionStillFits DEF RequestFits
<1>3. /\ q.batch \subseteq RunsOf(q.of)'
      /\ q.good \subseteq q.batch \cap shown'
      /\ q.of \in approvals => q.of \in approvals'
  BY <1>1 DEF RequestFits, Grown
<1>4. QED BY <1>2, <1>3 DEF RequestFits

(* A call of c on iteration i leaves the record r of the call and the row s. *)
Moves(c, i, r, s) ==
  /\ r \in Request /\ request' = [request EXCEPT ![c] = r]
  /\ s \in Session /\ session' = [session EXCEPT ![i] = s]
  /\ RequestFits(r)' /\ SessionFits(i, s)'
  /\ r.at # "idle" => r.of = i /\ s.status # "absent"
  /\ s.status = "absent" => session[i].status = "absent"
  /\ i \notin disturbed' =>
       /\ RunsOf(i)' = IF r.at \in Submits THEN r.batch ELSE s.ids
       /\ r.at # "idle" => r.copy = s
       /\ session[i].status \in Closed => s = session[i]

(* It may only be on an iteration no other is on, or disturb it, and leaves  *)
(* the runs of the others alone.                                             *)
Works(c, i) ==
  /\ At(c, "idle") \/ Of(c) = i
  /\ i \notin disturbed' => \A b \in Requester \ {c} : At(b, "idle") \/ Of(b) # i
  /\ \A j \in Iter \ {i} : RunsOf(j)' = RunsOf(j)
  /\ disturbed \subseteq disturbed'

LEMMA MovesKeep ==
  ASSUME IterInv, Grown, NEW c \in Requester, NEW i \in Iter, NEW r, NEW s,
         Moves(c, i, r, s), Works(c, i)
  PROVE  /\ session' \in [Iter -> Session] /\ request' \in [Requester -> Request]
         /\ SessionsFit' /\ RequestsFit' /\ AllUndisturbed'
         /\ \A b \in Requester : ~At(b, "idle")' => session'[request'[b].of].status # "absent"
<1>1. /\ session \in [Iter -> Session] /\ request \in [Requester -> Request]
      /\ SessionsFit /\ RequestsFit /\ AllUndisturbed
      /\ \A b \in Requester : ~At(b, "idle") => session[Of(b)].status # "absent"
  BY DEF IterInv, IterTypeOK, DecisionsFit
<1>2. /\ session' \in [Iter -> Session] /\ request' \in [Requester -> Request]
      /\ \A j \in Iter : session'[j] = IF j = i THEN s ELSE session[j]
      /\ \A b \in Requester : request'[b] = IF b = c THEN r ELSE request[b]
  BY <1>1 DEF Moves
<1>3. SessionsFit'
  <2> SUFFICES ASSUME NEW j \in Iter PROVE SessionFits(j, session[j])'
    BY DEF SessionsFit
  <2>1. CASE j = i
    BY <2>1, <1>2 DEF Moves, SessionFits
  <2>2. CASE j # i
    <3>1. PICK x \in Session : x = session[j]
      BY <1>1
    <3>2. SessionFits(j, x)'
      BY <3>1, <1>1, SessionStillFits DEF SessionsFit
    <3>3. session'[j] = x
      BY <3>1, <2>2, <1>2
    <3>4. QED BY <3>2, <3>3 DEF SessionFits
  <2>3. QED BY <2>1, <2>2
<1>4. RequestsFit'
  <2> SUFFICES ASSUME NEW b \in Requester PROVE RequestFits(request[b])'
    BY DEF RequestsFit
  <2>1. CASE b = c
    BY <2>1, <1>2 DEF Moves, RequestFits, SessionFits
  <2>2. CASE b # c
    <3>1. PICK q \in Request : q = request[b]
      BY <1>1
    <3>2. RequestFits(q)'
      BY <3>1, <1>1, RequestStillFits DEF RequestsFit
    <3>3. request'[b] = q
      BY <3>1, <2>2, <1>2
    <3>4. QED BY <3>2, <3>3 DEF RequestFits, SessionFits
  <2>3. QED BY <2>1, <2>2
<1>5. AllUndisturbed'
  <2> SUFFICES ASSUME NEW j \in Iter, j \notin disturbed' PROVE Undisturbed(j)'
    BY DEF AllUndisturbed
  <2>1. CASE j # i
    <3>1. Undisturbed(j)
      BY <1>1 DEF AllUndisturbed, Works
    <3>2. \A b \in Requester : /\ ~At(b, "idle") /\ Of(b) = j =>
                                    request'[b] = request[b]
                               /\ ~At(b, "idle")' /\ Of(b)' = j => request'[b] = request[b]
      BY <2>1, <1>2 DEF Moves, Works, At, Of
    <3>3. session'[j] = session[j] /\ RunsOf(j)' = RunsOf(j)
      BY <2>1, <1>2 DEF Works
    <3>4. QED BY <3>1, <3>2, <3>3 DEF Undisturbed, At, Of
  <2>2. CASE j = i
    <3>1. \A b \in Requester \ {c} : At(b, "idle")' \/ Of(b)' # i
      BY <2>2, <1>2 DEF Works, At, Of
    <3>2. /\ request'[c] = r /\ session'[i] = s
          /\ RunsOf(i)' = IF r.at \in Submits THEN r.batch ELSE s.ids
          /\ r.at # "idle" => r.copy = s /\ r.of = i
      BY <2>2, <1>2 DEF Moves
    <3>3. "idle" \notin Submits
      BY DEF Submits
    <3>4. \A a, b \in Requester :
            ~At(a, "idle")' /\ ~At(b, "idle")' /\ Of(a)' = i /\ Of(b)' = i => a = b
      BY <3>1
    <3>5. \A b \in Requester : ~At(b, "idle")' /\ Of(b)' = i =>
            /\ request'[b].copy = session'[i]
            /\ RunsOf(i)' = IF request'[b].at \in Submits THEN request'[b].batch
                            ELSE session'[i].ids
      BY <3>1, <3>2 DEF At
    <3>6. (\A b \in Requester : At(b, "idle")' \/ Of(b)' # i) => RunsOf(i)' = session'[i].ids
      BY <3>2, <3>3 DEF At, Of
    <3>7. QED BY <2>2, <3>4, <3>5, <3>6 DEF Undisturbed
  <2>3. QED BY <2>1, <2>2
<1>6. \A b \in Requester : ~At(b, "idle")' => session'[request'[b].of].status # "absent"
  <2> SUFFICES ASSUME NEW b \in Requester, ~At(b, "idle")'
               PROVE  session'[request'[b].of].status # "absent"
    OBVIOUS
  <2>1. CASE b = c
    BY <2>1, <1>2 DEF Moves, At
  <2>2. CASE b # c
    <3>1. session[Of(b)].status # "absent" /\ request'[b] = request[b] /\ Of(b) \in Iter
      BY <2>2, <1>1, <1>2 DEF At, Of, Request
    <3>2. QED BY <3>1, <1>2 DEF Of, Moves
  <2>3. QED BY <2>1, <2>2
<1>7. QED BY <1>2, <1>3, <1>4, <1>5, <1>6

(* What a call under way has. *)
LEMMA CallHas ==
  ASSUME IterInv, NEW c \in Requester, ~At(c, "idle")
  PROVE  /\ request[c] \in Request /\ RequestFits(request[c])
         /\ Of(c) \in Iter /\ Of(c) = request[c].of
         /\ request[c].copy \in Session /\ SessionFits(Of(c), request[c].copy)
         /\ request[c].copy.status = StatusAt(request[c].at)
         /\ session[Of(c)] \in Session /\ session[Of(c)].status # "absent"
         /\ SessionFits(Of(c), session[Of(c)])
         /\ Of(c) \notin disturbed =>
              /\ request[c].copy = session[Of(c)]
              /\ RunsOf(Of(c)) = IF request[c].at \in Submits THEN request[c].batch
                                 ELSE session[Of(c)].ids
              /\ \A b \in Requester \ {c} : At(b, "idle") \/ Of(b) # Of(c)
<1>1. request[c] \in Request /\ RequestFits(request[c])
  BY DEF IterInv, IterTypeOK, RequestsFit
<1>2. Of(c) \in Iter /\ Of(c) = request[c].of /\ request[c].copy \in Session
  BY <1>1 DEF Of, Request
<1>3. SessionFits(Of(c), request[c].copy) /\ request[c].copy.status = StatusAt(request[c].at)
  BY <1>1, <1>2 DEF RequestFits
<1>4. session[Of(c)] \in Session /\ SessionFits(Of(c), session[Of(c)])
      /\ session[Of(c)].status # "absent"
  BY <1>2 DEF IterInv, IterTypeOK, SessionsFit, DecisionsFit
<1>5. Of(c) \notin disturbed => Undisturbed(Of(c))
  BY <1>2 DEF IterInv, AllUndisturbed
<1>6. QED BY <1>1, <1>2, <1>3, <1>4, <1>5 DEF Undisturbed

(* A closed status is not the status of any call's copy. *)
LEMMA CopyOpen == \A l : StatusAt(l) \notin Closed
BY DEF StatusAt, Closed

(* Nothing has grown, but all of it is still there. *)
LEMMA SameGrown ==
  ASSUME UNCHANGED <<runs, shown, approvals>>
  PROVE  Grown /\ \A j \in Iter : RunsOf(j)' = RunsOf(j)
BY DEF Grown, RunsOf, Submitted

LEMMA WorksAlone ==
  ASSUME IterInv, NEW c \in Requester, ~At(c, "idle"), disturbed \subseteq disturbed',
         \A j \in Iter \ {Of(c)} : RunsOf(j)' = RunsOf(j)
  PROVE  Works(c, Of(c))
BY CallHas DEF Works

(* A step that goes on with the record r of the call, and leaves the row.    *)
LEMMA GoesOn ==
  ASSUME IterInv, NEW c \in Requester, ~At(c, "idle"), NEW i \in Iter, i = Of(c),
         NEW r \in Request,
         request' = [request EXCEPT ![c] = r], UNCHANGED session,
         RequestFits(r)', Grown, disturbed \subseteq disturbed',
         r.at # "idle" => r.of = i /\ r.copy = request[c].copy,
         i \notin disturbed' =>
           RunsOf(i)' = IF r.at \in Submits THEN r.batch ELSE session[i].ids
  PROVE  \E q, s : Moves(c, i, q, s)
<1>1. PICK s : s = session[Of(c)]
  OBVIOUS
<1>2. s \in Session /\ s.status # "absent" /\ Of(c) \in Iter /\ SessionFits(Of(c), s)
      /\ (Of(c) \notin disturbed => request[c].copy = s)
  BY <1>1, CallHas
<1>3. session' = [session EXCEPT ![Of(c)] = s]
  BY <1>1, <1>2 DEF IterInv, IterTypeOK
<1>5. SessionFits(i, s)'
  <2>1. SessionFits(i, s)
    BY <1>2
  <2>2. QED BY <2>1, <1>2, SessionStillFits
<1>7. i \notin disturbed' =>
       /\ RunsOf(i)' = IF r.at \in Submits THEN r.batch ELSE s.ids
       /\ r.at # "idle" => r.copy = s
       /\ session[i].status \in Closed => s = session[i]
  BY <1>1, <1>2
<1>8. Moves(c, i, r, s)
  <2>1. session' = [session EXCEPT ![i] = s]
    BY <1>3
  <2>2. r.at # "idle" => r.of = i /\ s.status # "absent"
    BY <1>2
  <2>3. s.status = "absent" => session[i].status = "absent"
    BY <1>2
  <2>4. QED BY <1>2, <1>5, <1>7, <2>1, <2>2, <2>3 DEF Moves
<1>9. QED BY <1>8

(* A step that writes the row s and goes on, or returns. *)
LEMMA SaveMoves ==
  ASSUME IterInv, NEW c \in Requester, ~At(c, "idle"), NEW i \in Iter, i = Of(c),
         NEW s \in Session, s.status # "absent", NEW to \in RequestLabel,
         session' = [session EXCEPT ![i] = s],
         NEW r, r = IF to = "idle" THEN NoRequest
                    ELSE [request[c] EXCEPT !.at = to, !.copy = s],
         request' = [request EXCEPT ![c] = r],
         UNCHANGED <<runs, shown, approvals>>, disturbed \subseteq disturbed',
         SessionFits(i, s), to # "idle" => RequestFits(r),
         i \notin disturbed' =>
           RunsOf(i) = IF to \in Submits THEN request[c].batch ELSE s.ids
  PROVE  \E q, u : Moves(c, i, q, u)
<1>1. request[c] \in Request /\ Of(c) = request[c].of
  BY CallHas
<1>2. /\ r \in Request /\ r.at = to
      /\ to # "idle" => r.copy = s /\ r.of = i /\ r.batch = request[c].batch
  BY <1>1, NothingTyped DEF Request
<1>3. Grown /\ \A j \in Iter : RunsOf(j)' = RunsOf(j)
  BY SameGrown
<1>4. RequestFits(r)
  BY NothingFits
<1>5. RequestFits(r)' /\ SessionFits(i, s)'
  BY <1>2, <1>3, <1>4, RequestStillFits, SessionStillFits
<1>6. i \notin disturbed' => session[i].status \notin Closed
  BY CallHas, CopyOpen
<1>7. "idle" \notin Submits
  BY DEF Submits
<1>8. i \notin disturbed' => RunsOf(i)' = IF r.at \in Submits THEN r.batch ELSE s.ids
  BY <1>2, <1>3, <1>7
<1>9. Moves(c, i, r, s)
  BY <1>2, <1>5, <1>6, <1>8 DEF Moves
<1>10. QED BY <1>9

(* The copy itself, saved with a status that fits it.                        *)
LEMMA CopySaved ==
  ASSUME IterInv, NEW c \in Requester, ~At(c, "idle"), NEW i \in Iter, i = Of(c),
         NEW t \in Status \ {"absent"}, NEW to \in RequestLabel,
         Save(c, t, to), UNCHANGED <<runs, shown, approvals>>,
         disturbed \subseteq disturbed',
         t \in Early => request[c].copy.status \in Early,
         t \in Weighed => request[c].copy.status \in Weighed,
         to # "idle" =>
           /\ t = StatusAt(to) /\ to \in {"propose", "seed"}
           /\ to = "seed" => request[c].at = "start",
         i \notin disturbed' => request[c].at \notin Submits \/ request[c].batch = {}
  PROVE  \E q, u : Moves(c, i, q, u)
<1>1. /\ request[c] \in Request /\ RequestFits(request[c])
      /\ request[c].copy \in Session /\ SessionFits(i, request[c].copy)
      /\ request[c].of = i
  BY CallHas
<1>2. PICK x \in Session : x = request[c].copy
  BY <1>1
<1>3. PICK s : s = [x EXCEPT !.status = t]
  OBVIOUS
<1>4. s \in Session /\ s.ids = x.ids /\ s.status = t
  BY <1>3 DEF Session
<1>5. SaveAs(c, t, x, to)
  BY <1>2 DEF Save
<1>6. SessionFits(i, s)
  BY <1>1, <1>2, <1>4 DEF SessionFits
<1>7. ASSUME to # "idle"
      PROVE  RequestFits([request[c] EXCEPT !.at = to, !.copy = s])
  <2>1. PICK q : q = [request[c] EXCEPT !.at = to, !.copy = s]
    OBVIOUS
  <2>2. /\ q.at = to /\ q.copy = s /\ q.of = i /\ q.batch = request[c].batch
        /\ q.good = request[c].good
    BY <1>1, <2>1 DEF Request
  <2>3. q.copy.status = StatusAt(q.at) /\ SessionFits(q.of, q.copy)
    BY <2>2, <1>4, <1>6, <1>7
  <2>4. to = "seed" => x.ids = {} /\ i \in approvals
    BY <1>1, <1>2 DEF RequestFits, SessionFits, StatusAt, Early
  <2>5. RequestFits(q)
    BY <2>2, <2>3, <2>4, <1>1, <1>4, <1>7 DEF RequestFits, Submits
  <2>6. QED BY <2>1, <2>5
<1>8. ASSUME i \notin disturbed'
      PROVE  RunsOf(i) = IF to \in Submits THEN request[c].batch ELSE s.ids
  <2>1. i \notin disturbed
    BY <1>8
  <2>2. RunsOf(i) = x.ids
    <3>1. request[c].at \in Submits => x.ids = {}
      BY <1>1, <1>2 DEF RequestFits
    <3>2. QED BY <2>1, <3>1, <1>2, <1>8, CallHas
  <2>3. to \in Submits => to = "seed"
    BY DEF Submits
  <2>4. to = "seed" => x.ids = {} /\ request[c].batch = {}
    BY <1>1, <1>2 DEF RequestFits, SessionFits, StatusAt, Early
  <2>5. QED BY <2>2, <2>3, <2>4, <1>4
<1>9. PICK r : r = IF to = "idle" THEN NoRequest
                   ELSE [request[c] EXCEPT !.at = to, !.copy = s]
  OBVIOUS
<1>10. session' = [session EXCEPT ![i] = s] /\ request' = [request EXCEPT ![c] = r]
  BY <1>3, <1>5, <1>9, CallHas DEF SaveAs, IterInv, IterTypeOK, Request
<1>11. (to # "idle" => RequestFits(r)) /\ s.status # "absent"
  BY <1>4, <1>7, <1>9
<1>12. QED BY <1>4, <1>6, <1>8, <1>9, <1>10, <1>11, SaveMoves

(* A call that changes nothing else returns. *)
LEMMA Replies ==
  ASSUME IterInv, NEW c \in Requester, ~At(c, "idle"), NEW i \in Iter, i = Of(c),
         Reply(c), request[c].at \notin Submits,
         UNCHANGED <<session, runs, shown, approvals, disturbed>>
  PROVE  \E q, s : Moves(c, i, q, s)
<1>1. Grown /\ \A j \in Iter : RunsOf(j)' = RunsOf(j)
  BY SameGrown
<1>2. PICK r \in Request : r = NoRequest
  BY NothingTyped
<1>3. RequestFits(r)' /\ r.at = "idle" /\ r.at \notin Submits
  BY <1>1, <1>2, NothingFits, NothingTyped, RequestStillFits DEF Submits
<1>4. i \notin disturbed' => RunsOf(i)' = session[i].ids
  BY <1>1, CallHas
<1>5. QED BY <1>1, <1>2, <1>3, <1>4, GoesOn DEF Reply

(* A run submitted adds to those of its iteration. *)
LEMMA RunAdded ==
  ASSUME IterTypeOK, NEW i \in Iter, NEW n, n = Len(runs) + 1, n \in Run,
         runs' = Append(runs, [of |-> i, status |-> "active"])
  PROVE  /\ n \notin Submitted /\ \A y \in Submitted : y <= n
         /\ runs' \in [1..n -> [of : Iter, status : RunStatus]]
         /\ Submitted' = Submitted \cup {n}
         /\ \A x \in Submitted : runs'[x] = runs[x]
         /\ runs'[n] = [of |-> i, status |-> "active"]
         /\ RunsOf(i)' = RunsOf(i) \cup {n}
         /\ \A j \in Iter \ {i} : RunsOf(j)' = RunsOf(j)
<1>1. PICK e : e = [of |-> i, status |-> "active"]
  OBVIOUS
<1>2. /\ runs \in [1..Len(runs) -> [of : Iter, status : RunStatus]] /\ Len(runs) \in Nat
      /\ Submitted = 1..Len(runs) /\ e \in [of : Iter, status : RunStatus] /\ e.of = i
  BY <1>1, RunsTyped, IterationBounds DEF RunStatus
<1>3. runs \in Seq([of : Iter, status : RunStatus])
  BY ZenonT(30), <1>2, SeqDef
<1>4. /\ runs' \in [1..n -> [of : Iter, status : RunStatus]]
      /\ \A x \in 1..Len(runs) : runs'[x] = runs[x]
      /\ runs'[n] = e
  <2>1. runs' = Append(runs, e)
    BY <1>1
  <2>2. /\ Append(runs, e) \in Seq([of : Iter, status : RunStatus])
        /\ Len(Append(runs, e)) = n
        /\ \A x \in 1..Len(runs) : Append(runs, e)[x] = runs[x]
        /\ Append(runs, e)[n] = e
    BY <1>2, <1>3, AppendProperties
  <2>3. Append(runs, e) \in [1..n -> [of : Iter, status : RunStatus]]
    BY <2>2, LenProperties
  <2>4. QED BY <2>1, <2>2, <2>3
<1>5. Submitted' = Submitted \cup {n} /\ n \notin Submitted /\ \A y \in Submitted : y <= n
  BY <1>2, <1>4 DEF Submitted
<1>6. \A j \in Iter : RunsOf(j)' = {x \in Submitted \cup {n} : runs'[x].of = j}
  BY <1>5 DEF RunsOf
<1>7. \A j \in Iter : RunsOf(j)' = IF j = i THEN RunsOf(j) \cup {n} ELSE RunsOf(j)
  BY <1>2, <1>4, <1>5, <1>6 DEF RunsOf
<1>8. QED BY <1>1, <1>2, <1>4, <1>5, <1>7

(* Every step of a call moves. *)
LEMMA CallMoves ==
  ASSUME IterInv, NEW c \in Requester, CallStep(c) \/ PollFails(c), NEW i \in Iter, i = Of(c)
  PROVE  ~At(c, "idle") /\ Grown /\ Works(c, i) /\ \E q, s : Moves(c, i, q, s)
<1> DEFINE Goal == ~At(c, "idle") /\ Grown /\ Works(c, i) /\ \E q, s : Moves(c, i, q, s)
<1> DEFINE Same == UNCHANGED <<runs, shown, approvals>> /\ disturbed \subseteq disturbed'
<1>k. ASSUME ~At(c, "idle"), Grown, disturbed \subseteq disturbed',
             \A j \in Iter \ {i} : RunsOf(j)' = RunsOf(j), \E q, s : Moves(c, i, q, s)
      PROVE  Goal
  BY <1>k, WorksAlone
<1>s. ASSUME ~At(c, "idle"), Same, \E q, s : Moves(c, i, q, s)
      PROVE  Goal
  BY <1>s, <1>k, SameGrown
<1>c. ASSUME ~At(c, "idle")
      PROVE  /\ request[c] \in Request /\ RequestFits(request[c])
             /\ request[c].copy \in Session /\ SessionFits(i, request[c].copy)
             /\ request[c].of = i
             /\ request[c].copy.status = StatusAt(request[c].at)
             /\ request \in [Requester -> Request]
             /\ session[i] \in Session /\ SessionFits(i, session[i])
             /\ i \notin disturbed =>
                  /\ request[c].copy = session[i]
                  /\ RunsOf(i) = IF request[c].at \in Submits THEN request[c].batch
                                 ELSE session[i].ids
  BY <1>c, CallHas DEF IterInv, IterTypeOK
<1> SUFFICES Goal
  OBVIOUS
<1> HIDE DEF Goal
<1>1. CASE AnalyzeFeedback(c)
  <2>1. /\ request[c].at = "feedback" /\ Same
        /\ Save(c, "feedback_ready", "propose") \/ Save(c, "failed", "idle")
    BY <1>1 DEF AnalyzeFeedback, At, runVars
  <2>2. \E q, s : Moves(c, i, q, s)
    BY <2>1, <1>c, CopySaved
       DEF StatusAt, Early, Weighed, Submits, Status, RequestLabel, At
  <2>3. QED BY <2>1, <2>2, <1>s DEF At
<1>2. CASE Propose(c)
  <2>1. request[c].at = "propose" /\ Same
    BY <1>2 DEF Propose, At, runVars
  <2>2. PICK t \in {"waiting_approval", "stopped_no_recommendation", "failed"} : Save(c, t, "idle")
    BY <1>2 DEF Propose
  <2>3. \E q, s : Moves(c, i, q, s)
    BY <2>1, <2>2, <1>c, CopySaved
       DEF StatusAt, Early, Weighed, Submits, Status, RequestLabel, At
  <2>4. QED BY <2>1, <2>3, <1>s DEF At
<1>3. CASE ProposeFromPlan(c)
  <2>1. request[c].at = "plan" /\ Same /\ Save(c, "waiting_approval", "idle")
    BY <1>3 DEF ProposeFromPlan, At, runVars
  <2>2. \E q, s : Moves(c, i, q, s)
    BY <2>1, <1>c, CopySaved
       DEF StatusAt, Early, Weighed, Submits, Status, RequestLabel, At
  <2>3. QED BY <2>1, <2>2, <1>s DEF At
<1>4. CASE SaveApproval(c)
  <2>1. /\ request[c].at = "approve" /\ request' = [request EXCEPT ![c].at = "start"]
        /\ approvals' = approvals \cup {i}
        /\ UNCHANGED <<session, runs, shown, disturbed>>
    BY <1>4 DEF SaveApproval, Step, At, runVars
  <2>2. ~At(c, "idle")
    BY <2>1 DEF At
  <2>3. Grown /\ \A j \in Iter : RunsOf(j)' = RunsOf(j)
    BY <2>1 DEF Grown, RunsOf, Submitted
  <2>4. PICK p \in Request : p = request[c]
    BY <2>2, <1>c
  <2>5. PICK r : r = [p EXCEPT !.at = "start"]
    OBVIOUS
  <2>6. /\ r \in Request /\ request' = [request EXCEPT ![c] = r]
        /\ r.at = "start" /\ r.of = i /\ r.copy = p.copy /\ r.batch = p.batch
        /\ r.good = p.good
    BY <2>1, <2>2, <2>4, <2>5, <1>c DEF Request, RequestLabel
  <2>7. RequestFits(p)'
    BY <2>2, <2>3, <2>4, <1>c, RequestStillFits
  <2>8. p.at = "approve" /\ p.copy.status = StatusAt("start") /\ p.batch = {}
    BY <2>1, <2>2, <2>4, <1>c DEF RequestFits, StatusAt
  <2>9. RequestFits(r)'
    BY <2>1, <2>4, <2>6, <2>7, <2>8, <1>c, <2>2 DEF RequestFits, Submits
  <2>10. \E q, s : Moves(c, i, q, s)
    <3>1. i \notin disturbed' => RunsOf(i)' = session[i].ids
      BY <2>1, <2>2, <2>3, <1>c DEF Submits
    <3>2. r.at \notin Submits
      BY <2>6 DEF Submits
    <3>3. QED BY <2>1, <2>2, <2>3, <2>4, <2>6, <2>9, <3>1, <3>2, GoesOn
  <2>11. QED BY <2>1, <2>2, <2>3, <2>10, <1>k
<1>5. CASE SaveRunning(c)
  <2>1. request[c].at = "start" /\ Same /\ Save(c, "running", "seed")
    BY <1>5 DEF SaveRunning, At, runVars
  <2>2. \E q, s : Moves(c, i, q, s)
    BY <2>1, <1>c, CopySaved
       DEF StatusAt, Early, Weighed, Submits, Status, RequestLabel, At
  <2>3. QED BY <2>1, <2>2, <1>s DEF At
<1>6. CASE SubmitSeed(c)
  <2>1. /\ request[c].at = "seed" /\ ~At(c, "idle")
        /\ UNCHANGED <<approvals, shown>> /\ disturbed \subseteq disturbed'
    BY <1>6 DEF SubmitSeed, At, Broken
  <2>2. CASE runs' = runs
    <3>1. Save(c, "failed", "idle") /\ (i \notin disturbed' => request[c].batch = {})
      <4>1. \/ /\ Save(c, "failed", "idle")
               /\ IF request[c].batch = {} THEN UNCHANGED disturbed ELSE Broken(Of(c))
            \/ runs' = Append(runs, [of |-> i, status |-> "active"]) /\ Len(runs) + 1 \in Run
        BY <1>6 DEF SubmitSeed
      <4>2. runs' # Append(runs, [of |-> i, status |-> "active"]) \/ Len(runs) + 1 \notin Run
        <5>1. SUFFICES ASSUME runs' = Append(runs, [of |-> i, status |-> "active"]),
                              NEW n, n = Len(runs) + 1, n \in Run
                       PROVE  FALSE
          OBVIOUS
        <5>2. n \notin Submitted /\ n \in Submitted'
          BY <5>1, RunAdded DEF IterInv
        <5>3. QED BY <5>2, <2>2 DEF Submitted
      <4>3. QED BY <4>1, <4>2 DEF Broken
    <3>2. \E q, s : Moves(c, i, q, s)
      BY <2>1, <2>2, <3>1, <1>c, CopySaved
         DEF StatusAt, Early, Weighed, Status, RequestLabel
    <3>3. QED BY <2>1, <2>2, <3>2, <1>s
  <2>3. CASE runs' # runs
    <3>1. PICK n : n = Len(runs) + 1
      OBVIOUS
    <3>2. PICK p \in Request : p = request[c]
      BY <2>1, <1>c
    <3>3. PICK r : r = [p EXCEPT !.batch = @ \cup {n}, !.at = IF p.sync THEN "wait" ELSE "seed"]
      OBVIOUS
    <3>4. /\ n \in Run /\ runs' = Append(runs, [of |-> i, status |-> "active"])
          /\ request' = [request EXCEPT ![c].batch = @ \cup {n},
                                        ![c].at = IF request[c].sync THEN "wait" ELSE "seed"]
          /\ UNCHANGED <<session, disturbed>>
      BY <1>6, <2>3, <3>1 DEF SubmitSeed
    <3>5. /\ n \notin Submitted /\ \A y \in Submitted : y <= n
          /\ RunsOf(i)' = RunsOf(i) \cup {n}
          /\ \A j \in Iter \ {i} : RunsOf(j)' = RunsOf(j)
      BY <3>1, <3>4, RunAdded DEF IterInv
    <3>6. Grown
      BY <2>1, <3>5 DEF Grown
    <3>7. /\ r \in Request /\ r.of = i /\ r.copy = p.copy /\ r.good = p.good
          /\ r.batch = p.batch \cup {n} /\ r.at \in {"wait", "seed"}
      BY <3>2, <3>3, <3>4, <2>1, <1>c DEF Request, RequestLabel
    <3>8. request' = [request EXCEPT ![c] = r]
      BY <3>2, <3>3, <3>4, <2>1, <1>c DEF Request
    <3>9. RequestFits(p)' /\ RequestFits(p) /\ p.of = i /\ p.at = "seed"
      BY <2>1, <3>2, <3>6, <1>c, RequestStillFits
    <3>10. \A y \in r.batch : y <= n
      BY <3>5, <3>7, <3>9, <3>4, <2>1 DEF RequestFits, RunsOf, Run
    <3>11. RequestFits(r)'
      <4>1. r.copy.status = StatusAt(r.at) /\ SessionFits(r.of, r.copy)'
        BY <3>7, <3>9 DEF RequestFits, StatusAt
      <4>2. r.batch \subseteq RunsOf(r.of)' /\ r.good \subseteq r.batch \cap shown'
        BY <3>5, <3>7, <3>9, <2>1 DEF RequestFits
      <4>3. r.copy.ids = {} /\ r.of \in approvals'
        BY <3>7, <3>9 DEF RequestFits, Submits
      <4>4. QED BY <3>7, <3>10, <4>1, <4>2, <4>3 DEF RequestFits
    <3>12. i \notin disturbed' => RunsOf(i)' = r.batch
      BY <2>1, <3>2, <3>4, <3>5, <3>7, <1>c DEF Submits
    <3>13. r.at \in Submits
      BY <3>7 DEF Submits
    <3>14. \E q, s : Moves(c, i, q, s)
      BY <2>1, <3>2, <3>4, <3>6, <3>7, <3>8, <3>11, <3>12, <3>13, GoesOn
    <3>15. QED BY <2>1, <3>4, <3>5, <3>6, <3>14, <1>k
  <2>4. QED BY <2>2, <2>3
<1>7. CASE WaitForSeed(c)
  <2>1. /\ request[c].at = "wait" /\ ~At(c, "idle") /\ Same
    BY <1>7 DEF WaitForSeed, At, runVars, Broken
  <2>2. PICK p \in Request : p = request[c]
    BY <2>1, <1>c
  <2>3. PICK n : n = CHOOSE x \in p.batch : \A y \in p.batch : y <= x
    OBVIOUS
  <2>4. RequestFits(p) /\ p.of = i /\ p.at = "wait"
    BY <2>1, <2>2, <1>c
  <2>5. n \in p.batch
    BY <2>3, <2>4 DEF RequestFits
  <2>6. \/ /\ request' = [request EXCEPT ![c].at = "seed", ![c].good = @ \cup Completed({n})]
           /\ UNCHANGED <<session, disturbed>>
        \/ Save(c, "failed", "idle") /\ i \in disturbed'
    BY <1>7, <2>2, <2>3 DEF WaitForSeed, Broken
  <2>7. CASE Save(c, "failed", "idle") /\ i \in disturbed'
    <3>1. \E q, s : Moves(c, i, q, s)
      BY <2>1, <2>7, <1>c, CopySaved
         DEF StatusAt, Early, Weighed, Status, RequestLabel
    <3>2. QED BY <2>1, <3>1, <1>s
  <2>8. CASE /\ request' = [request EXCEPT ![c].at = "seed", ![c].good = @ \cup Completed({n})]
             /\ UNCHANGED <<session, disturbed>>
    <3>1. n \in Submitted /\ n \in Run /\ Completed({n}) \subseteq {n} \cap shown
      <4>1. n \in Submitted
        BY <2>4, <2>5 DEF RequestFits, RunsOf
      <4>2. Completed(Submitted) \subseteq shown /\ Submitted \subseteq Run
        BY RunsTyped DEF IterInv, DecisionsFit
      <4>3. QED BY <4>1, <4>2 DEF Completed
    <3>2. PICK r : r = [p EXCEPT !.at = "seed", !.good = @ \cup Completed({n})]
      OBVIOUS
    <3>3. /\ r \in Request /\ r.of = i /\ r.copy = p.copy /\ r.batch = p.batch
          /\ r.good = p.good \cup Completed({n}) /\ r.at = "seed"
      BY <2>4, <3>1, <3>2 DEF Request, RequestLabel
    <3>4. request' = [request EXCEPT ![c] = r]
      BY <2>1, <2>2, <2>8, <3>2, <1>c DEF Request
    <3>5. RequestFits(r)
      BY <2>4, <2>5, <3>1, <3>3 DEF RequestFits, StatusAt, Submits
    <3>6. RequestFits(r)' /\ Grown /\ \A j \in Iter : RunsOf(j)' = RunsOf(j)
      BY <2>1, <3>3, <3>5, SameGrown, RequestStillFits
    <3>7. r.at \in Submits /\ (i \notin disturbed' => RunsOf(i)' = r.batch)
      BY <2>1, <2>2, <2>4, <2>8, <3>3, <3>6, <1>c DEF Submits
    <3>8. \E q, s : Moves(c, i, q, s)
      BY <2>1, <2>2, <2>8, <3>3, <3>4, <3>6, <3>7, GoesOn
    <3>9. QED BY <2>1, <3>8, <1>s
  <2>9. QED BY <2>6, <2>7, <2>8
<1>8. CASE AllSubmitted(c)
  <2>1. /\ request[c].at = "seed" /\ ~At(c, "idle") /\ Same /\ UNCHANGED <<session, disturbed>>
        /\ request' = [request EXCEPT ![c].at = "ids"]
    BY <1>8 DEF AllSubmitted, Step, At, runVars
  <2>2. PICK p \in Request : p = request[c]
    BY <2>1, <1>c
  <2>3. PICK r : r = [p EXCEPT !.at = "ids"]
    OBVIOUS
  <2>4. /\ r \in Request /\ request' = [request EXCEPT ![c] = r]
        /\ r.of = i /\ r.copy = p.copy /\ r.batch = p.batch /\ r.good = p.good /\ r.at = "ids"
    BY <2>1, <2>2, <2>3, <1>c DEF Request, RequestLabel
  <2>5. RequestFits(p) /\ p.of = i /\ p.at = "seed"
    BY <2>1, <2>2, <1>c
  <2>6. RequestFits(r)
    BY <2>4, <2>5 DEF RequestFits, StatusAt, Submits
  <2>7. RequestFits(r)' /\ Grown /\ \A j \in Iter : RunsOf(j)' = RunsOf(j)
    BY <2>1, <2>4, <2>6, SameGrown, RequestStillFits
  <2>8. r.at \in Submits /\ (i \notin disturbed' => RunsOf(i)' = r.batch)
    BY <2>1, <2>2, <2>4, <2>5, <2>7, <1>c DEF Submits
  <2>9. \E q, s : Moves(c, i, q, s)
    BY <2>1, <2>2, <2>4, <2>7, <2>8, GoesOn
  <2>10. QED BY <2>1, <2>9, <1>s
<1>9. CASE SaveExecutionIds(c)
  <2>1. /\ request[c].at = "ids" /\ ~At(c, "idle") /\ Same
    BY <1>9 DEF SaveExecutionIds, At, runVars
  <2>2. PICK p \in Request : p = request[c]
    BY <2>1, <1>c
  <2>3. PICK s : s = [p.copy EXCEPT !.ids = p.batch]
    OBVIOUS
  <2>4. PICK to : to = IF p.sync THEN "finish" ELSE "idle"
    OBVIOUS
  <2>5. PICK r : r = IF to = "idle" THEN NoRequest ELSE [p EXCEPT !.at = to, !.copy = s]
    OBVIOUS
  <2>6. /\ RequestFits(p) /\ p.of = i /\ p.at = "ids" /\ p.copy \in Session
        /\ p.batch \subseteq Run /\ p.sync \in BOOLEAN
    BY <2>1, <2>2, <1>c DEF Request
  <2>7. /\ s \in Session /\ s.ids = p.batch /\ s.status = "running"
        /\ s.status = p.copy.status
    BY <2>3, <2>6 DEF Session, RequestFits, StatusAt
  <2>8. session' = [session EXCEPT ![i] = s] /\ request' = [request EXCEPT ![c] = r]
    <3>1. session' = [session EXCEPT ![i] = s]
      BY <1>9, <2>2, <2>3 DEF SaveExecutionIds
    <3>2. CASE p.sync
      <4>1. request' = [request EXCEPT ![c].at = "finish", ![c].copy = s]
        BY <1>9, <2>2, <2>3, <3>2 DEF SaveExecutionIds
      <4>2. r = [p EXCEPT !.at = "finish", !.copy = s]
        BY <2>4, <2>5, <3>2
      <4>3. request' = [request EXCEPT ![c] = r]
        BY <4>1, <4>2, <2>1, <2>2, <1>c DEF Request
      <4>4. QED BY <3>1, <4>3
    <3>3. CASE ~p.sync
      <4>1. Reply(c)
        BY <1>9, <2>2, <3>3 DEF SaveExecutionIds
      <4>2. QED BY <3>1, <3>3, <4>1, <2>4, <2>5 DEF Reply
    <3>4. QED BY <3>2, <3>3
  <2>9. SessionFits(i, s)
    BY <2>6, <2>7 DEF RequestFits, SessionFits, Early, Weighed
  <2>10. to # "idle" => RequestFits(r)
    <3>1. SUFFICES ASSUME to # "idle" PROVE RequestFits(r)
      OBVIOUS
    <3>2. /\ r.at = "finish" /\ r.copy = s /\ r.of = i /\ r.batch = p.batch /\ r.good = p.good
      BY <3>1, <2>2, <2>4, <2>5, <2>6 DEF Request
    <3>3. QED BY <3>2, <2>6, <2>7, <2>9 DEF RequestFits, StatusAt, Submits
  <2>11. i \notin disturbed' => RunsOf(i) = IF to \in Submits THEN request[c].batch ELSE s.ids
    BY <2>1, <2>2, <2>4, <2>6, <2>7, <1>c DEF Submits
  <2>12. to \in RequestLabel
    BY <2>4 DEF RequestLabel
  <2>13. \E q, u : Moves(c, i, q, u)
    BY <2>1, <2>2, <2>5, <2>7, <2>8, <2>9, <2>10, <2>11, <2>12, SaveMoves
  <2>14. QED BY <2>1, <2>13, <1>s
<1>10. CASE SaveRejected(c)
  <2>1. request[c].at = "reject" /\ Same /\ Save(c, "rejected", "idle")
    BY <1>10 DEF SaveRejected, At, runVars
  <2>2. \E q, s : Moves(c, i, q, s)
    BY <2>1, <1>c, CopySaved
       DEF StatusAt, Early, Weighed, Submits, Status, RequestLabel, At
  <2>3. QED BY <2>1, <2>2, <1>s DEF At
<1>11. CASE NothingToPoll(c)
  <2>1. request[c].at = "poll" /\ Same /\ Save(c, "failed", "idle")
    BY <1>11 DEF NothingToPoll, At, runVars
  <2>2. \E q, s : Moves(c, i, q, s)
    BY <2>1, <1>c, CopySaved
       DEF StatusAt, Early, Weighed, Submits, Status, RequestLabel, At
  <2>3. QED BY <2>1, <2>2, <1>s DEF At
<1>12. CASE PollFails(c)
  <2>1. request[c].at = "poll" /\ Same /\ Reply(c) /\ UNCHANGED <<session, disturbed>>
    BY <1>12 DEF PollFails, At, runVars
  <2>2. \E q, s : Moves(c, i, q, s)
    BY <2>1, <1>c, Replies DEF Submits, At
  <2>3. QED BY <2>1, <2>2, <1>s DEF At
<1>13. CASE \E x \in Run : PollRun(c, x)
  <2>1. PICK x \in Run : PollRun(c, x)
    BY <1>13
  <2>2. PICK p \in Request : p = request[c]
    BY <2>1, <1>c DEF PollRun, At
  <2>3. /\ p.at = "poll" /\ ~At(c, "idle") /\ Same /\ UNCHANGED <<session, disturbed>>
        /\ x \in p.copy.ids \ p.batch
    BY <2>1, <2>2 DEF PollRun, At, runVars
  <2>4. RequestFits(p) /\ p.of = i /\ p.copy.ids \subseteq RunsOf(i)
    BY <2>2, <2>3, <1>c DEF SessionFits
  <2>5. CASE TakenAsEnded(x)
    <3>1. PICK to : to = IF p.copy.ids \ p.batch = {x} THEN "finish" ELSE "poll"
      OBVIOUS
    <3>2. PICK r : r = [p EXCEPT !.at = to, !.batch = @ \cup {x}, !.good = @ \cup Completed({x})]
      OBVIOUS
    <3>3. Completed({x}) \subseteq {x} \cap shown /\ x \in Run
      <4>1. x \in Submitted
        BY <2>3, <2>4 DEF RunsOf
      <4>2. Completed(Submitted) \subseteq shown
        BY DEF IterInv, DecisionsFit
      <4>3. QED BY <4>1, <4>2 DEF Completed
    <3>4. request' = [request EXCEPT ![c].at = to, ![c].batch = @ \cup {x},
                                     ![c].good = @ \cup Completed({x})]
      BY <2>1, <2>2, <2>5, <3>1 DEF PollRun
    <3>5. /\ r \in Request /\ r.of = i /\ r.copy = p.copy /\ r.batch = p.batch \cup {x}
          /\ r.good = p.good \cup Completed({x}) /\ r.at = to
      BY <2>4, <3>1, <3>2, <3>3 DEF Request, RequestLabel
    <3>6. request' = [request EXCEPT ![c] = r]
      BY <2>2, <2>3, <3>2, <3>4, <1>c DEF Request
    <3>7. RequestFits(r)
      <4>1. r.copy.status = StatusAt(r.at) /\ SessionFits(r.of, r.copy)
        BY <2>3, <2>4, <3>1, <3>5 DEF RequestFits, StatusAt
      <4>2. r.batch \subseteq RunsOf(r.of) /\ r.good \subseteq r.batch \cap shown
        BY <2>3, <2>4, <3>3, <3>5 DEF RequestFits
      <4>3. r.batch \subseteq r.copy.ids /\ (to = "finish" => r.batch = r.copy.ids)
        BY <2>3, <2>4, <3>1, <3>5 DEF RequestFits
      <4>4. QED BY <3>1, <3>5, <4>1, <4>2, <4>3 DEF RequestFits, Submits
    <3>8. RequestFits(r)' /\ Grown /\ \A j \in Iter : RunsOf(j)' = RunsOf(j)
      BY <2>3, <3>5, <3>7, SameGrown, RequestStillFits
    <3>9. r.at \notin Submits /\ (i \notin disturbed' => RunsOf(i)' = session[i].ids)
      BY <2>2, <2>3, <3>1, <3>5, <3>8, <1>c DEF Submits
    <3>10. \E q, s : Moves(c, i, q, s)
      BY <2>2, <2>3, <3>5, <3>6, <3>8, <3>9, GoesOn
    <3>11. QED BY <2>3, <3>10, <1>s
  <2>6. CASE ~TakenAsEnded(x)
    <3>1. Reply(c)
      BY <2>1, <2>6 DEF PollRun
    <3>2. \E q, s : Moves(c, i, q, s)
      BY <2>2, <2>3, <3>1, Replies DEF Submits
    <3>3. QED BY <2>3, <3>2, <1>s
  <2>7. QED BY <2>5, <2>6
<1>14. CASE FinishSeedPhase(c)
  <2>1. /\ request[c].at = "finish" /\ ~At(c, "idle") /\ Same
    BY <1>14 DEF FinishSeedPhase, At, runVars
  <2>2. PICK p \in Request : p = request[c]
    BY <2>1, <1>c
  <2>3. PICK x : x = [p.copy EXCEPT !.ids = p.batch]
    OBVIOUS
  <2>4. /\ RequestFits(p) /\ p.of = i /\ p.at = "finish" /\ p.copy \in Session
        /\ p.batch \subseteq Run /\ p.good \subseteq Run
    BY <2>1, <2>2, <1>c DEF Request
  <2>5. x \in Session /\ x.ids = p.batch
    BY <2>3, <2>4 DEF Session
  <2>6. PICK t \in {"failed", "comparing"} :
           /\ t = "comparing" => EnoughSeeds(c)
           /\ SaveAs(c, t, x, IF t = "failed" THEN "idle" ELSE "compare")
    BY <1>14, <2>2, <2>3 DEF FinishSeedPhase
  <2>7. PICK to : to = IF t = "failed" THEN "idle" ELSE "compare"
    OBVIOUS
  <2>8. PICK s : s = [x EXCEPT !.status = t]
    OBVIOUS
  <2>9. PICK r : r = IF to = "idle" THEN NoRequest
                     ELSE [request[c] EXCEPT !.at = to, !.copy = s]
    OBVIOUS
  <2>10. session' = [session EXCEPT ![i] = s] /\ request' = [request EXCEPT ![c] = r]
    BY <2>1, <2>6, <2>7, <2>8, <2>9, CallHas
       DEF SaveAs, IterInv, IterTypeOK, Request
  <2>11. s \in Session /\ s.status = t /\ s.ids = p.batch
    BY <2>5, <2>8 DEF Session, Status
  <2>12. SessionFits(i, s)
    <3>1. s.ids \subseteq RunsOf(i)
      BY <2>4, <2>11 DEF RequestFits
    <3>2. ASSUME t = "comparing"
          PROVE  Cardinality(s.ids \cap shown) >= MinSeeds
      <4>1. Cardinality(p.good) >= MinSeeds
        BY <2>2, <2>6, <3>2 DEF EnoughSeeds
      <4>2. p.good \subseteq s.ids \cap shown
        BY <2>4, <2>11 DEF RequestFits
      <4>3. s.ids \cap shown \subseteq Run
        BY <2>4, <2>11
      <4>4. /\ Cardinality(p.good) <= Cardinality(s.ids \cap shown)
            /\ Cardinality(p.good) \in Nat /\ Cardinality(s.ids \cap shown) \in Nat
        BY <2>4, <4>2, <4>3, MoreRuns
      <4>5. QED BY <4>1, <4>4, IterationBounds
    <3>3. QED BY <2>11, <3>1, <3>2 DEF SessionFits, Early, Weighed
  <2>13. ASSUME to # "idle" PROVE RequestFits(r)
    <3>1. r.at = "compare" /\ r.copy = s /\ r.of = i /\ r.batch = p.batch /\ r.good = p.good
      BY <2>2, <2>4, <2>7, <2>9, <2>13 DEF Request
    <3>2. s.status = "comparing"
      BY <2>7, <2>11, <2>13
    <3>3. QED BY <3>1, <3>2, <2>4, <2>12 DEF RequestFits, StatusAt, Submits
  <2>14. i \notin disturbed' => RunsOf(i) = IF to \in Submits THEN request[c].batch ELSE s.ids
    <3>1. p.batch = p.copy.ids /\ "finish" \notin Submits /\ to \notin Submits
      BY <2>4, <2>7 DEF RequestFits, Submits
    <3>2. i \notin disturbed' => RunsOf(i) = p.copy.ids
      BY <2>1, <2>2, <3>1, <1>c
    <3>3. QED BY <2>11, <3>1, <3>2
  <2>15. to \in RequestLabel /\ s.status # "absent"
    BY <2>7, <2>11 DEF RequestLabel
  <2>16. \E q, u : Moves(c, i, q, u)
    BY <2>1, <2>9, <2>10, <2>11, <2>12, <2>13, <2>14, <2>15, SaveMoves
  <2>17. QED BY <2>1, <2>16, <1>s
<1>15. CASE Compare(c)
  <2>1. /\ request[c].at = "compare" /\ Same
        /\ Save(c, "waiting_decision", "idle") \/ Save(c, "failed", "idle")
    BY <1>15 DEF Compare, At, runVars
  <2>2. \E q, s : Moves(c, i, q, s)
    BY <2>1, <1>c, CopySaved
       DEF StatusAt, Early, Weighed, Submits, Status, RequestLabel, At
  <2>3. QED BY <2>1, <2>2, <1>s DEF At
<1>16. CASE RecordDecision(c)
  <2>1. /\ request[c].at = "decide" /\ ~At(c, "idle") /\ Same /\ UNCHANGED <<session, disturbed>>
        /\ Reply(c) \/ request' = [request EXCEPT ![c].at = "complete"]
    BY <1>16 DEF RecordDecision, Step, At, runVars
  <2>2. CASE Reply(c)
    <3>1. \E q, s : Moves(c, i, q, s)
      BY <2>1, <2>2, Replies DEF Submits
    <3>2. QED BY <2>1, <3>1, <1>s
  <2>3. CASE request' = [request EXCEPT ![c].at = "complete"]
    <3>1. PICK p \in Request : p = request[c]
      BY <2>1, <1>c
    <3>2. PICK r : r = [p EXCEPT !.at = "complete"]
      OBVIOUS
    <3>3. RequestFits(p) /\ p.of = i /\ p.at = "decide"
      BY <2>1, <3>1, <1>c
    <3>4. /\ r \in Request /\ request' = [request EXCEPT ![c] = r]
          /\ r.of = i /\ r.copy = p.copy /\ r.batch = p.batch /\ r.good = p.good
          /\ r.at = "complete"
      BY <2>1, <2>3, <3>1, <3>2, <3>3, <1>c DEF Request, RequestLabel
    <3>5. RequestFits(r)
      BY <3>3, <3>4 DEF RequestFits, StatusAt, Submits
    <3>6. RequestFits(r)' /\ Grown /\ \A j \in Iter : RunsOf(j)' = RunsOf(j)
      BY <2>1, <3>4, <3>5, SameGrown, RequestStillFits
    <3>7. r.at \notin Submits /\ (i \notin disturbed' => RunsOf(i)' = session[i].ids)
      BY <2>1, <3>4, <3>6, <1>c DEF Submits
    <3>8. \E q, s : Moves(c, i, q, s)
      BY <2>1, <3>1, <3>4, <3>6, <3>7, GoesOn
    <3>9. QED BY <2>1, <3>8, <1>s
  <2>4. QED BY <2>1, <2>2, <2>3
<1>17. CASE SaveCompleted(c)
  <2>1. /\ request[c].at = "complete" /\ ~At(c, "idle") /\ Same
    BY <1>17 DEF SaveCompleted, At, runVars
  <2>2. PICK p \in Request : p = request[c]
    BY <2>1, <1>c
  <2>3. PICK x : x = [p.copy EXCEPT !.decided = TRUE]
    OBVIOUS
  <2>4. PICK s : s = [x EXCEPT !.status = "completed"]
    OBVIOUS
  <2>5. PICK r : r = NoRequest
    OBVIOUS
  <2>6. RequestFits(p) /\ p.of = i /\ p.at = "complete" /\ p.copy \in Session
    BY <2>1, <2>2, <1>c
  <2>7. SaveAs(c, "completed", x, "idle")
    BY <1>17, <2>2, <2>3 DEF SaveCompleted
  <2>8. session' = [session EXCEPT ![i] = s] /\ request' = [request EXCEPT ![c] = r]
    BY <2>7, <2>4, <2>5 DEF SaveAs
  <2>9. s \in Session /\ s.status = "completed" /\ s.ids = p.copy.ids
    BY <2>3, <2>4, <2>6 DEF Session, Status
  <2>10. SessionFits(i, s)
    BY <2>6, <2>9 DEF RequestFits, SessionFits, StatusAt, Early, Weighed
  <2>11. i \notin disturbed' => RunsOf(i) = s.ids
    BY <2>1, <2>2, <2>9, <1>c DEF Submits
  <2>12. "idle" \in RequestLabel /\ "idle" \notin Submits
    BY DEF RequestLabel, Submits
  <2>13. \E q, u : Moves(c, i, q, u)
    BY <2>1, <2>5, <2>8, <2>9, <2>10, <2>11, <2>12, SaveMoves
  <2>14. QED BY <2>1, <2>13, <1>s
<1>18. QED BY <1>1, <1>2, <1>3, <1>4, <1>5, <1>6, <1>7, <1>8, <1>9, <1>10,
              <1>11, <1>12, <1>13, <1>14, <1>15, <1>16, <1>17 DEF CallStep

(* A call that begins reads the row. *)
LEMMA EnterMoves ==
  ASSUME IterInv, NEW c \in Requester, NEW i \in Iter, NEW sync \in BOOLEAN,
         NEW l \in {"approve", "reject", "poll", "decide"},
         EnterWith(c, i, l, sync), session[i].status = StatusAt(l)
  PROVE  Grown /\ Works(c, i) /\ \E r, s : Moves(c, i, r, s)
<1>1. /\ At(c, "idle") /\ UNCHANGED <<session, runs, shown, approvals>>
      /\ request' = [request EXCEPT ![c] = [NoRequest EXCEPT !.at = l, !.of = i,
                                             !.copy = session[i], !.sync = sync]]
      /\ disturbed' = IF Overlapping(c, i) THEN disturbed \cup {i} ELSE disturbed
  BY DEF EnterWith, runVars
<1>2. PICK s \in Session : s = session[i]
  BY DEF IterInv, IterTypeOK
<1>3. PICK r : r = [NoRequest EXCEPT !.at = l, !.of = i, !.copy = s, !.sync = sync]
  OBVIOUS
<1>4. /\ r \in Request /\ r.at = l /\ r.of = i /\ r.copy = s /\ r.batch = {} /\ r.good = {}
  BY <1>2, <1>3, NothingTyped DEF Request, RequestLabel
<1>5. request' = [request EXCEPT ![c] = r]
  BY <1>1, <1>2, <1>3
<1>6. SessionFits(i, s)
  BY <1>2 DEF IterInv, SessionsFit
<1>7. RequestFits(r)
  BY <1>2, <1>4, <1>6 DEF RequestFits, Submits
<1>8. Grown /\ \A j \in Iter : RunsOf(j)' = RunsOf(j)
  BY <1>1, SameGrown
<1>9. RequestFits(r)' /\ SessionFits(i, s)'
  BY <1>4, <1>6, <1>7, <1>8, RequestStillFits, SessionStillFits
<1>10. session' = [session EXCEPT ![i] = s]
  BY <1>1, <1>2 DEF IterInv, IterTypeOK
<1>11. /\ disturbed \subseteq disturbed'
       /\ i \notin disturbed' => \A b \in Requester \ {c} : At(b, "idle") \/ Of(b) # i
  BY <1>1 DEF Overlapping
<1>12. Works(c, i)
  BY <1>1, <1>8, <1>11 DEF Works
<1>13. i \notin disturbed' => RunsOf(i)' = s.ids
  <2>1. SUFFICES ASSUME i \notin disturbed' PROVE RunsOf(i) = s.ids
    BY <1>8
  <2>2. Undisturbed(i)
    BY <1>11, <2>1 DEF IterInv, AllUndisturbed
  <2>3. \A b \in Requester : At(b, "idle") \/ Of(b) # i
    BY <1>1, <1>11, <2>1
  <2>4. QED BY <1>2, <2>2, <2>3 DEF Undisturbed
<1>14. l \notin Submits /\ StatusAt(l) # "absent"
  BY DEF Submits, StatusAt
<1>15. Moves(c, i, r, s)
  BY <1>2, <1>4, <1>5, <1>9, <1>10, <1>13, <1>14 DEF Moves
<1>16. QED BY <1>8, <1>12, <1>15

LEMMA BeginMoves ==
  ASSUME IterInv, NEW c \in Requester, NEW i \in Iter, CallBegin(c, i)
  PROVE  Grown /\ Works(c, i) /\ \E r, s : Moves(c, i, r, s)
<1> USE DEF StatusAt
<1>1. CASE Start(c, i)
  <2>1. /\ At(c, "idle") /\ session[i] = NoSession
        /\ UNCHANGED <<runs, shown, approvals, disturbed>>
    BY <1>1 DEF Start, runVars
  <2>2. PICK s : s = [NoSession EXCEPT !.status = "created"]
    OBVIOUS
  <2>3. PICK l \in {"feedback", "plan"} :
           request' = [request EXCEPT ![c] = [NoRequest EXCEPT !.at = l, !.of = i, !.copy = s]]
    BY <1>1, <2>2 DEF Start
  <2>4. session' = [session EXCEPT ![i] = s]
    BY <1>1, <2>2 DEF Start
  <2>5. s \in Session /\ s.status = "created" /\ s.ids = {}
    BY <2>2, NothingTyped DEF Session, Status, NoSession
  <2>6. PICK r : r = [NoRequest EXCEPT !.at = l, !.of = i, !.copy = s]
    OBVIOUS
  <2>7. r \in Request /\ r.at = l /\ r.of = i /\ r.copy = s /\ r.batch = {} /\ r.good = {}
    BY <2>5, <2>6, NothingTyped DEF Request, RequestLabel
  <2>8. request' = [request EXCEPT ![c] = r]
    BY <2>3, <2>6
  <2>9. SessionFits(i, s)
    BY <2>5 DEF SessionFits, Weighed
  <2>10. RequestFits(r)
    BY <2>5, <2>7, <2>9 DEF RequestFits, Submits
  <2>11. Grown /\ \A j \in Iter : RunsOf(j)' = RunsOf(j)
    BY <2>1, SameGrown
  <2>12. RequestFits(r)' /\ SessionFits(i, s)'
    BY <2>5, <2>7, <2>9, <2>10, <2>11, RequestStillFits, SessionStillFits
  <2>13. session[i].status = "absent" /\ session[i].ids = {}
    BY <2>1 DEF NoSession
  <2>14. \A b \in Requester : At(b, "idle") \/ Of(b) # i
    BY <2>13 DEF IterInv, DecisionsFit
  <2>15. Works(c, i)
    BY <2>1, <2>11, <2>14 DEF Works
  <2>16. i \notin disturbed' => RunsOf(i)' = s.ids
    BY <2>1, <2>5, <2>11, <2>13, <2>14 DEF IterInv, AllUndisturbed, Undisturbed
  <2>17. l \notin Submits /\ "absent" \notin Closed
    BY DEF Submits, Closed
  <2>18. Moves(c, i, r, s)
    BY <2>4, <2>5, <2>7, <2>8, <2>12, <2>13, <2>16, <2>17 DEF Moves
  <2>19. QED BY <2>11, <2>15, <2>18
<1>2. CASE Approve(c, i)
  BY <1>2, EnterMoves DEF Approve
<1>3. CASE Reject(c, i)
  BY <1>3, EnterMoves DEF Reject, Enter
<1>4. CASE AdvanceIteration(c, i)
  BY <1>4, EnterMoves DEF AdvanceIteration, Enter
<1>5. CASE Finalize(c, i)
  BY <1>5, EnterMoves DEF Finalize, Enter
<1>6. QED BY <1>1, <1>2, <1>3, <1>4, <1>5 DEF CallBegin

(* Where calls and rows stay as they are. *)
LEMMA RestKeeps ==
  ASSUME IterInv, Grown, \A i \in Iter : RunsOf(i)' = RunsOf(i),
         UNCHANGED <<session, request, disturbed>>
  PROVE  SessionsFit' /\ RequestsFit' /\ AllUndisturbed'
<1>1. ASSUME NEW i \in Iter PROVE SessionFits(i, session[i])'
  <2>1. PICK s \in Session : s = session[i]
    BY DEF IterInv, IterTypeOK
  <2>2. SessionFits(i, s)'
    BY <2>1, SessionStillFits DEF IterInv, SessionsFit
  <2>3. QED BY <2>1, <2>2 DEF SessionFits
<1>2. ASSUME NEW c \in Requester PROVE RequestFits(request[c])'
  <2>1. PICK q \in Request : q = request[c]
    BY DEF IterInv, IterTypeOK
  <2>2. RequestFits(q)'
    BY <2>1, RequestStillFits DEF IterInv, RequestsFit
  <2>3. QED BY <2>1, <2>2 DEF RequestFits, SessionFits
<1>3. AllUndisturbed'
  BY DEF IterInv, AllUndisturbed, Undisturbed, At, Of
<1>4. QED BY <1>1, <1>2, <1>3 DEF SessionsFit, RequestsFit

(* The rows of runs change; whose they are does not. *)
LEMMA RowsWritten ==
  ASSUME IterInv, NEW x \in Submitted, NEW t \in RunStatus, SetRun(x, t)
  PROVE  /\ Grown /\ \A i \in Iter : RunsOf(i)' = RunsOf(i)
         /\ \E n \in 0..MaxRuns : runs' \in [1..n -> [of : Iter, status : RunStatus]]
         /\ Submitted' = Submitted /\ shown' \subseteq Submitted'
         /\ Completed(Submitted)' \subseteq shown'
<1>1. /\ Len(runs) \in 0..MaxRuns
      /\ runs \in [Submitted -> [of : Iter, status : RunStatus]] /\ Submitted = 1..Len(runs)
      /\ shown \subseteq Submitted /\ Completed(Submitted) \subseteq shown
  BY RunsTyped DEF IterInv, IterTypeOK, DecisionsFit
<1>2. /\ runs' = [runs EXCEPT ![x].status = t]
      /\ shown' = IF t = "completed" THEN shown \cup {x} ELSE shown
      /\ UNCHANGED approvals
  BY DEF SetRun
<1>3. /\ runs' \in [Submitted -> [of : Iter, status : RunStatus]]
      /\ \A y \in Submitted : runs'[y].of = runs[y].of /\ (y # x => runs'[y] = runs[y])
      /\ runs'[x].status = t
  BY <1>1, <1>2
<1>4. Submitted' = Submitted
  BY <1>3 DEF Submitted
<1>5. \A i \in Iter : RunsOf(i)' = RunsOf(i)
  BY <1>3, <1>4 DEF RunsOf
<1>6. Completed(Submitted)' \subseteq shown'
  BY <1>1, <1>2, <1>3, <1>4 DEF Completed
<1>7. shown' \subseteq Submitted' /\ Grown
  BY <1>1, <1>2, <1>4, <1>5 DEF Grown
<1>8. QED BY <1>1, <1>3, <1>4, <1>5, <1>6, <1>7

(* The counters, the runs and the approvals of a call's step. *)
LEMMA CallTyped ==
  ASSUME IterInv, NEW c \in Requester,
         CallStep(c) \/ PollFails(c) \/ \E i \in Iter : CallBegin(c, i)
  PROVE  /\ approvals' \subseteq Iter
         /\ decisions' \in [Iter -> 0..MaxDecisions]
         /\ \E n \in 0..MaxRuns : runs' \in [1..n -> [of : Iter, status : RunStatus]]
         /\ shown' \subseteq Submitted' /\ rewrites' \in 0..MaxRewrites
         /\ disturbed' \subseteq Iter /\ deaths' \in 0..MaxDeaths
<1>1. /\ approvals \subseteq Iter /\ decisions \in [Iter -> 0..MaxDecisions]
      /\ \E n \in 0..MaxRuns : runs \in [1..n -> [of : Iter, status : RunStatus]]
      /\ shown \subseteq Submitted /\ rewrites \in 0..MaxRewrites
      /\ disturbed \subseteq Iter /\ deaths \in 0..MaxDeaths
      /\ request \in [Requester -> Request]
  BY DEF IterInv, IterTypeOK
<1>2. Of(c) \in Iter
  BY <1>1 DEF Of, Request
<1>3. UNCHANGED <<shown, rewrites, deaths>>
  BY DEF CallStep, PollFails, CallBegin, AnalyzeFeedback, Propose,
     ProposeFromPlan, SaveApproval, SaveRunning, SubmitSeed, WaitForSeed,
     AllSubmitted, SaveExecutionIds, SaveRejected, NothingToPoll, PollRun,
     FinishSeedPhase, Compare, RecordDecision, SaveCompleted, Start, Approve,
     Reject, AdvanceIteration, Finalize, Enter, EnterWith, runVars
<1>4. disturbed' \in {disturbed, disturbed \cup {Of(c)}}
      \/ \E i \in Iter : disturbed' = disturbed \cup {i}
  BY DEF CallStep, PollFails, CallBegin, AnalyzeFeedback, Propose,
     ProposeFromPlan, SaveApproval, SaveRunning, SubmitSeed, WaitForSeed,
     AllSubmitted, SaveExecutionIds, SaveRejected, NothingToPoll, PollRun,
     FinishSeedPhase, Compare, RecordDecision, SaveCompleted, Start, Approve,
     Reject, AdvanceIteration, Finalize, Enter, EnterWith, Broken
<1>5. approvals' \in {approvals, approvals \cup {Of(c)}}
  BY DEF CallStep, PollFails, CallBegin, AnalyzeFeedback, Propose,
     ProposeFromPlan, SaveApproval, SaveRunning, SubmitSeed, WaitForSeed,
     AllSubmitted, SaveExecutionIds, SaveRejected, NothingToPoll, PollRun,
     FinishSeedPhase, Compare, RecordDecision, SaveCompleted, Start, Approve,
     Reject, AdvanceIteration, Finalize, Enter, EnterWith
<1>6. decisions' = decisions \/ RecordDecision(c)
  BY DEF CallStep, PollFails, CallBegin, AnalyzeFeedback, Propose,
     ProposeFromPlan, SaveApproval, SaveRunning, SubmitSeed, WaitForSeed,
     AllSubmitted, SaveExecutionIds, SaveRejected, NothingToPoll, PollRun,
     FinishSeedPhase, Compare, SaveCompleted, Start, Approve, Reject,
     AdvanceIteration, Finalize, Enter, EnterWith
<1>7. RecordDecision(c) => decisions' \in [Iter -> 0..MaxDecisions]
  BY <1>1, <1>2, IterationBounds DEF RecordDecision
<1>8. runs' = runs \/ SubmitSeed(c)
  BY DEF CallStep, PollFails, CallBegin, AnalyzeFeedback, Propose,
     ProposeFromPlan, SaveApproval, SaveRunning, WaitForSeed, AllSubmitted,
     SaveExecutionIds, SaveRejected, NothingToPoll, PollRun, FinishSeedPhase,
     Compare, RecordDecision, SaveCompleted, Start, Approve, Reject,
     AdvanceIteration, Finalize, Enter, EnterWith, runVars
<1>9. /\ \E n \in 0..MaxRuns : runs' \in [1..n -> [of : Iter, status : RunStatus]]
      /\ Submitted \subseteq Submitted'
  <2>1. CASE runs' = runs
    BY <2>1, <1>1 DEF Submitted
  <2>2. CASE SubmitSeed(c) /\ runs' # runs
    <3>1. PICK n : n = Len(runs) + 1
      OBVIOUS
    <3>2. PICK i \in Iter : i = Of(c)
      BY <1>2
    <3>3. n \in Run /\ runs' = Append(runs, [of |-> i, status |-> "active"])
      BY <2>2, <3>1, <3>2 DEF SubmitSeed
    <3>4. /\ runs' \in [1..n -> [of : Iter, status : RunStatus]]
          /\ Submitted' = Submitted \cup {n}
      BY <3>1, <3>3, RunAdded DEF IterInv
    <3>5. n \in 0..MaxRuns
      BY <3>3, IterationBounds DEF Run
    <3>6. QED BY <3>4, <3>5
  <2>3. QED BY <1>8, <2>1, <2>2
<1>10. QED BY <1>1, <1>2, <1>3, <1>4, <1>5, <1>6, <1>7, <1>9

(* No step of a call makes a decision or a run without what it takes.        *)
LEMMA CallDecides ==
  ASSUME IterInv, NEW c \in Requester,
         CallStep(c) \/ PollFails(c) \/ \E i \in Iter : CallBegin(c, i), Grown,
         IterTypeOK'
  PROVE  /\ Completed(Submitted)' \subseteq shown'
         /\ \A i \in Iter :
              /\ decisions'[i] > 0 => Cardinality(RunsOf(i)' \cap shown') >= MinSeeds
              /\ RunsOf(i)' # {} => i \in approvals'
<1>1. /\ Completed(Submitted) \subseteq shown
      /\ \A i \in Iter : /\ decisions[i] > 0 => Cardinality(RunsOf(i) \cap shown) >= MinSeeds
                         /\ RunsOf(i) # {} => i \in approvals
      /\ decisions \in [Iter -> 0..MaxDecisions]
      /\ MinSeeds \in Nat /\ MaxDecisions \in Nat
  <2>1. MinSeeds \in Nat /\ MaxDecisions \in Nat
    BY IterationBounds
  <2>2. decisions \in [Iter -> 0..MaxDecisions]
    BY DEF IterInv, IterTypeOK
  <2>3. QED BY <2>1, <2>2 DEF IterInv, DecisionsFit
<1>2. \A i \in Iter : /\ RunsOf(i) \subseteq Run /\ RunsOf(i)' \subseteq Run
                      /\ RunsOf(i) \subseteq RunsOf(i)'
  <2>1. IterTypeOK => Submitted \subseteq Run
    BY RunsTyped
  <2>2. (IterTypeOK => Submitted \subseteq Run)'
    BY <2>1, RunsTyped, PTL
  <2>3. Submitted \subseteq Run /\ Submitted' \subseteq Run
    BY <2>1, <2>2 DEF IterInv
  <2>4. QED BY <2>3 DEF RunsOf, Grown
<1>3. \A i \in Iter : Cardinality(RunsOf(i) \cap shown) >= MinSeeds
                        => Cardinality(RunsOf(i)' \cap shown') >= MinSeeds
  <2>1. SUFFICES ASSUME NEW i \in Iter, Cardinality(RunsOf(i) \cap shown) >= MinSeeds
                 PROVE  Cardinality(RunsOf(i)' \cap shown') >= MinSeeds
    OBVIOUS
  <2>2. /\ RunsOf(i) \cap shown \in SUBSET Run /\ RunsOf(i)' \cap shown' \in SUBSET Run
        /\ RunsOf(i) \cap shown \subseteq RunsOf(i)' \cap shown'
    BY <1>2 DEF Grown
  <2>3. /\ Cardinality(RunsOf(i) \cap shown) <= Cardinality(RunsOf(i)' \cap shown')
        /\ Cardinality(RunsOf(i) \cap shown) \in Nat
        /\ Cardinality(RunsOf(i)' \cap shown') \in Nat
    BY <2>2, MoreRuns
  <2>4. QED BY <2>1, <2>3, <1>1
<1>4. decisions' = decisions \/ RecordDecision(c)
  BY DEF CallStep, PollFails, CallBegin, AnalyzeFeedback, Propose,
     ProposeFromPlan, SaveApproval, SaveRunning, SubmitSeed, WaitForSeed,
     AllSubmitted, SaveExecutionIds, SaveRejected, NothingToPoll, PollRun,
     FinishSeedPhase, Compare, SaveCompleted, Start, Approve, Reject,
     AdvanceIteration, Finalize, Enter, EnterWith
<1>5. ASSUME NEW i \in Iter, decisions'[i] > 0
      PROVE  Cardinality(RunsOf(i) \cap shown) >= MinSeeds
  <2>1. CASE decisions'[i] = decisions[i]
    BY <2>1, <1>1, <1>5
  <2>2. CASE decisions'[i] # decisions[i]
    <3>1. /\ At(c, "decide") /\ i = Of(c)
      BY <2>2, <1>1, <1>4 DEF RecordDecision, Step
    <3>2. /\ request[c].copy.status = "waiting_decision" /\ SessionFits(i, request[c].copy)
      BY <3>1, CallHas DEF At, StatusAt
    <3>3. /\ request[c].copy.ids \subseteq RunsOf(i)
          /\ Cardinality(request[c].copy.ids \cap shown) >= MinSeeds
      BY <3>2 DEF SessionFits, Weighed
    <3>4. request[c].copy.ids \cap shown \subseteq RunsOf(i) \cap shown
          /\ RunsOf(i) \cap shown \in SUBSET Run
      BY <3>3, <1>2
    <3>5. /\ Cardinality(request[c].copy.ids \cap shown) <= Cardinality(RunsOf(i) \cap shown)
          /\ Cardinality(request[c].copy.ids \cap shown) \in Nat
          /\ Cardinality(RunsOf(i) \cap shown) \in Nat
      BY <3>4, MoreRuns
    <3>6. QED BY <3>3, <3>5, <1>1
  <2>3. QED BY <2>1, <2>2
<1>6. runs' = runs \/ SubmitSeed(c)
  BY DEF CallStep, PollFails, CallBegin, AnalyzeFeedback, Propose,
     ProposeFromPlan, SaveApproval, SaveRunning, WaitForSeed, AllSubmitted,
     SaveExecutionIds, SaveRejected, NothingToPoll, PollRun, FinishSeedPhase,
     Compare, RecordDecision, SaveCompleted, Start, Approve, Reject,
     AdvanceIteration, Finalize, Enter, EnterWith, runVars
<1>7. /\ Completed(Submitted)' \subseteq shown'
      /\ \A i \in Iter : RunsOf(i)' # {} => i \in approvals'
  <2>1. CASE runs' = runs
    BY <2>1, <1>1 DEF Completed, Submitted, RunsOf, Grown
  <2>2. CASE SubmitSeed(c) /\ runs' # runs
    <3>1. PICK n : n = Len(runs) + 1
      OBVIOUS
    <3>2. request[c].at = "seed" /\ Of(c) \in approvals
      BY <2>2, CallHas DEF SubmitSeed, At, RequestFits, Submits
    <3>3. PICK i \in Iter : i = Of(c)
      BY <3>2 DEF IterInv, IterTypeOK
    <3>4. n \in Run /\ runs' = Append(runs, [of |-> i, status |-> "active"])
      BY <2>2, <3>1, <3>3 DEF SubmitSeed
    <3>5. /\ Submitted' = Submitted \cup {n}
          /\ \A x \in Submitted : runs'[x] = runs[x]
          /\ runs'[n] = [of |-> i, status |-> "active"]
          /\ \A j \in Iter \ {i} : RunsOf(j)' = RunsOf(j)
      BY <3>1, <3>4, RunAdded DEF IterInv
    <3>6. Completed(Submitted)' \subseteq Completed(Submitted)
      BY <3>5 DEF Completed
    <3>7. QED BY <1>1, <3>2, <3>3, <3>5, <3>6 DEF Grown
  <2>3. QED BY <1>6, <2>1, <2>2
<1>8. QED BY <1>3, <1>5, <1>7

LEMMA IterInvInit == IterInit => IterInv
<1> SUFFICES ASSUME IterInit PROVE IterInv
  OBVIOUS
<1>1. /\ session = [i \in Iter |-> NoSession] /\ request = [c \in Requester |-> NoRequest]
      /\ runs = << >> /\ shown = {} /\ approvals = {} /\ disturbed = {}
      /\ decisions = [i \in Iter |-> 0] /\ rewrites = 0 /\ deaths = 0
  BY DEF IterInit
<1>2. runs \in [1..0 -> [of : Iter, status : RunStatus]] /\ Submitted = {}
  <2>1. 1..0 = {} /\ DOMAIN runs = {}
    BY <1>1
  <2>2. runs = [x \in {} |-> 0]
    BY <1>1
  <2>3. QED BY <2>1, <2>2 DEF Submitted
<1>3. \A i \in Iter : RunsOf(i) = {}
  BY <1>2 DEF RunsOf
<1>4. IterTypeOK
  <2>1. 0 \in 0..MaxRuns /\ 0 \in 0..MaxDecisions /\ 0 \in 0..MaxRewrites /\ 0 \in 0..MaxDeaths
    BY IterationBounds
  <2>2. QED BY <1>1, <1>2, <2>1, NothingTyped DEF IterTypeOK
<1>5. \A i \in Iter : session[i].ids = {} /\ session[i].status = "absent"
  BY <1>1 DEF NoSession
<1>6. SessionsFit
  BY <1>5 DEF SessionsFit, SessionFits, Weighed
<1>7. RequestsFit
  BY <1>1, NothingFits DEF RequestsFit
<1>8. \A c \in Requester : At(c, "idle")
  BY <1>1, NothingTyped DEF At
<1>9. DecisionsFit
  BY <1>1, <1>2, <1>3, <1>8 DEF DecisionsFit, Completed
<1>10. AllUndisturbed
  BY <1>3, <1>5, <1>8 DEF AllUndisturbed, Undisturbed
<1>11. QED BY <1>4, <1>6, <1>7, <1>9, <1>10 DEF IterInv

(* The runs seen completed only grow, and so does what was decided on. *)
LEMMA MoreSeen ==
  ASSUME IterTypeOK, Submitted' = Submitted, \A i \in Iter : RunsOf(i)' = RunsOf(i), Grown,
         NEW i \in Iter, Cardinality(RunsOf(i) \cap shown) >= MinSeeds
  PROVE  Cardinality(RunsOf(i)' \cap shown') >= MinSeeds
<1>1. RunsOf(i) \in SUBSET Run
  BY RunsTyped DEF RunsOf
<1>2. /\ RunsOf(i)' \cap shown' = RunsOf(i) \cap shown'
      /\ RunsOf(i) \cap shown \subseteq RunsOf(i) \cap shown'
  BY DEF Grown
<1>3. /\ Cardinality(RunsOf(i) \cap shown) <= Cardinality(RunsOf(i) \cap shown')
      /\ Cardinality(RunsOf(i) \cap shown) \in Nat /\ Cardinality(RunsOf(i) \cap shown') \in Nat
  BY <1>1, <1>2, MoreRuns
<1>4. MinSeeds \in Nat
  BY IterationBounds
<1>5. QED BY <1>2, <1>3, <1>4

LEMMA IterInvNext == IterInv /\ [IterNext]_iterVars => IterInv'
<1> SUFFICES ASSUME IterInv, [IterNext]_iterVars PROVE IterInv'
  OBVIOUS
<1>t. IterTypeOK /\ DecisionsFit
  BY DEF IterInv
<1>1. ASSUME NEW c \in Requester, CallStep(c) \/ PollFails(c) \/ \E i \in Iter : CallBegin(c, i)
      PROVE  IterInv'
  <2>1. \E i \in Iter : Grown /\ Works(c, i) /\ \E r, s : Moves(c, i, r, s)
    <3>1. CASE CallStep(c) \/ PollFails(c)
      <4>1. PICK i \in Iter : i = Of(c)
        BY <1>t DEF IterTypeOK, Of, Request
      <4>2. QED BY <3>1, <4>1, CallMoves
    <3>2. CASE \E i \in Iter : CallBegin(c, i)
      BY <3>2, BeginMoves
    <3>3. QED BY <1>1, <3>1, <3>2
  <2>2. PICK i \in Iter : Grown /\ Works(c, i) /\ \E r, s : Moves(c, i, r, s)
    BY <2>1
  <2>3. /\ session' \in [Iter -> Session] /\ request' \in [Requester -> Request]
        /\ SessionsFit' /\ RequestsFit' /\ AllUndisturbed'
        /\ \A b \in Requester : ~At(b, "idle")' => session'[request'[b].of].status # "absent"
    BY <2>2, MovesKeep
  <2>4. IterTypeOK'
    BY <1>1, <2>3, CallTyped DEF IterTypeOK
  <2>5. /\ Completed(Submitted)' \subseteq shown'
        /\ \A j \in Iter :
              /\ decisions'[j] > 0 => Cardinality(RunsOf(j)' \cap shown') >= MinSeeds
              /\ RunsOf(j)' # {} => j \in approvals'
    BY <1>1, <2>2, <2>4, CallDecides
  <2>6. DecisionsFit'
    BY <2>3, <2>5 DEF DecisionsFit, Of
  <2>7. QED BY <2>3, <2>4, <2>6 DEF IterInv
<1>2. ASSUME NEW x \in Run, EndRun(x) \/ Rewrite(x)
      PROVE  IterInv'
  <2>1. PICK t \in RunStatus : SetRun(x, t)
    BY <1>2 DEF EndRun, Rewrite, RunStatus
  <2>2. x \in Submitted /\ rewrites' \in 0..MaxRewrites
    BY <1>2, <1>t, IterationBounds DEF EndRun, Rewrite, IterTypeOK
  <2>3. UNCHANGED <<session, approvals, decisions, request, disturbed, deaths>>
    BY <2>1 DEF SetRun
  <2>4. /\ Grown /\ \A i \in Iter : RunsOf(i)' = RunsOf(i)
        /\ \E n \in 0..MaxRuns : runs' \in [1..n -> [of : Iter, status : RunStatus]]
        /\ Submitted' = Submitted /\ shown' \subseteq Submitted'
        /\ Completed(Submitted)' \subseteq shown'
    BY <2>1, <2>2, RowsWritten
  <2>5. IterTypeOK'
    BY <1>t, <2>2, <2>3, <2>4 DEF IterTypeOK
  <2>6. SessionsFit' /\ RequestsFit' /\ AllUndisturbed'
    BY <2>3, <2>4, RestKeeps
  <2>7. \A i \in Iter : decisions'[i] > 0 => Cardinality(RunsOf(i)' \cap shown') >= MinSeeds
    BY <1>t, <2>3, <2>4, MoreSeen DEF DecisionsFit
  <2>8. DecisionsFit'
    BY <1>t, <2>3, <2>4, <2>7 DEF DecisionsFit, At, Of
  <2>9. QED BY <2>5, <2>6, <2>8 DEF IterInv
<1>3. CASE ProcessDies
  <2>1. /\ deaths' \in 0..MaxDeaths /\ request' = [c \in Requester |-> NoRequest]
        /\ disturbed' = disturbed \cup {Of(c) : c \in {d \in Requester : ~At(d, "idle")}}
        /\ UNCHANGED <<session, approvals, decisions, runs, shown, rewrites>>
    BY <1>3, <1>t, IterationBounds DEF ProcessDies, IterTypeOK, runVars
  <2>2. Grown /\ \A i \in Iter : RunsOf(i)' = RunsOf(i)
    BY <2>1, SameGrown
  <2>3. Submitted' = Submitted /\ Completed(Submitted)' = Completed(Submitted)
    BY <2>1 DEF Submitted, Completed
  <2>4. \A c \in Requester : At(c, "idle")' /\ request'[c] = NoRequest
    BY <2>1, NothingTyped DEF At
  <2>5. IterTypeOK'
    <3>1. disturbed' \subseteq Iter
      BY <2>1, <1>t DEF IterTypeOK, Of, Request
    <3>2. request' \in [Requester -> Request]
      BY <2>1, NothingTyped
    <3>3. QED BY <1>t, <2>1, <2>3, <3>1, <3>2 DEF IterTypeOK
  <2>6. SessionsFit'
    BY <2>1, <2>2 DEF IterInv, SessionsFit, SessionFits
  <2>7. RequestsFit'
    <3>1. PICK q \in Request : q = NoRequest
      BY NothingTyped
    <3>2. RequestFits(q)'
      BY <3>1, <2>2, NothingFits, RequestStillFits
    <3>3. QED BY <2>4, <3>1, <3>2 DEF RequestsFit, RequestFits, SessionFits
  <2>8. DecisionsFit'
    BY <1>t, <2>1, <2>2, <2>3, <2>4 DEF DecisionsFit
  <2>9. AllUndisturbed'
    <3>1. SUFFICES ASSUME NEW i \in Iter, i \notin disturbed' PROVE Undisturbed(i)'
      BY DEF AllUndisturbed
    <3>2. Undisturbed(i) /\ \A c \in Requester : At(c, "idle") \/ Of(c) # i
      BY <2>1, <3>1 DEF IterInv, AllUndisturbed
    <3>3. RunsOf(i)' = session'[i].ids
      BY <2>1, <2>2, <3>2 DEF Undisturbed
    <3>4. QED BY <2>4, <3>3 DEF Undisturbed
  <2>10. QED BY <2>5, <2>6, <2>7, <2>8, <2>9 DEF IterInv
<1>4. CASE UNCHANGED iterVars
  <2>1. UNCHANGED <<session, approvals, decisions, runs, shown, rewrites, request, disturbed,
                    deaths>>
    BY <1>4 DEF iterVars, runVars
  <2>2. Grown /\ \A i \in Iter : RunsOf(i)' = RunsOf(i)
    BY <2>1, SameGrown
  <2>3. Submitted' = Submitted /\ Completed(Submitted)' = Completed(Submitted)
    BY <2>1 DEF Submitted, Completed
  <2>4. SessionsFit' /\ RequestsFit' /\ AllUndisturbed'
    BY <2>1, <2>2, RestKeeps
  <2>5. IterTypeOK'
    BY <1>t, <2>1, <2>3 DEF IterTypeOK
  <2>6. DecisionsFit'
    BY <1>t, <2>1, <2>2, <2>3 DEF DecisionsFit, At, Of
  <2>7. QED BY <2>4, <2>5, <2>6 DEF IterInv
<1>5. QED BY <1>1, <1>2, <1>3, <1>4 DEF IterNext

(* However requests overlap and die: sessions name runs of their own          *)
(* iteration, enough of them seen completed before a decision is asked for,   *)
(* and on an iteration nothing disturbed the one call's copy is the row.      *)
THEOREM IterInvHolds == IterSpec => []IterInv
BY IterInvInit, IterInvNext, PTL DEF IterSpec

(* However requests on an iteration race, break off or die with the process, *)
(* it asks for a decision, or has one, only on enough approved runs of its   *)
(* own that were seen completed.                                             *)
THEOREM DecisionsAreSound == IterSpec => []DecisionsSound
<1>1. IterInv => DecisionsSound
  <2> SUFFICES ASSUME IterInv PROVE DecidedOnEvidence
    BY DEF DecisionsSound, IterInv
  <2>1. ASSUME NEW i \in Iter
        PROVE  /\ session[i].status \in {"waiting_decision", "completed"} =>
                    /\ Cardinality(session[i].ids \cap shown) >= MinSeeds
                    /\ Cardinality(RunsOf(i) \cap shown) >= MinSeeds
    <3>1. SessionFits(i, session[i]) /\ session[i] \in Session /\ RunsOf(i) \in SUBSET Run
      BY RunsTyped DEF IterInv, SessionsFit, IterTypeOK, RunsOf
    <3>2. session[i].ids \cap shown \subseteq RunsOf(i) \cap shown
          /\ RunsOf(i) \cap shown \in SUBSET Run
      BY <3>1 DEF SessionFits
    <3>3. /\ Cardinality(session[i].ids \cap shown) <= Cardinality(RunsOf(i) \cap shown)
          /\ Cardinality(session[i].ids \cap shown) \in Nat
          /\ Cardinality(RunsOf(i) \cap shown) \in Nat
      BY <3>2, MoreRuns
    <3>4. MinSeeds \in Nat
      BY IterationBounds
    <3>5. QED BY <3>1, <3>3, <3>4 DEF SessionFits, Weighed
  <2>2. QED BY <2>1 DEF DecidedOnEvidence, IterInv, DecisionsFit
<1>2. QED BY <1>1, IterInvHolds, PTL

(* Where nothing overlapped and nothing broke off, no run is forgotten.      *)
THEOREM NoneForgotten == IterSpec => []NoRunForgotten
<1>1. IterInv => NoRunForgotten
  BY DEF IterInv, AllUndisturbed, Undisturbed, NoRunForgotten, At, Of, Submits
<1>2. QED BY <1>1, IterInvHolds, PTL

(* What is closed undisturbed stays closed, with its runs and its decisions. *)
THEOREM ClosedForGood == IterSpec => ClosedStaysClosed
<1>1. IterInv /\ [IterNext]_iterVars =>
        [\A i \in Iter : session[i].status \in Closed /\ i \notin disturbed' =>
           session'[i] = session[i] /\ decisions'[i] = decisions[i]]_iterVars
  <2> SUFFICES ASSUME IterInv, IterNext, NEW i \in Iter, session[i].status \in Closed,
                      i \notin disturbed'
               PROVE  session'[i] = session[i] /\ decisions'[i] = decisions[i]
    BY DEF iterVars
  <2>1. ASSUME NEW c \in Requester, CallStep(c) \/ PollFails(c)
        PROVE  session'[i] = session[i] /\ decisions'[i] = decisions[i]
    <3>1. PICK j \in Iter : j = Of(c)
      BY DEF IterInv, IterTypeOK, Of, Request
    <3>2. PICK r, s : Works(c, j) /\ Moves(c, j, r, s)
      BY <2>1, <3>1, CallMoves
    <3>3. ~At(c, "idle")
      BY <2>1, <3>1, CallMoves
    <3>4. session'[i] = session[i]
      BY <3>2 DEF Moves, IterInv, IterTypeOK
    <3>5. i \notin disturbed
      BY <3>2 DEF Works
    <3>6. j # i
      BY <3>1, <3>3, <3>5, CallHas, CopyOpen
    <3>7. decisions'[i] = decisions[i]
      BY <2>1, <3>1, <3>6
         DEF CallStep, PollFails, AnalyzeFeedback, Propose, ProposeFromPlan,
             SaveApproval, SaveRunning, SubmitSeed, WaitForSeed, AllSubmitted,
             SaveExecutionIds, SaveRejected, NothingToPoll, PollRun,
             FinishSeedPhase, Compare, RecordDecision, SaveCompleted, IterInv,
             IterTypeOK
    <3>8. QED BY <3>4, <3>7
  <2>2. ASSUME NEW c \in Requester, NEW j \in Iter, CallBegin(c, j)
        PROVE  session'[i] = session[i] /\ decisions'[i] = decisions[i]
    <3>1. PICK r, s : Moves(c, j, r, s)
      BY <2>2, BeginMoves
    <3>2. session'[i] = session[i]
      BY <3>1 DEF Moves, IterInv, IterTypeOK
    <3>3. UNCHANGED decisions
      BY <2>2
         DEF CallBegin, Start, Approve, Reject, AdvanceIteration, Finalize,
             Enter, EnterWith
    <3>4. QED BY <3>2, <3>3
  <2>3. ASSUME (\E x \in Run : EndRun(x) \/ Rewrite(x)) \/ ProcessDies
        PROVE  session'[i] = session[i] /\ decisions'[i] = decisions[i]
    BY <2>3 DEF EndRun, Rewrite, SetRun, ProcessDies
  <2>4. QED BY <2>1, <2>2, <2>3 DEF IterNext
<1>2. QED BY <1>1, IterInvHolds, PTL DEF IterSpec, ClosedStaysClosed

-----------------------------------------------------------------------------

(***************************************************************************)
(* The tree                                                                *)
(***************************************************************************)

(* The calls under way, those about to insert a node, and those that add one *)
(* or hold the node that they add.                                           *)
Active == {c \in Caller : ~Doing(c, "idle")}
Inserting == {c \in Caller : Doing(c, "insert")}
Holds == {"register", "insert", "link", "await"}
Adds == {"contract"} \cup Holds
Parents == {"choose", "plan", "settle"} \cup Adds

(* A row of a node, or a copy of one.  The root is no iteration's node; the  *)
(* others have one, and are evaluated only when it has completed.            *)
RowFits(n, e) ==
  /\ n.status = "absent" => n.plan = None /\ ~n.iter
  /\ n.status # "absent" => e \in Present(nodes)
  /\ e = Root => ~n.iter /\ n.parent = None /\ n.status \in {"absent", "created"}
  /\ e # Root /\ n.status # "absent" => iters[e] # "absent"
  /\ e # Root /\ n.status = "evaluated" => iters[e] = "completed"

(* What the place of a call says of it. *)
SearchFits(q) ==
  /\ \A e \in Exp : RowFits(q.nodes[e], e)
  /\ q.at \in Parents => q.of \in Present(nodes)
  /\ q.at = "choose" => q.tree.status # "absent"
  /\ q.at = "plan" => q.nodes[q.of].status # "absent"
  /\ q.at = "stop" => q.verdict \in Over
  /\ q.at = "sync" =>
       /\ q.todo # {}
       /\ \A e \in q.todo : e # Root /\ q.nodes[e].status # "absent"
  /\ q.at \in Holds =>
       \E k \in Exp \ {Root} : q.todo = {k} /\ k # q.of /\ iters[k] # "absent"
  /\ q.at \in {"link", "await"} => q.todo \subseteq Present(nodes)

(* Iterations are numbered as they come; the root is there before any other  *)
(* node, and the tree before the root and before any call.                   *)
Grows ==
  /\ \E n \in 0..MaxIter : \A e \in Exp \ {Root} : iters[e] # "absent" <=> e <= n
  /\ Root \notin Present(nodes) => Present(nodes) = {}
  /\ tree.status = "absent" => tree = NoTree /\ Present(nodes) = {} /\ Active = {}

(* Calls that are under way beyond the first each count as an overlap, and   *)
(* every node beyond the limit is there because of one.                      *)
Counted ==
  /\ IsFiniteSet(Active) /\ Cardinality(Active) <= overlaps + 1
  /\ Cardinality(Present(nodes)) + Cardinality(Inserting) <= MaxNodes + overlaps

TreeInv ==
  /\ TypeOK
  /\ \A e \in Exp : RowFits(nodes[e], e)
  /\ \A c \in Caller : SearchFits(call[c])
  /\ Grows /\ Counted

Evaluated == {e \in Exp : nodes[e].status = "evaluated"}
Room(e) == Cardinality(Children(nodes, e)) < MaxChildren

(* Without overlaps and crashes, q being the one call there may be: plans and *)
(* the selected node,                                                        *)
PlansQuiet(q) ==
  /\ \A e \in Present(nodes) \ {Root} :
       nodes[e].plan # None \/ (q.at = "link" /\ e \in q.todo)
  /\ nodes[Root].plan = None => WithPlan = {}
  /\ tree.selected \in WithPlan \/ WithPlan = {}
  /\ q.at \notin {"link", "await"} =>
       \A e \in Exp : tree.selected = e /\ nodes[e].plan = e => Room(e)
  /\ \A e \in Exp : Cardinality(Children(nodes, e)) <= MaxChildren

(* how many results were compared, *)
Compared == IF tree.seen THEN tree.rounds + 1 ELSE 0
ResultsQuiet ==
  /\ ~tree.seen => tree.rounds = 0
  /\ Compared <= Cardinality(Evaluated)
  /\ tree.status = "completed" => Cardinality(Evaluated) > MaxRounds

(* and the call itself, whose copies are the rows. *)
CallQuiet(q) ==
  /\ q.at = "score" => q.nodes = nodes
  /\ q.at = "choose" =>
       /\ q.tree.selected = q.of /\ q.tree.rounds = tree.rounds /\ q.tree.seen = tree.seen
       /\ ~IsTreeTerminal(tree) /\ ~IsTreeTerminal(q.tree) /\ Room(q.of)
  /\ q.at \in {"plan", "settle"} => tree.selected = q.of /\ Room(q.of)
  /\ q.at = "plan" => q.nodes[q.of] = nodes[q.of]
  /\ q.at = "settle" => nodes[q.of].plan = q.of
  /\ q.at \in Adds => /\ tree.status \in {"waiting_approval", "active"}
                      /\ nodes[q.of].plan = q.of
  /\ q.at \in {"contract", "register", "insert"} => Room(q.of)
  /\ q.at \in {"register", "insert"} => q.todo \cap Present(nodes) = {}
  /\ q.at = "link" =>
       \A k \in q.todo : nodes[k].status = "created" /\ nodes[k].parent = q.of
  /\ q.at = "await" => \A k \in q.todo : nodes[k].plan = q.of
  /\ q.at = "sync" =>
       \A e \in q.todo : q.nodes[e] = nodes[e] /\ nodes[e].status # "evaluated"
  /\ (q.at \in {"sync", "sum"} /\ q.scored) \/ q.at = "count" =>
       Compared < Cardinality(Evaluated)
  /\ q.at = "stop" /\ q.verdict = "completed" => Cardinality(Evaluated) > MaxRounds

Calm(q) == PlansQuiet(q) /\ ResultsQuiet /\ CallQuiet(q)
Current == IF Active = {} THEN {Idle} ELSE {call[c] : c \in Active}
QuietInv == ~Disturbed => /\ \A c, d \in Active : c = d
                          /\ \A q \in Current : Calm(q)

-----------------------------------------------------------------------------
(* The records that stand for nothing have their types, and fit. *)
LEMMA BlankTyped ==
  /\ NoNode \in Node /\ NoTree \in Tree /\ NoNodes \in [Exp -> Node] /\ Idle \in Call
  /\ Idle.at = "idle" /\ Idle.nodes = NoNodes /\ Idle.of = None /\ Idle.todo = {}
  /\ Root \in Exp /\ IsFiniteSet(Exp) /\ Exp \subseteq Nat /\ None \notin Exp
  /\ \A e \in Exp : NoNodes[e] = NoNode
<1>1. Root \in Exp /\ Exp \subseteq Nat /\ None \notin Exp
  BY TreeLimits, NoneIsNoNode DEF Exp, Root
<1>2. IsFiniteSet(Exp)
  BY TreeLimits, FS_Interval DEF Exp, Root
<1>3. NoNode \in Node
  BY DEF NoNode, Node, MaybeExp
<1>4. NoTree \in Tree
  BY TreeLimits DEF NoTree, Tree, TreeStatus, MaybeExp
<1>5. NoNodes \in [Exp -> Node]
  BY <1>3 DEF NoNodes
<1>6. Idle \in Call
  BY <1>4, <1>5 DEF Idle, Call, CallLabel, MaybeExp
<1>7. QED BY <1>1, <1>2, <1>3, <1>4, <1>5, <1>6 DEF Idle, NoNodes

LEMMA BlankFits == \A e \in Exp : RowFits(NoNode, e)
BY DEF RowFits, NoNode

LEMMA IdleFits == SearchFits(Idle)
BY BlankTyped, BlankFits DEF SearchFits, Parents, Adds, Holds

(* A set of nodes that is not empty has a smallest one. *)
LEMMA MinOf ==
  ASSUME NEW S \in SUBSET Exp, S # {}
  PROVE  Min(S) \in S
<1>1. S \in SUBSET Nat
  BY BlankTyped
<1>2. \E n \in S : \A m \in S : <<m, n>> \notin OpToRel(<, Nat)
  BY <1>1, NatLessThanWellFounded, WFMin
<1>3. ASSUME NEW m \in Nat, NEW n \in Nat, m < n
      PROVE  <<m, n>> \in OpToRel(<, Nat)
  BY <1>3 DEF OpToRel
<1>4. \E n \in S : \A m \in S : ~(m < n)
  BY <1>1, <1>2, <1>3
<1>5. \E n \in S : \A m \in S : n <= m
  BY <1>1, <1>4
<1>6. QED BY <1>5 DEF Min

(* Sets of nodes are finite, and more of them are no fewer. *)
LEMMA MoreNodes ==
  ASSUME NEW S \in SUBSET Exp, NEW T \in SUBSET Exp, S \subseteq T
  PROVE  /\ Cardinality(S) \in Nat /\ Cardinality(T) \in Nat
         /\ Cardinality(S) <= Cardinality(T) /\ IsFiniteSet(S)
<1>1. IsFiniteSet(T)
  BY BlankTyped, FS_Subset
<1>2. QED BY <1>1, FS_Subset, FS_CardinalityType

(* A node more is one more at most. *)
LEMMA OneNodeMore ==
  ASSUME NEW S \in SUBSET Exp, NEW e \in Exp
  PROVE  /\ Cardinality(S \cup {e}) \in Nat /\ Cardinality(S) \in Nat
         /\ Cardinality(S \cup {e}) = IF e \in S THEN Cardinality(S) ELSE Cardinality(S) + 1
<1>1. IsFiniteSet(S) /\ Cardinality(S) \in Nat
  BY MoreNodes
<1>2. QED BY <1>1, FS_AddElement, FS_CardinalityType

LEMMA PresentNodes == Present(nodes) \subseteq Exp /\ \A e \in Exp :
                        e \in Present(nodes) <=> nodes[e].status # "absent"
BY DEF Present

(* Nodes stay, and so do iterations, above all those that have completed.    *)
Ahead ==
  /\ Present(nodes) \subseteq Present(nodes)'
  /\ \A e \in Exp \ {Root} :
       /\ iters[e] # "absent" => iters'[e] # "absent"
       /\ iters[e] = "completed" => iters'[e] = "completed"

LEMMA RowStillFits ==
  ASSUME Ahead, NEW n, NEW e \in Exp, RowFits(n, e)
  PROVE  RowFits(n, e)'
BY DEF RowFits, Ahead

LEMMA SearchStillFits ==
  ASSUME Ahead, NEW q \in Call, SearchFits(q)
  PROVE  SearchFits(q)'
<1>1. \A e \in Exp : RowFits(q.nodes[e], e)'
  BY RowStillFits DEF SearchFits
<1>2. q.at \in Parents => q.of \in Present(nodes)'
  BY DEF SearchFits, Ahead
<1>3. q.at \in Holds => \E k \in Exp \ {Root} : q.todo = {k} /\ k # q.of /\ iters'[k] # "absent"
  BY DEF SearchFits, Ahead
<1>4. q.at \in {"link", "await"} => q.todo \subseteq Present(nodes)'
  BY DEF SearchFits, Ahead
<1>5. QED BY <1>1, <1>2, <1>3, <1>4 DEF SearchFits

(* A step of c leaves the record r of its call. *)
Turns(c, r) ==
  /\ r \in Call /\ call' = [call EXCEPT ![c] = r] /\ SearchFits(r)'
  /\ tree' \in Tree /\ nodes' \in [Exp -> Node] /\ iters' \in [Exp \ {Root} -> IterStatus]
  /\ \A e \in Exp : RowFits(nodes[e], e)'
  /\ Ahead

(* What the call of c has. *)
LEMMA SearchHas ==
  ASSUME TreeInv, NEW c \in Caller
  PROVE  /\ call[c] \in Call /\ SearchFits(call[c]) /\ call \in [Caller -> Call]
         /\ tree \in Tree /\ nodes \in [Exp -> Node] /\ iters \in [Exp \ {Root} -> IterStatus]
         /\ \A e \in Exp : RowFits(nodes[e], e)
         /\ left \in 0..NodeBudget
BY DEF TreeInv, TypeOK

LEMMA RowsHave ==
  ASSUME TreeInv
  PROVE  /\ call \in [Caller -> Call] /\ tree \in Tree /\ nodes \in [Exp -> Node]
         /\ iters \in [Exp \ {Root} -> IterStatus]
         /\ \A e \in Exp : RowFits(nodes[e], e)
         /\ \A b \in Caller : call[b] \in Call /\ SearchFits(call[b])
BY DEF TreeInv, TypeOK

(* Where rows and iterations stay, all that must be shown is that the record fits. *)
LEMMA TurnsOnly ==
  ASSUME TreeInv, NEW c \in Caller, NEW r \in Call, call' = [call EXCEPT ![c] = r],
         UNCHANGED <<nodes, iters>>, tree' \in Tree, SearchFits(r)
  PROVE  Turns(c, r)
<1>1. Ahead
  BY DEF Ahead, Present
<1>2. \A e \in Exp : RowFits(nodes[e], e)'
  BY SearchHas DEF RowFits, Present
<1>3. QED BY <1>1, <1>2, SearchHas, SearchStillFits DEF Turns

(* Where one row is written, its new contents fit, and it was there or is new. *)
LEMMA TurnsWrites ==
  ASSUME TreeInv, NEW c \in Caller, NEW r \in Call, call' = [call EXCEPT ![c] = r],
         NEW e \in Exp, NEW n \in Node, nodes' = [nodes EXCEPT ![e] = n],
         UNCHANGED <<tree, iters>>, n.status # "absent",
         e = Root => ~n.iter /\ n.parent = None /\ n.status \in {"absent", "created"},
         e # Root => iters[e] # "absent",
         e # Root /\ n.status = "evaluated" => iters[e] = "completed",
         Ahead /\ e \in Present(nodes)' => SearchFits(r)'
  PROVE  Turns(c, r) /\ Present(nodes)' = Present(nodes) \cup {e}
<1>1. nodes' \in [Exp -> Node] /\ \A d \in Exp : nodes'[d] = IF d = e THEN n ELSE nodes[d]
  BY SearchHas
<1>2. Present(nodes)' = Present(nodes) \cup {e}
  BY <1>1 DEF Present
<1>3. Ahead
  BY <1>2 DEF Ahead
<1>4. ASSUME NEW d \in Exp PROVE RowFits(nodes[d], d)'
  <2>1. CASE d = e
    BY <2>1, <1>1, <1>2 DEF RowFits
  <2>2. CASE d # e
    <3>1. PICK m : m = nodes[d]
      OBVIOUS
    <3>2. RowFits(m, d)'
      BY <3>1, <1>3, SearchHas, RowStillFits
    <3>3. nodes'[d] = m
      BY <3>1, <2>2, <1>1
    <3>4. QED BY <3>2, <3>3 DEF RowFits
  <2>3. QED BY <2>1, <2>2
<1>5. QED BY <1>1, <1>2, <1>3, <1>4, SearchHas DEF Turns

(* The iteration that is started is a new one. *)
LEMMA FreshIter ==
  ASSUME TreeInv, NEW k \in Exp \ {Root},
         k = 1 + Cardinality({e \in Exp \ {Root} : iters[e] # "absent"})
  PROVE  /\ iters[k] = "absent"
         /\ \A e \in Exp \ {Root} : iters[e] # "absent" <=> e <= k - 1
         /\ k \in 1..MaxIter
<1> DEFINE S == {e \in Exp \ {Root} : iters[e] # "absent"}
<1>1. PICK n \in 0..MaxIter : \A e \in Exp \ {Root} : iters[e] # "absent" <=> e <= n
  BY DEF TreeInv, Grows
<1>2. MaxIter \in Nat /\ Exp = 0..MaxIter /\ Root = 0
  BY TreeLimits DEF Exp, Root
<1>3. S = 1..n
  BY <1>1, <1>2
<1> HIDE DEF S
<1>4. Cardinality(S) = n
  <2>1. n \in Int /\ 1 \in Int
    BY <1>2
  <2>2. Cardinality(1..n) = IF 1 > n THEN 0 ELSE n - 1 + 1
    BY <2>1, FS_Interval
  <2>3. QED BY <1>2, <1>3, <2>2
<1>5. k = 1 + n
  BY <1>4 DEF S
<1>6. QED BY <1>1, <1>2, <1>5

(* Every step of a call under way leaves a record that fits, and good rows.  *)
LEMMA ContinueTurns ==
  ASSUME TreeInv, NEW c \in Caller, Continue(c)
  PROVE  \E r : Turns(c, r)
<1> DEFINE Goal == \E r : Turns(c, r)
<1>1. PICK q \in Call : q = call[c]
  BY SearchHas
<1>2. /\ SearchFits(q) /\ call \in [Caller -> Call] /\ tree \in Tree
      /\ nodes \in [Exp -> Node] /\ iters \in [Exp \ {Root} -> IterStatus]
      /\ \A e \in Exp : q.nodes[e] \in Node
      /\ \A e \in Exp : RowFits(nodes[e], e) /\ RowFits(q.nodes[e], e)
  BY <1>1, SearchHas DEF SearchFits, Call
<1>3. q.at \in Parents => q.of \in Exp /\ q.of \in Present(nodes)
  BY <1>2 DEF SearchFits, Present
(* A step that only changes the record. *)
<1>o. ASSUME NEW r \in Call, call' = [call EXCEPT ![c] = r], UNCHANGED <<nodes, iters>>,
             tree' \in Tree, SearchFits(r)
      PROVE  Goal
  BY <1>o, TurnsOnly
<1>g. ASSUME NEW l \in CallLabel, Goto(c, l), UNCHANGED <<nodes, iters>>, tree' \in Tree,
             SearchFits([q EXCEPT !.at = l])
      PROVE  Goal
  <2>1. PICK r : r = [q EXCEPT !.at = l]
    OBVIOUS
  <2>2. r \in Call /\ call' = [call EXCEPT ![c] = r]
    BY <1>1, <1>2, <1>g, <2>1 DEF Goto, Call
  <2>3. QED BY <1>g, <1>o, <2>1, <2>2
<1>r. ASSUME Return(c), UNCHANGED <<nodes, iters>>, tree' \in Tree
      PROVE  Goal
  BY <1>r, <1>o, BlankTyped, IdleFits DEF Return
<1>w. ASSUME NEW r \in Call, call' = [call EXCEPT ![c] = r], NEW e \in Exp, NEW n \in Node,
             nodes' = [nodes EXCEPT ![e] = n], UNCHANGED <<tree, iters>>, n.status # "absent",
             e = Root => ~n.iter /\ n.parent = None /\ n.status \in {"absent", "created"},
             e # Root => iters[e] # "absent",
             e # Root /\ n.status = "evaluated" => iters[e] = "completed",
             Ahead /\ e \in Present(nodes)' => SearchFits(r)'
      PROVE  Goal
  BY <1>w, TurnsWrites
<1> SUFFICES Goal
  OBVIOUS
<1> HIDE DEF Goal
<1>4. CASE CreateRoot(c)
  <2>1. nodes' = [nodes EXCEPT ![Root].status = "created"] /\ Return(c) /\ UNCHANGED <<tree, iters>>
    BY <1>4 DEF CreateRoot
  <2>2. PICK n : n = [nodes[Root] EXCEPT !.status = "created"]
    OBVIOUS
  <2>3. /\ n \in Node /\ n.status = "created" /\ n.iter = nodes[Root].iter
        /\ n.parent = nodes[Root].parent
    BY <1>2, <2>2, BlankTyped DEF Node
  <2>4. nodes' = [nodes EXCEPT ![Root] = n]
    BY <1>2, <2>1, <2>2, BlankTyped
  <2>5. ~n.iter /\ n.parent = None
    BY <1>2, <2>3, BlankTyped DEF RowFits
  <2>6. Ahead => SearchFits(Idle)'
    BY BlankTyped, IdleFits, SearchStillFits
  <2>7. QED BY <2>1, <2>3, <2>4, <2>5, <2>6, <1>w, BlankTyped DEF Return
<1>5. CASE Score(c)
  <2>1. /\ q.at = "score" /\ UNCHANGED <<tree, iters>>
        /\ nodes' = [e \in Exp |-> IF e \in Present(q.nodes) THEN q.nodes[e] ELSE nodes[e]]
        /\ call' = [call EXCEPT ![c] = [Idle EXCEPT !.at = "rank"]]
    BY <1>1, <1>5 DEF Score, Doing
  <2>2. PICK r : r = [Idle EXCEPT !.at = "rank"]
    OBVIOUS
  <2>3. r \in Call /\ r.at = "rank" /\ r.nodes = NoNodes
    BY <2>2, BlankTyped DEF Call, CallLabel
  <2>4. SearchFits(r)
    BY <2>3, BlankTyped, BlankFits DEF SearchFits, Parents, Adds, Holds
  <2>5. nodes' \in [Exp -> Node] /\ \A e \in Exp : nodes'[e] \in {q.nodes[e], nodes[e]}
    BY <1>2, <2>1
  <2>6. Present(nodes)' = Present(nodes)
    BY <1>2, <2>1, <2>5 DEF Present, RowFits
  <2>7. Ahead
    BY <2>1, <2>6 DEF Ahead
  <2>8. ASSUME NEW e \in Exp PROVE RowFits(nodes[e], e)'
    <3>1. PICK n \in {q.nodes[e], nodes[e]} : nodes'[e] = n
      BY <2>5
    <3>2. RowFits(n, e)'
      BY <1>2, <2>7, RowStillFits
    <3>3. QED BY <3>1, <3>2 DEF RowFits
  <2>9. SearchFits(r)'
    BY <2>3, <2>4, <2>7, SearchStillFits
  <2>10. Turns(c, r)
    BY <1>2, <2>1, <2>2, <2>3, <2>5, <2>7, <2>8, <2>9 DEF Turns
  <2>11. QED BY <2>10 DEF Goal
<1>6. CASE Rank(c)
  <2>1. q.at = "rank" /\ UNCHANGED <<tree, nodes, iters>>
    BY <1>1, <1>6 DEF Rank, Doing
  <2>2. CASE Goto(c, "judge")
    <3>1. SearchFits([q EXCEPT !.at = "judge"])
      BY <1>2, <2>1 DEF SearchFits, Parents, Adds, Holds, Call
    <3>2. QED BY <1>2, <2>1, <2>2, <3>1, <1>g DEF CallLabel
  <2>3. ASSUME NEW e \in Candidates(tree, nodes), NEW t,
               t = [tree EXCEPT !.selected = e, !.status = IF @ = "created" THEN "active" ELSE @],
               call' = [call EXCEPT ![c].at = "choose", ![c].tree = t, ![c].of = e]
        PROVE  Goal
    <3>1. e \in Exp /\ e \in Present(nodes) /\ ~IsTreeTerminal(tree)
      BY <2>3 DEF Candidates, Expandable, Present
    <3>2. t \in Tree
      BY <1>2, <2>3, <3>1 DEF Tree, TreeStatus, MaybeExp
    <3>3. t.status # "absent"
      <4>1. tree.status # "absent"
        BY <3>1 DEF TreeInv, Grows
      <4>2. QED BY <4>1, <1>2, <2>3 DEF Tree
    <3>4. PICK r : r = [q EXCEPT !.at = "choose", !.tree = t, !.of = e]
      OBVIOUS
    <3>5. /\ r \in Call /\ r.at = "choose" /\ r.of = e /\ r.tree = t /\ r.nodes = q.nodes
      BY <3>1, <3>2, <3>4 DEF Call, CallLabel, MaybeExp
    <3>6. call' = [call EXCEPT ![c] = r]
      BY <1>1, <1>2, <2>3, <3>4 DEF Call
    <3>7. SearchFits(r)
      BY <1>2, <3>1, <3>3, <3>5 DEF SearchFits, Parents, Adds, Holds
    <3>8. QED BY <1>2, <2>1, <3>5, <3>6, <3>7, <1>o
  <2>4. QED BY <1>6, <2>2, <2>3 DEF Rank
<1>7. CASE Choose(c)
  <2>1. q.at = "choose" /\ tree' = q.tree /\ UNCHANGED <<nodes, iters>> /\ tree' \in Tree
    BY <1>1, <1>7 DEF Choose, Doing, Call
  <2>2. CASE Return(c)
    BY <2>1, <2>2, <1>r
  <2>3. ASSUME call' = [call EXCEPT ![c].at = "plan", ![c].tree = NoTree,
                     ![c].nodes = [NoNodes EXCEPT ![q.of] = nodes[q.of]]]
        PROVE  Goal
    <3>1. q.of \in Exp /\ q.of \in Present(nodes)
      BY <1>3, <2>1 DEF Parents
    <3>2. PICK ns : ns = [NoNodes EXCEPT ![q.of] = nodes[q.of]]
      OBVIOUS
    <3>3. /\ ns \in [Exp -> Node] /\ ns[q.of] = nodes[q.of]
          /\ \A e \in Exp : ns[e] \in {NoNode, nodes[e]}
      BY <1>2, <3>1, <3>2, BlankTyped
    <3>4. PICK r : r = [q EXCEPT !.at = "plan", !.tree = NoTree, !.nodes = ns]
      OBVIOUS
    <3>5. r \in Call /\ r.at = "plan" /\ r.nodes = ns /\ r.of = q.of
      BY <3>3, <3>4, BlankTyped DEF Call, CallLabel
    <3>6. call' = [call EXCEPT ![c] = r]
      BY <1>1, <1>2, <2>3, <3>2, <3>4 DEF Call
    <3>7. \A e \in Exp : RowFits(r.nodes[e], e)
      BY <1>2, <3>3, <3>5, BlankFits
    <3>8. r.nodes[r.of].status # "absent"
      BY <3>1, <3>3, <3>5 DEF Present
    <3>9. SearchFits(r)
      BY <3>1, <3>5, <3>7, <3>8 DEF SearchFits, Parents, Adds, Holds
    <3>10. QED BY <2>1, <3>5, <3>6, <3>9, <1>o
  <2>4. QED BY <1>1, <1>7, <2>2, <2>3 DEF Choose
<1>8. CASE Plan(c)
  <2>1. q.at = "plan" /\ UNCHANGED <<tree, iters>>
    BY <1>1, <1>8 DEF Plan, Doing
  <2>2. CASE Return(c) /\ UNCHANGED nodes
    BY <1>2, <2>1, <2>2, <1>r
  <2>3. ASSUME NEW b \in BOOLEAN,
               nodes' = [nodes EXCEPT ![q.of] = [q.nodes[q.of] EXCEPT !.plan = q.of]],
               call' = [call EXCEPT ![c] = [Idle EXCEPT !.at = "settle", !.of = q.of, !.refused = b]]
        PROVE  Goal
    <3>1. PICK e \in Exp : e = q.of
      BY <1>3, <2>1 DEF Parents
    <3>2. PICK n : n = [q.nodes[e] EXCEPT !.plan = e]
      OBVIOUS
    <3>3. /\ n \in Node /\ n.status = q.nodes[e].status /\ n.iter = q.nodes[e].iter
          /\ n.parent = q.nodes[e].parent
      BY <1>2, <3>2 DEF Node, MaybeExp
    <3>4. PICK r : r = [Idle EXCEPT !.at = "settle", !.of = e, !.refused = b]
      OBVIOUS
    <3>5. r \in Call /\ r.at = "settle" /\ r.of = e /\ r.nodes = NoNodes
      BY <3>4, BlankTyped DEF Call, CallLabel, MaybeExp
    <3>6. e \in Present(nodes) /\ n.status # "absent"
      BY <1>2, <1>3, <2>1, <3>1, <3>3 DEF SearchFits, Parents
    <3>7. SearchFits(r)
      BY <3>5, <3>6, BlankTyped, BlankFits DEF SearchFits, Parents, Adds, Holds
    <3>8. Ahead => SearchFits(r)'
      BY <3>5, <3>7, SearchStillFits
    <3>9. RowFits(q.nodes[e], e) /\ q.nodes[e].status # "absent"
      BY <1>2, <3>3, <3>6
    <3>10. nodes' = [nodes EXCEPT ![e] = n] /\ call' = [call EXCEPT ![c] = r]
      BY <2>3, <3>1, <3>2, <3>4
    <3>11. QED BY <2>1, <3>3, <3>5, <3>6, <3>8, <3>9, <3>10, <1>w DEF RowFits
  <2>4. QED BY <1>1, <1>8, <2>2, <2>3 DEF Plan
<1>9. CASE Settle(c)
  <2>1. /\ q.at = "settle" /\ UNCHANGED <<nodes, iters>> /\ Goto(c, "judge")
        /\ tree' \in {[tree EXCEPT !.status = "waiting_approval", !.selected = q.of], tree}
    BY <1>1, <1>9 DEF Settle, Doing
  <2>2. tree' \in Tree
    BY <1>2, <2>1 DEF Tree, TreeStatus, Call
  <2>3. SearchFits([q EXCEPT !.at = "judge"])
    BY <1>2, <2>1 DEF SearchFits, Parents, Adds, Holds, Call
  <2>4. QED BY <2>1, <2>2, <2>3, <1>g DEF CallLabel
<1>10. CASE Judge(c)
  <2>1. q.at = "judge" /\ UNCHANGED <<tree, nodes, iters>>
    BY <1>1, <1>10 DEF Judge, Doing
  <2>2. PICK v : v = Verdict(tree, nodes, q.refused)
    OBVIOUS
  <2>3. CASE v = None
    BY <1>1, <1>2, <1>10, <2>1, <2>2, <2>3, <1>r DEF Judge
  <2>4. CASE v # None
    <3>1. v \in Over
      BY <2>2, <2>4 DEF Verdict, IsTreeTerminal, Over
    <3>2. PICK r : r = [Idle EXCEPT !.at = "stop", !.verdict = v, !.pending = q.pending]
      OBVIOUS
    <3>3. r \in Call /\ r.at = "stop" /\ r.nodes = NoNodes /\ r.verdict = v
      BY <1>1, <3>1, <3>2, BlankTyped DEF Call, CallLabel
    <3>4. SearchFits(r)
      BY <3>1, <3>3, BlankTyped, BlankFits DEF SearchFits, Parents, Adds, Holds
    <3>5. call' = [call EXCEPT ![c] = r]
      BY <1>1, <1>10, <2>2, <2>4, <3>2 DEF Judge
    <3>6. QED BY <1>2, <2>1, <3>3, <3>4, <3>5, <1>o
  <2>5. QED BY <2>3, <2>4
<1>11. CASE ApplyStop(c)
  <2>1. q.at = "stop" /\ UNCHANGED <<nodes, iters>> /\ Return(c) /\ tree' = Stopped(q.verdict)
    BY <1>1, <1>11 DEF ApplyStop, Doing
  <2>2. q.verdict \in Over
    BY <1>2, <2>1 DEF SearchFits
  <2>3. tree' \in Tree
    BY <1>2, <2>1, <2>2 DEF Stopped, Tree, TreeStatus
  <2>4. QED BY <2>1, <2>3, <1>r
<1>12. CASE Contract(c)
  <2>1. /\ q.at = "contract" /\ UNCHANGED <<tree, nodes>>
    BY <1>1, <1>12 DEF Contract, Doing
  <2>2. PICK k \in Exp \ {Root} :
           /\ iters' = [iters EXCEPT ![k] = "waiting_approval"]
           /\ k = 1 + Cardinality({e \in Exp \ {Root} : iters[e] # "absent"})
           /\ call' = [call EXCEPT ![c].at = "register", ![c].todo = {k}]
    BY <1>12 DEF Contract
  <2>3. iters[k] = "absent"
    BY <2>2, FreshIter
  <2>4. Ahead
    BY <1>2, <2>1, <2>2, <2>3 DEF Ahead, Present
  <2>5. q.of \in Exp /\ q.of # k
    BY <1>2, <1>3, <2>1, <2>3 DEF Parents, Adds, RowFits, Present
  <2>6. PICK r : r = [q EXCEPT !.at = "register", !.todo = {k}]
    OBVIOUS
  <2>7. /\ r \in Call /\ r.at = "register" /\ r.todo = {k} /\ r.nodes = q.nodes /\ r.of = q.of
        /\ call' = [call EXCEPT ![c] = r]
    BY <1>1, <1>2, <2>2, <2>6 DEF Call, CallLabel
  <2>8. iters' \in [Exp \ {Root} -> IterStatus] /\ iters'[k] = "waiting_approval"
    BY <1>2, <2>2 DEF IterStatus
  <2>9. SearchFits(r)'
    <3>1. \A e \in Exp : RowFits(r.nodes[e], e)'
      BY <1>2, <2>4, <2>7, RowStillFits
    <3>2. r.of \in Present(nodes)'
      BY <1>3, <2>1, <2>4, <2>7 DEF Parents, Adds, Ahead
    <3>3. r.todo = {k} /\ k # r.of /\ iters'[k] # "absent"
      BY <2>5, <2>7, <2>8
    <3>4. QED BY <2>7, <3>1, <3>2, <3>3 DEF SearchFits
  <2>10. \A e \in Exp : RowFits(nodes[e], e)'
    <3>1. SUFFICES ASSUME NEW e \in Exp PROVE RowFits(nodes[e], e)'
      OBVIOUS
    <3>2. PICK n : n = nodes[e]
      OBVIOUS
    <3>3. RowFits(n, e)'
      BY <1>2, <2>4, <3>2, RowStillFits
    <3>4. QED BY <2>1, <3>2, <3>3 DEF RowFits
  <2>11. Turns(c, r)
    BY <1>2, <2>1, <2>4, <2>7, <2>8, <2>9, <2>10 DEF Turns
  <2>12. QED BY <2>11 DEF Goal
<1>h. ASSUME q.at \in Holds
      PROVE  /\ Child(c) \in Exp \ {Root} /\ q.todo = {Child(c)} /\ Child(c) # q.of
             /\ iters[Child(c)] # "absent" /\ q.of \in Exp /\ q.of \in Present(nodes)
  <2>1. PICK k \in Exp \ {Root} : q.todo = {k} /\ k # q.of /\ iters[k] # "absent"
    BY <1>2, <1>h DEF SearchFits
  <2>2. Child(c) = k
    BY <1>1, <2>1 DEF Child
  <2>3. QED BY <1>3, <1>h, <2>1, <2>2 DEF Parents, Adds
<1>13. CASE Register(c)
  <2>1. q.at = "register" /\ UNCHANGED <<tree, nodes, iters>> /\ (Goto(c, "insert") \/ Return(c))
    BY <1>1, <1>13 DEF Register, Doing
  <2>2. SearchFits([q EXCEPT !.at = "insert"])
    BY <1>2, <2>1 DEF SearchFits, Parents, Adds, Holds, Call
  <2>3. QED BY <1>2, <2>1, <2>2, <1>g, <1>r DEF CallLabel
<1>n. ASSUME q.at \in Holds
      PROVE  /\ NewNode(c) \in Node /\ NewNode(c).status = "created"
             /\ [NewNode(c) EXCEPT !.status = "waiting_approval", !.plan = q.of,
                                   !.iter = TRUE] \in Node
             /\ [NewNode(c) EXCEPT !.status = "waiting_approval", !.plan = q.of,
                                   !.iter = TRUE].status = "waiting_approval"
  <2>1. q.of \in Exp
    BY <1>n, <1>h
  <2>2. nodes[q.of].depth + 1 \in Nat
    BY <1>2, <2>1 DEF Node
  <2>3. NewNode(c) \in Node /\ NewNode(c).status = "created"
    BY <1>1, <2>1, <2>2, BlankTyped DEF NewNode, Node, MaybeExp
  <2>4. QED BY <2>1, <2>3 DEF Node, MaybeExp
<1>14. CASE Insert(c)
  <2>1. /\ q.at = "insert" /\ UNCHANGED <<tree, iters>> /\ Goto(c, "link")
        /\ nodes' = [nodes EXCEPT ![Child(c)] = NewNode(c)]
    BY <1>1, <1>14 DEF Insert, Doing
  <2>2. PICK k \in Exp \ {Root} : k = Child(c) /\ iters[k] # "absent" /\ q.todo = {k}
    BY <2>1, <1>h DEF Holds
  <2>3. PICK n \in Node : n = NewNode(c) /\ n.status = "created"
    BY <2>1, <1>n DEF Holds
  <2>4. PICK r : r = [q EXCEPT !.at = "link"]
    OBVIOUS
  <2>5. /\ r \in Call /\ r.at = "link" /\ r.of = q.of /\ r.todo = q.todo /\ r.nodes = q.nodes
        /\ call' = [call EXCEPT ![c] = r]
    BY <1>1, <1>2, <2>1, <2>4 DEF Goto, Call, CallLabel
  <2>6. Ahead => SearchFits(q)'
    BY <1>2, SearchStillFits
  <2>7. Ahead /\ k \in Present(nodes)' => SearchFits(r)'
    BY <2>1, <2>2, <2>5, <2>6 DEF SearchFits, Parents, Adds, Holds
  <2>8. nodes' = [nodes EXCEPT ![k] = n]
    BY <2>1, <2>2, <2>3
  <2>9. QED BY <2>1, <2>2, <2>3, <2>5, <2>7, <2>8, <1>w
<1>15. CASE Link(c)
  <2>1. /\ q.at = "link" /\ UNCHANGED <<tree, iters>> /\ Goto(c, "await")
        /\ nodes' = [nodes EXCEPT ![Child(c)] =
                 [NewNode(c) EXCEPT !.status = "waiting_approval", !.plan = q.of, !.iter = TRUE]]
    BY <1>1, <1>15 DEF Link, Doing
  <2>2. PICK k \in Exp \ {Root} : k = Child(c) /\ iters[k] # "absent" /\ q.todo = {k}
    BY <2>1, <1>h DEF Holds
  <2>3. PICK n \in Node : /\ n = [NewNode(c) EXCEPT !.status = "waiting_approval",
                                                    !.plan = q.of, !.iter = TRUE]
                          /\ n.status = "waiting_approval"
    BY <2>1, <1>n DEF Holds
  <2>4. PICK r : r = [q EXCEPT !.at = "await"]
    OBVIOUS
  <2>5. /\ r \in Call /\ r.at = "await" /\ r.of = q.of /\ r.todo = q.todo /\ r.nodes = q.nodes
        /\ call' = [call EXCEPT ![c] = r]
    BY <1>1, <1>2, <2>1, <2>4 DEF Goto, Call, CallLabel
  <2>6. SearchFits(r)
    BY <1>2, <2>1, <2>5 DEF SearchFits, Parents, Adds, Holds
  <2>7. Ahead => SearchFits(r)'
    BY <2>5, <2>6, SearchStillFits
  <2>8. nodes' = [nodes EXCEPT ![k] = n]
    BY <2>1, <2>2, <2>3
  <2>9. QED BY <2>1, <2>2, <2>3, <2>5, <2>7, <2>8, <1>w
<1>16. CASE Await(c)
  <2>1. /\ q.at = "await" /\ UNCHANGED <<nodes, iters>> /\ Return(c)
        /\ tree' = [tree EXCEPT !.status = "waiting_approval", !.selected = Child(c)]
    BY <1>1, <1>16 DEF Await, Doing
  <2>2. Child(c) \in Exp
    BY <2>1, <1>h DEF Holds
  <2>3. tree' \in Tree
    BY <1>2, <2>1, <2>2 DEF Tree, TreeStatus, MaybeExp
  <2>4. QED BY <2>1, <2>3, <1>r
<1>17. CASE Sync(c)
  <2>1. PICK e : e = Min(q.todo)
    OBVIOUS
  <2>2. /\ q.at = "sync" /\ UNCHANGED <<tree, iters>>
        /\ Evaluate(c, e) \/ Fail(c, e) \/ Follow(c, e) \/ LeaveWaiting(c, e)
    BY <1>1, <1>17, <2>1 DEF Sync, Doing
  <2>3. /\ e \in q.todo /\ e \in Exp \ {Root} /\ q.nodes[e].status # "absent"
        /\ \A d \in q.todo : d \in Exp \ {Root} /\ q.nodes[d].status # "absent"
    <3>1. q.todo \in SUBSET Exp /\ q.todo # {}
          /\ \A d \in q.todo : d # Root /\ q.nodes[d].status # "absent"
      BY <1>2, <2>2 DEF Call, SearchFits
    <3>2. QED BY <2>1, <3>1, MinOf
  <2>4. RowFits(q.nodes[e], e) /\ iters[e] # "absent"
    BY <1>2, <2>3 DEF RowFits
(* What is left of the record, whatever was found of the node.               *)
  <2>l. ASSUME NEW r, NEW m \in BOOLEAN, NEW s \in BOOLEAN, NEW p \in BOOLEAN, NEW u \in BOOLEAN,
               r = [Looked(c, e) EXCEPT !.moved = m, !.scored = s, !.pending = p, !.running = u]
        PROVE  r \in Call /\ SearchFits(r)
    <3>1. Looked(c, e) = [q EXCEPT !.todo = @ \ {e}, !.nodes[e] = NoNode,
                                   !.at = IF q.todo = {e} THEN "sum" ELSE @]
      BY <1>1 DEF Looked
    <3>2. PICK ns : ns = [q.nodes EXCEPT ![e] = NoNode]
      OBVIOUS
    <3>3. /\ ns \in [Exp -> Node] /\ \A d \in Exp : ns[d] = IF d = e THEN NoNode ELSE q.nodes[d]
      BY <1>1, <3>2, BlankTyped DEF Call
    <3>4. PICK t : t = q.todo \ {e}
      OBVIOUS
    <3>5. /\ Looked(c, e) \in Call /\ Looked(c, e).nodes = ns /\ Looked(c, e).todo = t
          /\ Looked(c, e).at = IF q.todo = {e} THEN "sum" ELSE "sync"
      <4>1. PICK l \in CallLabel : l = IF q.todo = {e} THEN "sum" ELSE "sync"
        BY DEF CallLabel
      <4>2. Looked(c, e) = [q EXCEPT !.todo = t, !.nodes = ns, !.at = l]
        BY <2>2, <3>1, <3>2, <3>4, <4>1 DEF Call
      <4>3. t \in SUBSET Exp
        BY <3>4 DEF Call
      <4>4. QED BY <3>3, <4>1, <4>2, <4>3 DEF Call
    <3>6. /\ r \in Call /\ r.nodes = ns /\ r.todo = t
          /\ r.at = IF q.todo = {e} THEN "sum" ELSE "sync"
      BY ZenonT(30), <2>l, <3>5 DEF Call
    <3>7. \A d \in Exp : RowFits(r.nodes[d], d)
      BY <1>2, <3>3, <3>6, BlankFits
    <3>8. r.at = "sync" => /\ r.todo # {}
                           /\ \A d \in r.todo : d # Root /\ r.nodes[d].status # "absent"
      BY <2>3, <3>3, <3>4, <3>6
    <3>9. QED BY <3>6, <3>7, <3>8 DEF SearchFits, Parents, Adds, Holds
  <2>5. PICK lk : lk = Looked(c, e)
    OBVIOUS
  <2>6. /\ lk \in Call
        /\ SearchFits(lk)
    <3>1. /\ q.moved \in BOOLEAN /\ q.scored \in BOOLEAN /\ q.pending \in BOOLEAN
          /\ q.running \in BOOLEAN
      BY DEF Call
    <3>2. lk = [Looked(c, e) EXCEPT !.moved = q.moved, !.scored = q.scored,
                                    !.pending = q.pending, !.running = q.running]
      BY <1>1, <2>5 DEF Looked, Call
    <3>3. QED BY <3>1, <3>2, <2>l
  <2>7. /\ lk.moved = q.moved /\ lk.scored = q.scored /\ lk.pending = q.pending
        /\ lk.running = q.running
    BY <1>1, <2>5 DEF Looked, Call
  <2>w. ASSUME NEW r, r \in Call, SearchFits(r), call' = [call EXCEPT ![c] = r],
               NEW s \in {"evaluated", "failed", "running"}, Write(c, e, s),
               s = "evaluated" => iters[e] = "completed"
        PROVE  Goal
    <3>1. PICK n : n = [q.nodes[e] EXCEPT !.status = s]
      OBVIOUS
    <3>2. n \in Node /\ n.status = s
      BY <1>2, <2>3, <3>1 DEF Node
    <3>3. nodes' = [nodes EXCEPT ![e] = n]
      BY <1>1, <2>w, <3>1 DEF Write
    <3>4. Ahead => SearchFits(r)'
      BY <2>w, SearchStillFits
    <3>5. QED BY <2>2, <2>3, <2>4, <2>w, <3>2, <3>3, <3>4, <1>w
  <2>8. CASE Evaluate(c, e)
    <3>1. CASE Return(c) /\ UNCHANGED nodes
      BY <1>2, <2>2, <3>1, <1>r
    <3>2. CASE /\ Write(c, e, "evaluated")
               /\ call' = [call EXCEPT ![c] = [Looked(c, e) EXCEPT !.moved = TRUE, !.scored = TRUE]]
      <4>1. PICK r : r = [lk EXCEPT !.moved = TRUE, !.scored = TRUE]
        OBVIOUS
      <4>2. r = [Looked(c, e) EXCEPT !.moved = TRUE, !.scored = TRUE,
                                     !.pending = q.pending, !.running = q.running]
        BY <2>5, <2>6, <2>7, <4>1 DEF Call
      <4>3. r \in Call /\ SearchFits(r)
        BY <2>l, <4>2 DEF Call
      <4>4. iters[e] = "completed"
        BY <2>8 DEF Evaluate
      <4>5. QED BY <2>5, <3>2, <4>1, <4>3, <4>4, <2>w
    <3>3. QED BY <2>8, <3>1, <3>2 DEF Evaluate
  <2>9. CASE Fail(c, e)
    <3>1. PICK r : r = [lk EXCEPT !.moved = TRUE]
      OBVIOUS
    <3>2. r = [Looked(c, e) EXCEPT !.moved = TRUE, !.scored = q.scored,
                                   !.pending = q.pending, !.running = q.running]
      BY <2>5, <2>6, <2>7, <3>1 DEF Call
    <3>3. r \in Call /\ SearchFits(r)
      BY <2>l, <3>2 DEF Call
    <3>4. Write(c, e, "failed") /\ call' = [call EXCEPT ![c] = r]
      BY <2>5, <2>9, <3>1 DEF Fail
    <3>5. QED BY <3>3, <3>4, <2>w
  <2>10. CASE Follow(c, e)
    <3>1. PICK r : r = [lk EXCEPT !.pending = TRUE, !.running = TRUE]
      OBVIOUS
    <3>2. r = [Looked(c, e) EXCEPT !.moved = q.moved, !.scored = q.scored,
                                   !.pending = TRUE, !.running = TRUE]
      BY <2>5, <2>6, <2>7, <3>1 DEF Call
    <3>3. r \in Call /\ SearchFits(r)
      BY <2>l, <3>2 DEF Call
    <3>4. /\ Write(c, e, "running") \/ UNCHANGED nodes
          /\ call' = [call EXCEPT ![c] = r]
      BY <2>5, <2>10, <3>1 DEF Follow
    <3>5. QED BY <1>2, <2>2, <3>3, <3>4, <2>w, <1>o
  <2>11. CASE LeaveWaiting(c, e)
    <3>1. PICK r : r = [lk EXCEPT !.pending = TRUE]
      OBVIOUS
    <3>2. r = [Looked(c, e) EXCEPT !.moved = q.moved, !.scored = q.scored,
                                   !.pending = TRUE, !.running = q.running]
      BY <2>5, <2>6, <2>7, <3>1 DEF Call
    <3>3. r \in Call /\ SearchFits(r)
      BY <2>l, <3>2 DEF Call
    <3>4. UNCHANGED nodes /\ call' = [call EXCEPT ![c] = r]
      BY <2>5, <2>11, <3>1 DEF LeaveWaiting
    <3>5. QED BY <1>2, <2>2, <3>3, <3>4, <1>o
  <2>12. QED BY <2>2, <2>8, <2>9, <2>10, <2>11
<1>18. CASE SumUp(c)
  <2>1. /\ q.at = "sum" /\ UNCHANGED <<nodes, iters>>
        /\ tree' = [tree EXCEPT !.status = SumStatus(c)]
    BY <1>1, <1>18 DEF SumUp, Doing
  <2>2. PICK r : r = [Idle EXCEPT !.at = IF q.scored THEN "count" ELSE "judge",
                                  !.pending = q.pending]
    OBVIOUS
  <2>3. r \in Call /\ r.at \in {"count", "judge"} /\ r.nodes = NoNodes
    BY ZenonT(30), <1>1, <2>2, BlankTyped DEF Call, CallLabel
  <2>4. SearchFits(r)
    BY <2>3, BlankTyped, BlankFits DEF SearchFits, Parents, Adds, Holds
  <2>5. call' = [call EXCEPT ![c] = r]
    BY <1>1, <1>18, <2>2 DEF SumUp
  <2>6. tree' \in Tree
    BY <1>2, <2>1 DEF SumStatus, Tree, TreeStatus
  <2>7. QED BY <2>1, <2>3, <2>4, <2>5, <2>6, <1>o
<1>19. CASE CountScores(c)
  <2>1. q.at = "count" /\ UNCHANGED <<nodes, iters>> /\ Goto(c, "judge")
    BY <1>1, <1>19 DEF CountScores, Doing
  <2>2. PICK b : tree' = [tree EXCEPT !.seen = TRUE,
                  !.rounds = IF b THEN 0 ELSE IF @ < MaxRounds THEN @ + 1 ELSE @]
    BY <1>19 DEF CountScores
  <2>3. tree' \in Tree
    <3>1. tree.rounds \in 0..MaxRounds /\ MaxRounds \in Nat
      BY <1>2, TreeLimits DEF Tree
    <3>2. (IF b THEN 0 ELSE IF tree.rounds < MaxRounds THEN tree.rounds + 1 ELSE tree.rounds)
            \in 0..MaxRounds
      BY <3>1
    <3>3. QED BY <1>2, <2>2, <3>2 DEF Tree
  <2>4. SearchFits([q EXCEPT !.at = "judge"])
    BY <1>2, <2>1 DEF SearchFits, Parents, Adds, Holds, Call
  <2>5. QED BY <2>1, <2>3, <2>4, <1>g DEF CallLabel
<1>20. QED BY <1>4, <1>5, <1>6, <1>7, <1>8, <1>9, <1>10, <1>11, <1>12, <1>13,
              <1>14, <1>15, <1>16, <1>17, <1>18, <1>19 DEF Continue

(* So does one that begins. *)
LEMMA BeginTurns ==
  ASSUME TreeInv, NEW c \in Caller,
         Create(c) \/ PlanNext(c) \/ ApproveCandidate(c) \/ Advance(c)
  PROVE  \E r : /\ Turns(c, r) /\ BeginWith(c, r) /\ r.at # "insert"
                /\ UNCHANGED <<nodes, iters, left>>
<1>1. /\ tree \in Tree /\ nodes \in [Exp -> Node] /\ iters \in [Exp \ {Root} -> IterStatus]
      /\ \A e \in Exp : RowFits(nodes[e], e)
  BY SearchHas
<1>b. ASSUME NEW r \in Call, BeginWith(c, r), UNCHANGED <<nodes, iters, left>>, tree' \in Tree,
             SearchFits(r), r.at # "insert"
      PROVE  \E t : /\ Turns(c, t) /\ BeginWith(c, t) /\ t.at # "insert"
                    /\ UNCHANGED <<nodes, iters, left>>
  BY <1>b, TurnsOnly DEF BeginWith
<1>2. CASE Create(c)
  <2>1. PICK r : r = [Idle EXCEPT !.at = "root"]
    OBVIOUS
  <2>2. r \in Call /\ r.at = "root" /\ r.nodes = NoNodes
    BY <2>1, BlankTyped DEF Call, CallLabel
  <2>3. SearchFits(r)
    BY <2>2, BlankTyped, BlankFits DEF SearchFits, Parents, Adds, Holds
  <2>4. tree' \in Tree
    BY <1>2, BlankTyped DEF Create, Tree, TreeStatus
  <2>5. QED BY <1>2, <2>1, <2>2, <2>3, <2>4, <1>b DEF Create
<1>3. CASE PlanNext(c)
  <2>1. PICK r : r \in {[Idle EXCEPT !.at = "score", !.nodes = nodes], [Idle EXCEPT !.at = "rank"]}
                 /\ BeginWith(c, r)
    BY <1>3 DEF PlanNext
  <2>2. r \in Call /\ r.at \in {"score", "rank"} /\ r.nodes \in {nodes, NoNodes}
    BY ZenonT(30), <1>1, <2>1, BlankTyped DEF Call, CallLabel
  <2>3. SearchFits(r)
    BY <1>1, <2>2, BlankTyped, BlankFits DEF SearchFits, Parents, Adds, Holds
  <2>4. QED BY <1>1, <1>3, <2>1, <2>2, <2>3, <1>b DEF PlanNext
<1>4. CASE ApproveCandidate(c)
  <2>1. PICK p \in ParentWithPlan :
          nodes[p].plan = p /\ BeginWith(c, [Idle EXCEPT !.at = "contract", !.of = p])
    BY <1>4 DEF ApproveCandidate
  <2>2. p \in Exp /\ p \in Present(nodes)
    BY <1>1, <2>1, BlankTyped DEF ParentWithPlan, WithPlan, RowFits, Present
  <2>3. PICK r : r = [Idle EXCEPT !.at = "contract", !.of = p]
    OBVIOUS
  <2>4. r \in Call /\ r.at = "contract" /\ r.nodes = NoNodes /\ r.of = p
    BY <2>2, <2>3, BlankTyped DEF Call, CallLabel, MaybeExp
  <2>5. SearchFits(r)
    BY <2>2, <2>4, BlankTyped, BlankFits DEF SearchFits, Parents, Adds, Holds
  <2>6. QED BY <1>1, <1>4, <2>1, <2>3, <2>4, <2>5, <1>b DEF ApproveCandidate
<1>5. CASE Advance(c)
  <2>1. PICK s \in {Exp} \cup {{e} : e \in Exp} :
          LET todo == PendingNodes(nodes) \cap s IN
            /\ todo # {}
            /\ BeginWith(c, [Idle EXCEPT !.at = "sync", !.todo = todo,
                          !.nodes = [e \in Exp |-> IF e \in todo THEN nodes[e] ELSE NoNode]])
    BY <1>5 DEF Advance
  <2>2. PICK todo : todo = PendingNodes(nodes) \cap s
    OBVIOUS
  <2>3. PICK ns : ns = [e \in Exp |-> IF e \in todo THEN nodes[e] ELSE NoNode]
    OBVIOUS
  <2>4. PICK r : r = [Idle EXCEPT !.at = "sync", !.todo = todo, !.nodes = ns]
    OBVIOUS
  <2>5. todo # {} /\ BeginWith(c, r) /\ todo \in SUBSET Exp
    BY <2>1, <2>2, <2>3, <2>4 DEF PendingNodes
  <2>6. ns \in [Exp -> Node] /\ \A e \in Exp : ns[e] = IF e \in todo THEN nodes[e] ELSE NoNode
    BY <1>1, <2>3, BlankTyped
  <2>7. r \in Call /\ r.at = "sync" /\ r.nodes = ns /\ r.todo = todo
    BY <2>4, <2>5, <2>6, BlankTyped DEF Call, CallLabel
  <2>8. \A e \in todo : e # Root /\ ns[e].status # "absent"
    <3>1. SUFFICES ASSUME NEW e \in todo PROVE e # Root /\ nodes[e].status # "absent"
      BY <2>5, <2>6
    <3>2. e \in Exp /\ nodes[e].iter
      BY <2>2 DEF PendingNodes
    <3>3. RowFits(nodes[e], e)
      BY <1>1, <3>2
    <3>4. nodes[e].status # "absent"
      BY <3>2, <3>3 DEF TreeInv, RowFits
    <3>5. QED BY <3>2, <3>3, <3>4 DEF RowFits
  <2>9. SearchFits(r)
    BY <1>1, <2>5, <2>6, <2>7, <2>8, BlankFits
       DEF SearchFits, Parents, Adds, Holds
  <2>10. QED BY <1>1, <1>5, <2>5, <2>7, <2>9, <1>b DEF Advance
<1>6. QED BY <1>2, <1>3, <1>4, <1>5


(* What is left of the record when the outcome of a node has been looked up.  *)
LEMMA LookedLeft ==
  ASSUME TreeInv, NEW c \in Caller, NEW e \in Exp, call[c].at = "sync"
  PROVE  /\ Looked(c, e) \in Call /\ Looked(c, e).of = call[c].of
         /\ Looked(c, e).at = IF call[c].todo = {e} THEN "sum" ELSE "sync"
         /\ Looked(c, e).todo = call[c].todo \ {e}
         /\ Looked(c, e).scored = call[c].scored
         /\ \A d \in Exp : Looked(c, e).nodes[d] = IF d = e THEN NoNode ELSE call[c].nodes[d]
<1>1. PICK q \in Call : q = call[c]
  BY SearchHas
<1>2. PICK ns : ns = [q.nodes EXCEPT ![e] = NoNode]
  OBVIOUS
<1>3. ns \in [Exp -> Node] /\ \A d \in Exp : ns[d] = IF d = e THEN NoNode ELSE q.nodes[d]
  BY <1>2, BlankTyped DEF Call
<1>4. PICK t : t = q.todo \ {e}
  OBVIOUS
<1>5. PICK l \in CallLabel : l = IF q.todo = {e} THEN "sum" ELSE "sync"
  BY DEF CallLabel
<1>6. Looked(c, e) = [q EXCEPT !.todo = t, !.nodes = ns, !.at = l]
  BY <1>1, <1>2, <1>4, <1>5 DEF Looked, Call
<1>7. t \in SUBSET Exp
  BY <1>4 DEF Call
<1>8. Looked(c, e) \in Call
  BY <1>3, <1>5, <1>6, <1>7 DEF Call
<1>9. /\ Looked(c, e).at = l /\ Looked(c, e).todo = t /\ Looked(c, e).nodes = ns
      /\ Looked(c, e).of = q.of /\ Looked(c, e).scored = q.scored
  BY <1>6 DEF Call
<1>10. QED BY <1>1, <1>3, <1>4, <1>5, <1>8, <1>9

(* What a step of a call under way does to the nodes and to who inserts one. *)
Inserts(c) == /\ c \in Inserting /\ Inserting' = Inserting \ {c}
              /\ \E k \in Exp : Present(nodes)' = Present(nodes) \cup {k}
LEMMA ContinueCounts ==
  ASSUME TreeInv, NEW c \in Caller, Continue(c)
  PROVE  /\ c \in Active /\ Active' \subseteq Active /\ UNCHANGED <<overlaps, crashes>>
         /\ \/ Inserting' = Inserting /\ Present(nodes)' = Present(nodes)
            \/ /\ c \notin Inserting /\ Inserting' = Inserting \cup {c}
               /\ Present(nodes)' = Present(nodes) /\ Cardinality(Present(nodes)) < MaxNodes
            \/ Inserts(c) /\ Present(nodes) # {}
            \/ /\ Inserting' = Inserting /\ Present(nodes)' = Present(nodes) \cup {Root}
         /\ left' \in 0..NodeBudget
<1>1. PICK q \in Call : q = call[c]
  BY SearchHas
<1>2. /\ SearchFits(q) /\ call \in [Caller -> Call] /\ nodes \in [Exp -> Node]
      /\ left \in 0..NodeBudget /\ NodeBudget \in Nat
  BY <1>1, SearchHas, TreeLimits
<1>3. PICK r : Turns(c, r)
  BY ContinueTurns
<1>4. /\ \A b \in Caller : call'[b] = IF b = c THEN r ELSE call[b]
      /\ Present(nodes) \subseteq Present(nodes)'
  BY <1>2, <1>3 DEF Turns, Ahead
<1>5. q.at # "idle" /\ UNCHANGED <<overlaps, crashes>>
  BY <1>1
     DEF Continue, CreateRoot, Score, Rank, Choose, Plan, Settle, Judge,
         ApplyStop, Contract, Register, Insert, Link, Await, Sync, SumUp,
         CountScores, Doing
<1>6. c \in Active /\ Active' \subseteq Active
  BY <1>1, <1>4, <1>5 DEF Active, Doing
<1>7. left' \in 0..NodeBudget
  <2>1. left' \in {left, IF left = 0 THEN 0 ELSE left - 1}
    BY DEF Continue, CreateRoot, Score, Rank, Choose, Plan, Settle, Judge,
       ApplyStop, Contract, Register, Insert, Link, Await, Sync, SumUp,
       CountScores
  <2>2. QED BY <2>1, <1>2
<1>8. q.at # "insert" => c \notin Inserting
  BY <1>1 DEF Inserting, Doing
<1>9. Inserting' = IF r.at = "insert" THEN Inserting \cup {c} ELSE Inserting \ {c}
  BY <1>4 DEF Inserting, Doing
<1>10. r = call'[c]
  BY <1>4
<1>11. CASE Register(c)
  <2>1. UNCHANGED nodes /\ q.at = "register"
    BY <1>1, <1>11 DEF Register, Doing
  <2>2. Present(nodes)' = Present(nodes)
    BY <2>1 DEF Present
  <2>3. r.at = "insert" => Cardinality(Present(nodes)) < MaxNodes
    <3>1. Return(c) => r.at = "idle"
      BY <1>2, <1>10, BlankTyped DEF Return
    <3>2. QED BY <1>11, <3>1 DEF Register, HasRoom
  <2>4. QED BY <2>1, <2>2, <2>3, <1>6, <1>5, <1>7, <1>8, <1>9
<1>12. CASE Insert(c)
  <2>1. q.at = "insert" /\ r.at = "link" /\ nodes' = [nodes EXCEPT ![Child(c)] = NewNode(c)]
    BY <1>1, <1>2, <1>10, <1>12 DEF Insert, Doing, Goto, Call
  <2>2. Present(nodes) # {} /\ c \in Inserting /\ Inserting' = Inserting \ {c}
    BY <1>1, <1>2, <1>9, <2>1
       DEF SearchFits, Parents, Adds, Holds, Inserting, Doing
  <2>3. PICK k \in Exp : k = Child(c)
    <3>1. PICK k \in Exp \ {Root} : q.todo = {k}
      BY <1>2, <2>1 DEF SearchFits, Holds
    <3>2. Child(c) = k
      BY <1>1, <3>1 DEF Child
    <3>3. QED BY <3>2
  <2>4. NewNode(c).status = "created"
    BY DEF NewNode, NoNode
  <2>5. Present(nodes)' = Present(nodes) \cup {k}
    <3>1. PICK n : n = NewNode(c)
      OBVIOUS
    <3>2. nodes' = [nodes EXCEPT ![k] = n] /\ n.status # "absent"
      BY <2>1, <2>3, <2>4, <3>1
    <3>3. QED BY <1>2, <3>2 DEF Present
  <2>6. QED BY <2>2, <2>5, <1>5, <1>6, <1>7 DEF Inserts
<1>13. CASE CreateRoot(c)
  <2>1. q.at = "root" /\ nodes' = [nodes EXCEPT ![Root].status = "created"] /\ r.at = "idle"
    BY <1>1, <1>2, <1>10, <1>13, BlankTyped DEF CreateRoot, Doing, Return
  <2>2. Present(nodes)' = Present(nodes) \cup {Root}
    BY <1>2, <2>1, BlankTyped DEF Present, Node
  <2>3. QED BY <2>1, <2>2, <1>5, <1>6, <1>7, <1>8, <1>9
<1>14. ASSUME ~Register(c), ~Insert(c), ~CreateRoot(c)
       PROVE  Present(nodes)' = Present(nodes) /\ q.at # "insert" /\ r.at # "insert"
  <2>1. CASE UNCHANGED nodes /\ ~Sync(c)
    <3>1. Present(nodes)' = Present(nodes)
      BY <2>1 DEF Present
    <3>2. q.at # "insert"
      BY <1>1, <1>14
         DEF Continue, Score, Rank, Choose, Plan, Settle, Judge, ApplyStop,
             Contract, Link, Await, Sync, SumUp, CountScores, Doing
    <3>3. r.at # "insert"
      <4>1. ASSUME NEW l \in CallLabel, Goto(c, l) PROVE r.at = l
        BY <1>2, <1>10, <4>1 DEF Goto, Call
      <4>2. Return(c) => r.at = "idle"
        BY <1>2, <1>10, BlankTyped DEF Return
      <4>3. Score(c) => r.at # "insert"
        BY <1>2, <1>10 DEF Score, Idle
      <4>p. Plan(c) => r.at # "insert"
        BY ZenonT(30), <1>2, <1>10, <4>2 DEF Plan, Idle
      <4>j. Judge(c) => r.at # "insert"
        BY <1>2, <1>10, <4>2 DEF Judge, Idle
      <4>s. SumUp(c) => r.at # "insert"
        BY <1>2, <1>10 DEF SumUp, Idle
      <4>r. Rank(c) => r.at # "insert"
        <5>1. Goto(c, "judge") => r.at = "judge"
          BY <4>1 DEF CallLabel
        <5>2. ASSUME NEW t, NEW e,
                     call' = [call EXCEPT ![c].at = "choose", ![c].tree = t, ![c].of = e]
              PROVE  r.at = "choose"
          BY <1>2, <1>10, <5>2 DEF Call
        <5>3. QED BY <5>1, <5>2 DEF Rank
      <4>h. Choose(c) => r.at # "insert"
        BY <1>2, <1>10, <4>2 DEF Choose, Call
      <4>4. Contract(c) => r.at # "insert"
        BY <1>2, <1>10 DEF Contract, Call
      <4>5. Settle(c) \/ ApplyStop(c) \/ Link(c) \/ Await(c) \/ CountScores(c) => r.at # "insert"
        BY <4>1, <4>2 DEF Settle, ApplyStop, Link, Await, CountScores, CallLabel
      <4>6. QED BY <1>14, <2>1, <4>3, <4>4, <4>5, <4>p, <4>j, <4>s, <4>r, <4>h
                   DEF Continue
    <3>4. QED BY <3>1, <3>2, <3>3
  <2>2. CASE Score(c)
    <3>1. /\ q.at = "score" /\ r.at = "rank"
          /\ nodes' = [e \in Exp |-> IF e \in Present(q.nodes) THEN q.nodes[e] ELSE nodes[e]]
      BY <1>1, <1>2, <1>10, <2>2, BlankTyped DEF Score, Doing, Idle
    <3>2. Present(nodes)' \subseteq Present(nodes)
      BY <1>2, <3>1 DEF Present, SearchFits, RowFits
    <3>3. QED BY <1>4, <3>1, <3>2
  <2>3. CASE Plan(c) /\ ~(UNCHANGED nodes)
    <3>1. /\ q.at = "plan" /\ r.at = "settle"
          /\ nodes' = [nodes EXCEPT ![q.of] = [q.nodes[q.of] EXCEPT !.plan = q.of]]
      BY ZenonT(30), <1>1, <1>2, <1>10, <2>3, BlankTyped DEF Plan, Doing, Idle
    <3>2. q.of \in Present(nodes)
      BY <1>2, <3>1 DEF SearchFits, Parents
    <3>3. Present(nodes)' \subseteq Present(nodes)
      BY <1>2, <3>1, <3>2 DEF Present
    <3>4. QED BY <1>4, <3>1, <3>3
  <2>4. CASE Link(c)
    <3>1. q.at = "link" /\ r.at = "await"
      BY <1>1, <1>2, <1>10, <2>4 DEF Link, Doing, Goto, Call
    <3>2. PICK k \in Exp \ {Root} : q.todo = {k} /\ k \in Present(nodes)
      BY <1>2, <3>1 DEF SearchFits, Holds
    <3>3. Child(c) = k
      BY <1>1, <3>2 DEF Child
    <3>4. \A e \in Exp : e # k => nodes'[e] = nodes[e]
      BY <1>2, <2>4, <3>3 DEF Link
    <3>5. Present(nodes)' \subseteq Present(nodes)
      BY <3>2, <3>4 DEF Present
    <3>6. QED BY <1>4, <3>1, <3>5
  <2>5. CASE Sync(c)
    <3>1. PICK e : e = Min(q.todo)
      OBVIOUS
    <3>2. /\ q.at = "sync"
          /\ Evaluate(c, e) \/ Fail(c, e) \/ Follow(c, e) \/ LeaveWaiting(c, e)
      BY <1>1, <2>5, <3>1 DEF Sync, Doing
    <3>3. e \in q.todo /\ e \in Exp /\ e \in Present(nodes)
      <4>1. q.todo \in SUBSET Exp /\ q.todo # {}
        BY <1>2, <3>2 DEF Call, SearchFits
      <4>2. e \in q.todo
        BY <3>1, <4>1, MinOf
      <4>3. QED BY <1>2, <3>2, <4>1, <4>2 DEF SearchFits, RowFits
    <3>4. \A d \in Exp : d # e => nodes'[d] = nodes[d]
      BY <1>2, <3>2 DEF Evaluate, Fail, Follow, LeaveWaiting, Write
    <3>5. Present(nodes)' \subseteq Present(nodes)
      BY <3>3, <3>4 DEF Present
    <3>6. r.at # "insert"
      <4>1. PICK k \in Call : k = Looked(c, e) /\ k.at \in {"sum", "sync"}
        BY <1>1, <3>2, <3>3, LookedLeft
      <4>2. r \in {Idle, [k EXCEPT !.moved = TRUE, !.scored = TRUE], [k EXCEPT !.moved = TRUE],
                    [k EXCEPT !.pending = TRUE, !.running = TRUE], [k EXCEPT !.pending = TRUE]}
        BY <1>2, <1>10, <3>2, <4>1
           DEF Evaluate, Fail, Follow, LeaveWaiting, Return
      <4>3. QED BY <4>1, <4>2, BlankTyped DEF Call
    <3>7. QED BY <1>4, <3>2, <3>5, <3>6
  <2>6. QED BY <1>14, <2>1, <2>2, <2>3, <2>4, <2>5
               DEF Continue, Rank, Choose, Settle, Judge, ApplyStop, Contract,
                   Await, SumUp, CountScores
<1>15. QED BY <1>5, <1>6, <1>7, <1>8, <1>9, <1>11, <1>12, <1>13, <1>14

(* Once there is a tree, there stays one. *)
LEMMA TreeStays ==
  ASSUME TreeInv, NEW c \in Caller, Continue(c)
  PROVE  tree'.status # "absent"
<1>1. PICK q \in Call : q = call[c]
  BY SearchHas
<1>2. SearchFits(q) /\ tree \in Tree
  BY <1>1, SearchHas
<1>3. tree.status # "absent"
  BY ContinueCounts DEF TreeInv, Grows
<1>4. CASE Choose(c)
  BY <1>1, <1>2, <1>4 DEF Choose, Doing, SearchFits
<1>5. CASE Settle(c)
  BY <1>2, <1>3, <1>5 DEF Settle, Tree
<1>6. CASE ApplyStop(c)
  BY <1>1, <1>2, <1>3, <1>6
     DEF ApplyStop, Doing, SearchFits, Stopped, Over, Tree
<1>7. CASE Await(c)
  BY <1>2, <1>7 DEF Await, Tree
<1>8. CASE SumUp(c)
  BY <1>2, <1>3, <1>8 DEF SumUp, SumStatus, Tree
<1>9. CASE CountScores(c)
  BY <1>2, <1>3, <1>9 DEF CountScores, Tree
<1>10. QED
  BY <1>3, <1>4, <1>5, <1>6, <1>7, <1>8, <1>9
     DEF Continue, CreateRoot, Score, Rank, Plan, Judge, Contract, Register,
         Insert, Link, Sync

(* What a step of one call leaves of the rows and of all the calls. *)
LEMMA TurnsKeep ==
  ASSUME TreeInv, NEW c \in Caller, NEW r, Turns(c, r)
  PROVE  /\ tree' \in Tree /\ nodes' \in [Exp -> Node]
         /\ iters' \in [Exp \ {Root} -> IterStatus] /\ call' \in [Caller -> Call]
         /\ \A e \in Exp : RowFits(nodes[e], e)'
         /\ \A b \in Caller : SearchFits(call[b])'
         /\ \A b \in Caller : call'[b] = IF b = c THEN r ELSE call[b]
<1>1. \A b \in Caller : call'[b] = IF b = c THEN r ELSE call[b]
  BY SearchHas DEF Turns
<1>2. call' \in [Caller -> Call]
  BY SearchHas DEF Turns
<1>3. ASSUME NEW b \in Caller PROVE SearchFits(call[b])'
  <2>1. PICK q \in Call : q = call'[b]
    BY <1>2
  <2>2. SearchFits(q)'
    BY <1>1, <2>1, SearchHas, SearchStillFits DEF Turns
  <2>3. QED BY <2>1, <2>2 DEF SearchFits
<1>4. QED BY <1>1, <1>2, <1>3 DEF Turns

(* The counts, whatever the calls that are under way and insert. *)
LEMMA CountOf ==
  ASSUME TreeInv
  PROVE  /\ Inserting \subseteq Active /\ IsFiniteSet(Active) /\ IsFiniteSet(Inserting)
         /\ Cardinality(Active) \in Nat /\ Cardinality(Inserting) \in Nat
         /\ Cardinality(Present(nodes)) \in Nat /\ overlaps \in Nat /\ MaxNodes \in Nat \ {0, 1}
         /\ Cardinality(Inserting) <= overlaps + 1 /\ Cardinality(Active) <= overlaps + 1
         /\ Cardinality(Present(nodes)) + Cardinality(Inserting) <= MaxNodes + overlaps
         /\ overlaps \in 0..MaxMishaps /\ crashes \in 0..MaxMishaps /\ MaxMishaps \in Nat
<1>1. Inserting \subseteq Active
  BY DEF Inserting, Active, Doing
<1>2. IsFiniteSet(Active) /\ Cardinality(Active) <= overlaps + 1
      /\ Cardinality(Present(nodes)) + Cardinality(Inserting) <= MaxNodes + overlaps
  BY DEF TreeInv, Counted
<1>3. /\ IsFiniteSet(Inserting) /\ Cardinality(Inserting) <= Cardinality(Active)
      /\ Cardinality(Active) \in Nat /\ Cardinality(Inserting) \in Nat
  BY <1>1, <1>2, FS_Subset, FS_CardinalityType
<1>4. Cardinality(Present(nodes)) \in Nat
  BY PresentNodes, MoreNodes
<1>5. /\ overlaps \in 0..MaxMishaps /\ crashes \in 0..MaxMishaps /\ MaxMishaps \in Nat
      /\ MaxNodes \in Nat \ {0, 1}
  BY TreeLimits DEF TreeInv, TypeOK
<1>6. QED BY <1>1, <1>2, <1>3, <1>4, <1>5

(* A step of a call under way keeps the invariant. *)
LEMMA ContinueKeeps ==
  ASSUME TreeInv, NEW c \in Caller, Continue(c)
  PROVE  TreeInv'
<1>1. PICK r : Turns(c, r)
  BY ContinueTurns
<1>2. /\ c \in Active /\ Active' \subseteq Active /\ UNCHANGED <<overlaps, crashes>>
      /\ left' \in 0..NodeBudget
  BY ContinueCounts
<1>3. TypeOK' /\ (\A e \in Exp : RowFits(nodes[e], e)') /\ (\A b \in Caller : SearchFits(call[b])')
  BY <1>1, <1>2, TurnsKeep, CountOf DEF TypeOK
<1>4. Grows'
  <2>1. \E n \in 0..MaxIter : \A e \in Exp \ {Root} : iters'[e] # "absent" <=> e <= n
    <3>1. PICK n \in 0..MaxIter : \A e \in Exp \ {Root} : iters[e] # "absent" <=> e <= n
      BY DEF TreeInv, Grows
    <3>2. CASE UNCHANGED iters
      BY <3>1, <3>2
    <3>3. CASE Contract(c)
      <4>1. PICK k \in Exp \ {Root} :
               /\ iters' = [iters EXCEPT ![k] = "waiting_approval"]
               /\ k = 1 + Cardinality({e \in Exp \ {Root} : iters[e] # "absent"})
        BY <3>3 DEF Contract
      <4>2. /\ \A e \in Exp \ {Root} : iters[e] # "absent" <=> e <= k - 1
            /\ k \in 1..MaxIter
        BY <4>1, FreshIter
      <4>3. \A e \in Exp \ {Root} : iters'[e] = IF e = k THEN "waiting_approval" ELSE iters[e]
        BY <4>1, SearchHas
      <4>4. k \in 0..MaxIter /\ Exp \subseteq Nat
        BY <4>2, BlankTyped
      <4>5. \A e \in Exp \ {Root} : iters'[e] # "absent" <=> e <= k
        BY <4>2, <4>3, <4>4
      <4>6. QED BY <4>4, <4>5
    <3>4. QED
      BY <3>2, <3>3
         DEF Continue, CreateRoot, Score, Rank, Choose, Plan, Settle, Judge,
             ApplyStop, Register, Insert, Link, Await, Sync, SumUp, CountScores
  <2>2. Root \notin Present(nodes)' => Present(nodes)' = {}
    BY ContinueCounts DEF TreeInv, Grows, Inserts
  <2>3. QED BY <2>1, <2>2, TreeStays DEF Grows
<1>5. Counted'
  <2>1. IsFiniteSet(Active') /\ Cardinality(Active') <= overlaps' + 1
    <3>1. IsFiniteSet(Active') /\ Cardinality(Active') <= Cardinality(Active)
          /\ Cardinality(Active') \in Nat
      BY <1>2, CountOf, FS_Subset, FS_CardinalityType
    <3>2. QED BY <1>2, <3>1, CountOf
  <2>2. CASE Inserting' = Inserting /\ Present(nodes)' = Present(nodes)
    BY <1>2, <2>1, <2>2, CountOf DEF Counted
  <2>3. CASE /\ c \notin Inserting /\ Inserting' = Inserting \cup {c}
             /\ Present(nodes)' = Present(nodes) /\ Cardinality(Present(nodes)) < MaxNodes
    <3>1. Inserting \cup {c} \subseteq Active
      BY <1>2, CountOf
    <3>2. /\ Cardinality(Inserting') <= Cardinality(Active) /\ Cardinality(Inserting') \in Nat
      BY <2>3, <3>1, CountOf, FS_Subset, FS_CardinalityType
    <3>3. Cardinality(Present(nodes)') + Cardinality(Inserting') <= MaxNodes + overlaps'
      BY <1>2, <2>3, <3>2, CountOf
    <3>4. QED BY <2>1, <3>3 DEF Counted
  <2>4. CASE Inserts(c)
    <3>1. PICK k \in Exp : Present(nodes)' = Present(nodes) \cup {k}
      BY <2>4 DEF Inserts
    <3>2. /\ Cardinality(Present(nodes)') \in Nat
          /\ Cardinality(Present(nodes)') <= Cardinality(Present(nodes)) + 1
      BY <3>1, OneNodeMore, PresentNodes, CountOf
    <3>3. Cardinality(Inserting') = Cardinality(Inserting) - 1
      BY <2>4, CountOf, FS_RemoveElement DEF Inserts
    <3>4. Cardinality(Present(nodes)') + Cardinality(Inserting') <= MaxNodes + overlaps'
      BY <1>2, <3>2, <3>3, CountOf
    <3>5. QED BY <2>1, <3>4 DEF Counted
  <2>5. CASE Inserting' = Inserting /\ Present(nodes)' = Present(nodes) \cup {Root}
    <3>1. CASE Root \in Present(nodes)
      <4>1. Present(nodes)' = Present(nodes)
        BY <2>5, <3>1
      <4>2. QED BY <1>2, <2>1, <2>5, <4>1, CountOf DEF Counted
    <3>2. CASE Root \notin Present(nodes)
      <4>1. Present(nodes)' = {Root}
        BY <2>5, <3>2 DEF TreeInv, Grows
      <4>2. Cardinality(Present(nodes)') = 1
        BY <4>1, FS_Singleton
      <4>3. Cardinality(Present(nodes)') + Cardinality(Inserting') <= MaxNodes + overlaps'
        BY <1>2, <2>5, <4>2, CountOf
      <4>4. QED BY <2>1, <4>3 DEF Counted
    <3>3. QED BY <3>1, <3>2
  <2>6. QED BY <2>2, <2>3, <2>4, <2>5, ContinueCounts
<1>6. QED BY <1>3, <1>4, <1>5 DEF TreeInv

(* So does a request that begins. *)
LEMMA BeginKeeps ==
  ASSUME TreeInv, NEW c \in Caller,
         Create(c) \/ PlanNext(c) \/ ApproveCandidate(c) \/ Advance(c)
  PROVE  TreeInv'
<1>1. PICK r : Turns(c, r) /\ BeginWith(c, r) /\ r.at # "insert" /\ UNCHANGED <<nodes, iters, left>>
  BY BeginTurns
<1>2. /\ \A b \in Caller : call'[b] = IF b = c THEN r ELSE call[b]
      /\ call[c].at = "idle" /\ Present(nodes)' = Present(nodes)
  BY <1>1, TurnsKeep DEF BeginWith, Doing, Present
<1>3. Busy <=> Active # {}
  BY DEF Busy, Active
<1>4. /\ Active' \subseteq Active \cup {c} /\ Inserting' = Inserting
  BY <1>1, <1>2 DEF Active, Inserting, Doing
<1>5. /\ overlaps' = IF Busy THEN overlaps + 1 ELSE overlaps
      /\ overlaps' \in 0..MaxMishaps /\ UNCHANGED crashes
  BY <1>1, CountOf DEF BeginWith, Mishap
<1>6. TypeOK' /\ (\A e \in Exp : RowFits(nodes[e], e)') /\ (\A b \in Caller : SearchFits(call[b])')
  BY <1>1, <1>5, TurnsKeep, CountOf, SearchHas DEF TypeOK
<1>7. Grows'
  <2>1. tree'.status # "absent"
    BY SearchHas
       DEF Create, PlanNext, ApproveCandidate, Advance, Open, TreeInv, Grows,
           NoTree
  <2>2. QED BY <1>1, <1>2, <2>1 DEF TreeInv, Grows
<1>8. Counted'
  <2>1. /\ IsFiniteSet(Active \cup {c})
        /\ Cardinality(Active \cup {c}) <= Cardinality(Active) + 1
        /\ Cardinality(Active \cup {c}) \in Nat
    <3>1. IsFiniteSet(Active) /\ Cardinality(Active) \in Nat
      BY CountOf
    <3>2. /\ IsFiniteSet(Active \cup {c})
          /\ Cardinality(Active \cup {c}) =
               IF c \in Active THEN Cardinality(Active) ELSE Cardinality(Active) + 1
      BY <3>1, FS_AddElement
    <3>3. QED BY <3>1, <3>2
  <2>2. IsFiniteSet(Active') /\ Cardinality(Active') <= Cardinality(Active) + 1
        /\ Cardinality(Active') \in Nat
    BY <1>4, <2>1, CountOf, FS_Subset, FS_CardinalityType
  <2>3. Active = {} => Cardinality(Active) = 0
    BY FS_EmptySet
  <2>4. Cardinality(Active') <= overlaps' + 1
    BY <1>3, <1>5, <2>2, <2>3, CountOf
  <2>5. Cardinality(Present(nodes)') + Cardinality(Inserting') <= MaxNodes + overlaps'
    BY <1>2, <1>4, <1>5, CountOf
  <2>6. QED BY <2>2, <2>4, <2>5 DEF Counted
<1>9. QED BY <1>6, <1>7, <1>8 DEF TreeInv

(* Outcomes of iterations only go ahead. *)
LEMMA IterStepAhead ==
  ASSUME TreeInv, NEW e \in Exp \ {Root}, IterStep(e)
  PROVE  /\ Ahead /\ iters' \in [Exp \ {Root} -> IterStatus]
         /\ \A d \in Exp \ {Root} : iters'[d] # "absent" <=> iters[d] # "absent"
<1>1. PICK s \in {"running", "failed", "completed"} :
        /\ iters' = [iters EXCEPT ![e] = s] /\ iters[e] # "absent"
        /\ iters[e] = "completed" => s = "completed"
  BY DEF IterStep
<1>2. \A d \in Exp \ {Root} : iters'[d] = IF d = e THEN s ELSE iters[d]
  BY <1>1, RowsHave
<1>3. iters' \in [Exp \ {Root} -> IterStatus]
  BY <1>1, RowsHave DEF IterStatus
<1>4. Present(nodes)' = Present(nodes)
  BY DEF IterStep, Present
<1>5. QED BY <1>1, <1>2, <1>3, <1>4 DEF Ahead

(* What changes neither nodes nor calls. *)
LEMMA AsideKeeps ==
  ASSUME TreeInv, Ahead, UNCHANGED <<nodes, call, left>>, tree' \in Tree,
         iters' \in [Exp \ {Root} -> IterStatus],
         \A d \in Exp \ {Root} : iters'[d] # "absent" <=> iters[d] # "absent",
         tree' = tree \/ tree'.status # "absent",
         overlaps' \in {overlaps, overlaps + 1}, overlaps' \in 0..MaxMishaps, UNCHANGED crashes
  PROVE  TreeInv'
<1>1. TypeOK'
  BY CountOf DEF TreeInv, TypeOK
<1>2. \A e \in Exp : RowFits(nodes[e], e)'
  <2>1. SUFFICES ASSUME NEW e \in Exp PROVE RowFits(nodes[e], e)'
    OBVIOUS
  <2>2. PICK n : n = nodes[e]
    OBVIOUS
  <2>3. RowFits(n, e)'
    BY <2>2, RowsHave, RowStillFits DEF TreeInv
  <2>4. QED BY <2>2, <2>3 DEF RowFits
<1>3. \A b \in Caller : SearchFits(call[b])'
  <2>1. SUFFICES ASSUME NEW b \in Caller PROVE SearchFits(call[b])'
    OBVIOUS
  <2>2. PICK q \in Call : q = call[b]
    BY RowsHave
  <2>3. SearchFits(q)'
    BY <2>2, RowsHave, SearchStillFits
  <2>4. QED BY <2>2, <2>3 DEF SearchFits
<1>4. Present(nodes)' = Present(nodes) /\ Active' = Active /\ Inserting' = Inserting
  BY DEF Present, Active, Inserting, Doing
<1>5. Grows'
  BY <1>4 DEF TreeInv, Grows
<1>6. Counted'
  BY <1>4, CountOf DEF Counted
<1>7. QED BY <1>1, <1>2, <1>3, <1>5, <1>6 DEF TreeInv

LEMMA TreeInvInit == Init => TreeInv
<1> SUFFICES ASSUME Init PROVE TreeInv
  OBVIOUS
<1>1. TypeOK
  BY BlankTyped, TreeLimits DEF Init, TypeOK, IterStatus
<1>2. /\ \A e \in Exp : nodes[e] = NoNode
      /\ \A c \in Caller : call[c] = Idle
  BY BlankTyped DEF Init
<1>3. \A e \in Exp : RowFits(nodes[e], e)
  BY <1>2, BlankFits
<1>4. \A c \in Caller : SearchFits(call[c])
  BY <1>2, IdleFits
<1>5. Present(nodes) = {} /\ Active = {} /\ Inserting = {}
  <2>1. Present(nodes) = {}
    BY <1>2 DEF Present, NoNode
  <2>2. Active = {} /\ Inserting = {}
    BY <1>2, BlankTyped DEF Active, Inserting, Doing
  <2>3. QED BY <2>1, <2>2
<1>6. Grows
  <2>1. \A e \in Exp \ {Root} : iters[e] = "absent" /\ ~(e <= 0)
    BY BlankTyped, TreeLimits DEF Init, Root
  <2>2. 0 \in 0..MaxIter
    BY TreeLimits
  <2>3. QED BY <1>5, <2>1, <2>2 DEF Grows, Init
<1>7. Counted
  <2>1. IsFiniteSet({}) /\ Cardinality({}) = 0
    BY FS_EmptySet
  <2>2. QED BY <1>5, <2>1, TreeLimits DEF Counted, Init
<1>8. QED BY <1>1, <1>3, <1>4, <1>6, <1>7 DEF TreeInv

LEMMA TreeInvNext == TreeInv /\ [Next]_vars => TreeInv'
<1> SUFFICES ASSUME TreeInv, [Next]_vars PROVE TreeInv'
  OBVIOUS
<1>1. CASE \E c \in Caller : Create(c) \/ PlanNext(c) \/ ApproveCandidate(c) \/ Advance(c)
  BY <1>1, BeginKeeps
<1>2. CASE \E c \in Caller : Continue(c)
  BY <1>2, ContinueKeeps
<1>3. CASE StopTree
  <2>1. Ahead /\ UNCHANGED iters
    BY <1>3 DEF StopTree, Ahead, Present
  <2>2. tree.status # "absent"
    BY <1>3 DEF StopTree, TreeInv, Grows
  <2>3. tree' \in Tree /\ tree'.status # "absent"
    BY <1>3, <2>2, RowsHave DEF StopTree, Stopped, Tree, TreeStatus, Over
  <2>4. overlaps' \in {overlaps, overlaps + 1} /\ overlaps' \in 0..MaxMishaps
    BY <1>3, CountOf DEF StopTree, Mishap
  <2>5. QED BY <1>3, <2>1, <2>3, <2>4, RowsHave, AsideKeeps DEF StopTree
<1>4. CASE Crash
  <2>1. /\ \A c \in Caller : call'[c] = Idle
        /\ call' \in [Caller -> Call] /\ UNCHANGED <<tree, nodes, iters, left, overlaps>>
        /\ crashes' \in 0..MaxMishaps
    BY <1>4, BlankTyped, CountOf DEF Crash, Mishap
  <2>2. TypeOK'
    BY <2>1 DEF TreeInv, TypeOK
  <2>3. Present(nodes)' = Present(nodes) /\ Active' = {} /\ Inserting' = {}
    BY <2>1, BlankTyped DEF Present, Active, Inserting, Doing
  <2>4. \A e \in Exp : RowFits(nodes[e], e)'
    BY <2>1 DEF TreeInv, RowFits, Present
  <2>5. \A c \in Caller : SearchFits(call[c])'
    <3>1. SearchFits(Idle)'
      BY BlankTyped, BlankFits, <2>1, <2>3
         DEF SearchFits, Parents, Adds, Holds, RowFits, NoNode
    <3>2. QED BY <2>1, <3>1 DEF SearchFits
  <2>6. Grows'
    BY <2>1, <2>3 DEF TreeInv, Grows
  <2>7. Counted'
    <3>1. IsFiniteSet({}) /\ Cardinality({}) = 0
      BY FS_EmptySet
    <3>2. QED BY <2>1, <2>3, <3>1, CountOf DEF Counted
  <2>8. QED BY <2>2, <2>4, <2>5, <2>6, <2>7 DEF TreeInv
<1>5. CASE \E e \in Exp \ {Root} : IterStep(e)
  BY <1>5, IterStepAhead, AsideKeeps, RowsHave, CountOf DEF IterStep
<1>6. CASE UNCHANGED vars
  <2>1. Ahead
    BY <1>6 DEF vars, Ahead, Present
  <2>2. QED BY <1>6, <2>1, AsideKeeps, RowsHave, CountOf DEF vars
<1>7. QED BY <1>1, <1>2, <1>3, <1>4, <1>5, <1>6 DEF Next

(* However requests overlap and break off: rows and copies fit each other,    *)
(* iterations are counted through, and each node beyond the limit is there    *)
(* because of a request that began in the middle of another.                  *)
THEOREM TreeInvHolds == Spec => []TreeInv
<1>1. Init => TreeInv
  BY TreeInvInit
<1>2. TreeInv /\ [Next]_vars => TreeInv'
  BY TreeInvNext
<1>3. QED BY <1>1, <1>2, PTL DEF Spec

-----------------------------------------------------------------------------
(* Without overlaps and crashes one call at a time is under way.  Where it    *)
(* ends, all is calm without it.                                              *)
LEMMA IdleQuiet == \A r : r.at = "idle" => CallQuiet(r)
BY DEF CallQuiet, Adds, Holds

LEMMA CalmIdle ==
  ASSUME NEW q, q.at = "idle", PlansQuiet(q), ResultsQuiet
  PROVE  Calm(Idle)
<1>1. PICK i : i = Idle /\ i.at = "idle"
  BY BlankTyped
<1>2. PlansQuiet(i)
  BY <1>1 DEF PlansQuiet
<1>3. CallQuiet(i)
  BY <1>1, IdleQuiet
<1>4. QED BY <1>1, <1>2, <1>3 DEF Calm

LEMMA QuietHas ==
  ASSUME TreeInv, QuietInv, ~Disturbed, NEW c \in Caller
  PROVE  /\ c \in Active => Active = {c} /\ Calm(call[c])
         /\ Active = {} => Calm(Idle)
BY DEF QuietInv, Current

(* What one call does leaves calm what was, if its record does. *)
LEMMA QuietTurn ==
  ASSUME TreeInv, NEW c \in Caller, NEW r, Turns(c, r), Active \subseteq {c}, Calm(r)'
  PROVE  QuietInv'
<1>1. \A b \in Caller : call'[b] = IF b = c THEN r ELSE call[b]
  BY TurnsKeep
<1>2. Active' = IF r.at = "idle" THEN {} ELSE {c}
  BY <1>1 DEF Active, Doing
<1>3. CASE r.at = "idle"
  <2>1. Calm(Idle)'
    <3>1. PlansQuiet(r)' /\ ResultsQuiet'
      BY DEF Calm
    <3>2. PICK i : i = Idle /\ i.at = "idle"
      BY BlankTyped
    <3>3. PlansQuiet(i)'
      BY <1>3, <3>1, <3>2 DEF PlansQuiet
    <3>4. CallQuiet(i)'
      BY <3>2 DEF CallQuiet, Adds, Holds
    <3>5. QED BY <3>1, <3>2, <3>3, <3>4 DEF Calm
  <2>2. Active' = {}
    BY <1>2, <1>3
  <2>3. Current' = {Idle}
    BY <2>2 DEF Current
  <2>4. \A q \in Current' : Calm(q)'
    BY <2>1, <2>3
  <2>5. QED BY <2>2, <2>4 DEF QuietInv
<1>4. CASE r.at # "idle"
  <2>1. Active' = {c}
    BY <1>2, <1>4
  <2>2. Current' = {r}
    BY <1>1, <2>1 DEF Current
  <2>3. \A q \in Current' : Calm(q)'
    BY <2>2
  <2>4. QED BY <2>1, <2>3 DEF QuietInv
<1>5. QED BY <1>3, <1>4

(* Rows that differ in nothing that the limits look at. *)
SameRows ==
  /\ Present(nodes)' = Present(nodes)
  /\ \A e \in Exp : /\ nodes'[e].parent = nodes[e].parent /\ nodes'[e].plan = nodes[e].plan
                    /\ nodes'[e].status = "evaluated" <=> nodes[e].status = "evaluated"

LEMMA SameCounts ==
  ASSUME SameRows
  PROVE  /\ \A e \in Exp : Children(nodes, e)' = Children(nodes, e) /\ (Room(e)' <=> Room(e))
         /\ WithPlan' = WithPlan /\ Evaluated' = Evaluated
<1>1. Present(nodes) \subseteq Exp
  BY DEF Present
<1>2. ASSUME NEW e \in Exp PROVE Children(nodes, e)' = Children(nodes, e)
  BY <1>1 DEF SameRows, Children
<1>3. WithPlan' = WithPlan /\ Evaluated' = Evaluated
  BY DEF SameRows, WithPlan, Evaluated
<1>4. QED BY <1>2, <1>3 DEF Room

(* Plans stay quiet when the selected node does, or the new one has a plan.   *)
LEMMA PlansStay ==
  ASSUME TreeInv, NEW q, NEW r, PlansQuiet(q), SameRows, Root \in Exp,
         q.at # "link", r.at \notin {"link", "await"},
         \/ tree'.selected = tree.selected /\ q.at # "await"
         \/ /\ tree'.selected \in WithPlan \/ WithPlan = {}
            /\ \A e \in Exp : tree'.selected = e /\ nodes[e].plan = e => Room(e)
  PROVE  PlansQuiet(r)'
<1>1. /\ \A e \in Exp : Cardinality(Children(nodes, e)') <= MaxChildren
      /\ \A e \in Exp : nodes'[e].plan = nodes[e].plan
      /\ Present(nodes)' = Present(nodes) /\ Present(nodes) \subseteq Exp
  BY SameCounts DEF PlansQuiet, SameRows, Present
<1>2. \A e \in Present(nodes)' \ {Root} : nodes'[e].plan # None
  BY <1>1 DEF PlansQuiet
<1>3. nodes'[Root].plan = None => WithPlan' = {}
  BY <1>1, SameCounts DEF PlansQuiet
<1>4. tree'.selected \in WithPlan' \/ WithPlan' = {}
  BY SameCounts DEF PlansQuiet
<1>5. \A e \in Exp : tree'.selected = e /\ nodes'[e].plan = e => Room(e)'
  BY <1>1, SameCounts DEF PlansQuiet
<1>6. QED BY ONLY <1>1, <1>2, <1>3, <1>4, <1>5 DEF PlansQuiet

LEMMA RowsSame ==
  ASSUME UNCHANGED nodes
  PROVE  SameRows
BY DEF SameRows, Present

(* What a record in hand is about: the node is there, and has no copy. *)
LEMMA OfPresent ==
  ASSUME TreeInv, NEW q \in Call, SearchFits(q), q.at \in Parents
  PROVE  q.of \in Exp /\ q.of \in Present(nodes) /\ nodes[q.of].status # "absent"
BY DEF SearchFits, Present

(* A step that changes neither rows nor counters leaves calm what was. *)
LEMMA CalmStays ==
  ASSUME TreeInv, NEW q, NEW r, Calm(q), SameRows,
         q.at \notin {"link", "await"}, r.at \notin {"link", "await"},
         tree'.seen = tree.seen, tree'.rounds = tree.rounds,
         tree'.status = "completed" =>
           tree.status = "completed" \/ Cardinality(Evaluated) > MaxRounds,
         \/ tree'.selected = tree.selected
         \/ /\ tree'.selected \in WithPlan \/ WithPlan = {}
            /\ \A e \in Exp : tree'.selected = e /\ nodes[e].plan = e => Room(e),
         CallQuiet(r)'
  PROVE  Calm(r)'
<1>1. PlansQuiet(r)'
  BY PlansStay, BlankTyped DEF Calm
<1>2. ResultsQuiet'
  <2>1. Evaluated' = Evaluated /\ Compared' = Compared
    BY SameCounts DEF Compared
  <2>2. QED BY <2>1 DEF Calm, ResultsQuiet
<1>3. QED BY <1>1, <1>2 DEF Calm

(* The calls that plan. *)
LEMMA PlanningCalm ==
  ASSUME TreeInv, NEW c \in Caller, NEW q \in Call, q = call[c], Calm(q), NEW r \in Call,
         call' = [call EXCEPT ![c] = r],
         Rank(c) \/ Choose(c) \/ Plan(c) \/ Settle(c)
  PROVE  Calm(r)'
<1>1. /\ call \in [Caller -> Call] /\ SearchFits(q) /\ tree \in Tree /\ nodes \in [Exp -> Node]
      /\ r = call'[c]
  BY RowsHave
<1>q. CallQuiet(q) /\ PlansQuiet(q) /\ ResultsQuiet
  BY DEF Calm
<1>g. ASSUME NEW l \in CallLabel, Goto(c, l) PROVE r.at = l
  BY <1>1, <1>g DEF Goto, Call
<1>r. Return(c) => r.at = "idle"
  BY <1>1, BlankTyped DEF Return
<1>u. UNCHANGED nodes => SameRows
  BY RowsSame
<1>i. r.at \in {"idle", "judge"} => CallQuiet(r)'
  BY DEF CallQuiet, Adds, Holds
<1>2. CASE Rank(c)
  <2>1. q.at = "rank" /\ UNCHANGED <<tree, nodes>>
    BY <1>2 DEF Rank, Doing
  <2>2. CASE Goto(c, "judge")
    <3>1. r.at = "judge"
      BY <1>g, <2>2 DEF CallLabel
    <3>2. QED BY <1>i, <1>u, <2>1, <3>1, CalmStays
  <2>3. ASSUME NEW e \in Candidates(tree, nodes), NEW t,
               t = [tree EXCEPT !.selected = e, !.status = IF @ = "created" THEN "active" ELSE @],
               call' = [call EXCEPT ![c].at = "choose", ![c].tree = t, ![c].of = e]
        PROVE  Calm(r)'
    <3>1. e \in Exp /\ Room(e) /\ ~IsTreeTerminal(tree)
      BY <2>3 DEF Candidates, Expandable, Room
    <3>2. /\ t.selected = e /\ t.rounds = tree.rounds /\ t.seen = tree.seen
          /\ t.status \in {tree.status, "active"}
      BY <1>1, <2>3 DEF Tree
    <3>3. ~IsTreeTerminal(t)
      BY <3>1, <3>2 DEF IsTreeTerminal, Over
    <3>4. r = [q EXCEPT !.at = "choose", !.tree = t, !.of = e]
      BY <1>1, <2>3 DEF Call
    <3>5. r.at = "choose" /\ r.tree = t /\ r.of = e
      BY <3>4 DEF Call
    <3>6. CallQuiet(r)'
      <4>1. Room(e)' /\ ~IsTreeTerminal(tree)'
        BY <2>1, <3>1, <1>u, SameCounts DEF IsTreeTerminal
      <4>2. QED BY <2>1, <3>2, <3>3, <3>5, <4>1
                   DEF CallQuiet, Adds, Holds, IsTreeTerminal
    <3>7. QED BY <1>u, <2>1, <3>5, <3>6, CalmStays
  <2>4. QED BY <1>2, <2>2, <2>3 DEF Rank
<1>3. CASE Choose(c)
  <2>1. q.at = "choose" /\ UNCHANGED nodes /\ tree' = q.tree
    BY <1>3 DEF Choose, Doing
  <2>2. q.of \in Exp /\ q.of \in Present(nodes)
    BY <1>1, <2>1, OfPresent DEF Parents
  <2>3. /\ tree'.selected = q.of /\ tree'.rounds = tree.rounds /\ tree'.seen = tree.seen
        /\ tree'.status # "completed" /\ Room(q.of)
    BY <1>q, <2>1 DEF CallQuiet, IsTreeTerminal, Over
  <2>4. q.of \in WithPlan \/ WithPlan = {}
    <3>1. CASE q.of # Root
      BY <1>q, <2>1, <2>2, <3>1 DEF PlansQuiet, WithPlan
    <3>2. CASE q.of = Root /\ WithPlan = {}
      BY <3>2
    <3>3. QED BY <1>q, <2>2, <3>1, <3>2 DEF PlansQuiet, WithPlan
  <2>5. r.at \in {"idle", "plan"} /\ CallQuiet(r)'
    <3>1. CASE Return(c)
      BY <1>r, <1>i, <3>1
    <3>2. CASE call' = [call EXCEPT ![c].at = "plan", ![c].tree = NoTree,
                     ![c].nodes = [NoNodes EXCEPT ![call[c].of] = nodes[call[c].of]]]
      <4>1. PICK ns : ns = [NoNodes EXCEPT ![q.of] = nodes[q.of]]
        OBVIOUS
      <4>2. r = [q EXCEPT !.at = "plan", !.tree = NoTree, !.nodes = ns]
        BY <1>1, <3>2, <4>1 DEF Call
      <4>3. r.at = "plan" /\ r.of = q.of /\ r.nodes = ns
        BY <4>2 DEF Call
      <4>4. ns[q.of] = nodes[q.of]
        BY <2>2, <4>1, BlankTyped
      <4>5. Room(q.of)'
        BY <1>u, <2>1, <2>2, <2>3, SameCounts
      <4>6. QED BY <2>1, <2>3, <4>3, <4>4, <4>5 DEF CallQuiet, Adds, Holds
    <3>3. QED BY <1>3, <3>1, <3>2 DEF Choose
  <2>6. QED BY <1>u, <2>1, <2>3, <2>4, <2>5, CalmStays
<1>4. CASE Plan(c)
  <2>1. q.at = "plan" /\ UNCHANGED tree
    BY <1>4 DEF Plan, Doing
  <2>2. CASE Return(c) /\ UNCHANGED nodes
    BY <1>r, <1>i, <1>u, <2>1, <2>2, CalmStays
  <2>3. ASSUME NEW b \in BOOLEAN,
               nodes' = [nodes EXCEPT ![q.of] = [q.nodes[q.of] EXCEPT !.plan = q.of]],
               call' = [call EXCEPT ![c] = [Idle EXCEPT !.at = "settle", !.of = q.of, !.refused = b]]
        PROVE  Calm(r)'
    <3>1. PICK p \in Exp : p = q.of /\ p \in Present(nodes)
      BY <1>1, <2>1, OfPresent DEF Parents
    <3>2. tree.selected = p /\ Room(p) /\ q.nodes[p] = nodes[p]
      BY <1>q, <2>1, <3>1 DEF CallQuiet
    <3>3. r = [Idle EXCEPT !.at = "settle", !.of = q.of, !.refused = b]
      BY <1>1, <2>3
    <3>4. r.at = "settle" /\ r.of = p
      BY <3>1, <3>3, BlankTyped DEF Call
    <3>5. nodes' = [nodes EXCEPT ![p] = [nodes[p] EXCEPT !.plan = p]]
      BY <2>3, <3>1, <3>2
    <3>6. \A e \in Exp : /\ nodes'[e].status = nodes[e].status
                         /\ nodes'[e].parent = nodes[e].parent
                         /\ nodes'[e].plan = IF e = p THEN p ELSE nodes[e].plan
      BY <1>1, <3>5 DEF Node
    <3>7. Present(nodes)' = Present(nodes) /\ Evaluated' = Evaluated
      BY <3>6 DEF Present, Evaluated
    <3>8. ASSUME NEW e \in Exp PROVE Children(nodes, e)' = Children(nodes, e)
      BY <3>6, <3>7 DEF Children, Present
    <3>9. WithPlan' = WithPlan \cup {p} /\ p # None
      BY <3>1, <3>6, BlankTyped DEF WithPlan
    <3>10. PlansQuiet(r)'
      <4>1. \A e \in Present(nodes)' \ {Root} : nodes'[e].plan # None
        BY <1>q, <2>1, <3>6, <3>7, <3>9 DEF PlansQuiet, Present
      <4>2. nodes'[Root].plan # None
        BY <1>q, <2>1, <3>1, <3>6, <3>9, BlankTyped DEF PlansQuiet, WithPlan
      <4>3. \A e \in Exp : tree'.selected = e /\ nodes'[e].plan = e => Room(e)'
        BY <2>1, <3>2, <3>8 DEF Room
      <4>4. \A e \in Exp : Cardinality(Children(nodes, e)') <= MaxChildren
        BY <1>q, <3>8 DEF PlansQuiet
      <4>5. tree'.selected \in WithPlan'
        BY <2>1, <3>2, <3>9
      <4>6. QED BY <4>1, <4>2, <4>3, <4>4, <4>5 DEF PlansQuiet
    <3>11. ResultsQuiet'
      BY <1>q, <2>1, <3>7 DEF ResultsQuiet, Compared
    <3>12. CallQuiet(r)'
      <4>1. Room(p)' /\ nodes'[p].plan = p /\ tree'.selected = p
        BY <2>1, <3>2, <3>6, <3>8 DEF Room
      <4>2. QED BY <3>4, <4>1 DEF CallQuiet, Adds, Holds
    <3>13. QED BY <3>10, <3>11, <3>12 DEF Calm
  <2>4. QED BY <1>4, <2>2, <2>3 DEF Plan
<1>5. CASE Settle(c)
  <2>1. /\ q.at = "settle" /\ UNCHANGED nodes /\ Goto(c, "judge")
        /\ tree' \in {[tree EXCEPT !.status = "waiting_approval", !.selected = q.of], tree}
    BY <1>5 DEF Settle, Doing
  <2>2. tree.selected = q.of
    BY <1>q, <2>1 DEF CallQuiet
  <2>3. /\ tree'.selected = tree.selected /\ tree'.rounds = tree.rounds /\ tree'.seen = tree.seen
        /\ tree'.status \in {tree.status, "waiting_approval"}
    BY <1>1, <2>1, <2>2 DEF Tree
  <2>4. r.at = "judge"
    BY <1>g, <2>1 DEF CallLabel
  <2>5. QED BY <1>i, <1>u, <2>1, <2>3, <2>4, CalmStays
<1>6. QED BY <1>2, <1>3, <1>4, <1>5

(* The calls that judge and stop. *)
LEMMA StoppingCalm ==
  ASSUME TreeInv, NEW c \in Caller, NEW q \in Call, q = call[c], Calm(q), NEW r \in Call,
         call' = [call EXCEPT ![c] = r],
         Judge(c) \/ ApplyStop(c) \/ CreateRoot(c) \/ Score(c)
  PROVE  Calm(r)'
<1>1. /\ call \in [Caller -> Call] /\ SearchFits(q) /\ tree \in Tree /\ nodes \in [Exp -> Node]
      /\ r = call'[c] /\ \A e \in Exp : RowFits(nodes[e], e)
  BY RowsHave
<1>q. CallQuiet(q) /\ PlansQuiet(q) /\ ResultsQuiet
  BY DEF Calm
<1>r. Return(c) => r.at = "idle"
  BY <1>1, BlankTyped DEF Return
<1>i. r.at \in {"idle", "rank"} => CallQuiet(r)'
  BY DEF CallQuiet, Adds, Holds
<1>2. CASE Judge(c)
  <2>1. q.at = "judge" /\ UNCHANGED <<tree, nodes>>
    BY <1>2 DEF Judge, Doing
  <2>2. PICK v : v = Verdict(tree, nodes, q.refused)
    OBVIOUS
  <2>3. CASE v = None
    BY <1>2, <1>i, <1>r, <2>1, <2>2, <2>3, RowsSame, CalmStays DEF Judge
  <2>4. CASE v # None
    <3>1. r = [Idle EXCEPT !.at = "stop", !.verdict = v, !.pending = q.pending]
      BY <1>1, <1>2, <2>2, <2>4 DEF Judge
    <3>2. r.at = "stop" /\ r.verdict = v
      BY <3>1, BlankTyped DEF Call
    <3>3. v = "completed" => Cardinality(Evaluated) > MaxRounds
      <4>1. SUFFICES ASSUME v = "completed" PROVE Cardinality(Evaluated) > MaxRounds
        OBVIOUS
      <4>2. tree.status = "completed" \/ tree.rounds >= MaxRounds
        <5>1. CASE IsTreeTerminal(tree)
          <6>1. v = tree.status
            BY <2>2, <5>1 DEF Verdict
          <6>2. QED BY <4>1, <6>1
        <5>2. CASE ~IsTreeTerminal(tree) /\ left = 0
          <6>1. v = "budget_exhausted"
            BY <2>2, <5>2 DEF Verdict
          <6>2. QED BY <4>1, <6>1
        <5>3. CASE ~IsTreeTerminal(tree) /\ left > 0 /\ Candidates(tree, nodes) = {}
          <6>1. v = "no_valid_candidates"
            BY <2>2, <5>3, SearchHas DEF Verdict
          <6>2. QED BY <4>1, <6>1
        <5>4. CASE ~IsTreeTerminal(tree) /\ left > 0 /\ Candidates(tree, nodes) # {}
          <6>1. v = IF q.refused THEN "no_valid_candidates"
                    ELSE IF tree.rounds >= MaxRounds THEN "completed" ELSE None
            BY <2>2, <5>4, SearchHas DEF Verdict
          <6>2. CASE tree.rounds >= MaxRounds
            BY <6>2
          <6>3. QED BY <4>1, <2>4, <6>1, <6>2
        <5>5. left \in Nat
          BY SearchHas, TreeLimits
        <5>6. QED BY <5>1, <5>2, <5>3, <5>4, <5>5
      <4>3. CASE tree.status = "completed"
        BY <1>q, <4>3 DEF ResultsQuiet
      <4>4. CASE tree.rounds >= MaxRounds
        <5>1. MaxRounds \in Nat \ {0} /\ tree.rounds \in 0..MaxRounds
          BY <1>1, TreeLimits DEF Tree
        <5>2. tree.seen /\ tree.rounds + 1 <= Cardinality(Evaluated)
          BY <1>q, <4>4, <5>1 DEF ResultsQuiet, Compared
        <5>3. Cardinality(Evaluated) \in Nat
          BY MoreNodes DEF Evaluated
        <5>4. QED BY <4>4, <5>1, <5>2, <5>3
      <4>5. QED BY <4>2, <4>3, <4>4
    <3>4. CallQuiet(r)'
      <4>1. Evaluated' = Evaluated
        BY <2>1 DEF Evaluated
      <4>2. QED BY <3>2, <3>3, <4>1 DEF CallQuiet, Adds, Holds
    <3>5. QED BY <2>1, <3>2, <3>4, RowsSame, CalmStays
  <2>5. QED BY <2>3, <2>4
<1>3. CASE ApplyStop(c)
  <2>1. q.at = "stop" /\ UNCHANGED nodes /\ Return(c) /\ tree' = Stopped(q.verdict)
    BY <1>3 DEF ApplyStop, Doing
  <2>2. /\ tree'.selected = tree.selected /\ tree'.rounds = tree.rounds /\ tree'.seen = tree.seen
        /\ tree'.status \in {tree.status, q.verdict}
    BY <1>1, <2>1 DEF Stopped, Tree
  <2>3. q.verdict = "completed" => Cardinality(Evaluated) > MaxRounds
    BY <1>q, <2>1 DEF CallQuiet
  <2>4. r.at = "idle" /\ CallQuiet(r)' /\ SameRows
    BY <1>r, <1>i, <2>1, RowsSame
  <2>5. QED BY <2>1, <2>2, <2>3, <2>4, CalmStays
<1>4. CASE CreateRoot(c)
  <2>1. /\ q.at = "root" /\ UNCHANGED tree /\ r.at = "idle"
        /\ nodes' = [nodes EXCEPT ![Root].status = "created"]
    BY <1>4, <1>r DEF CreateRoot, Doing
  <2>2. Root \in Exp /\ None \notin Exp /\ nodes[Root].parent = None
        /\ nodes[Root].status \in {"absent", "created"}
    <3>1. RowFits(nodes[Root], Root)
      BY <1>1, BlankTyped
    <3>2. QED BY <3>1, BlankTyped DEF RowFits, Node
  <2>3. \A e \in Exp : /\ nodes'[e].parent = nodes[e].parent /\ nodes'[e].plan = nodes[e].plan
                       /\ nodes'[e].status = IF e = Root THEN "created" ELSE nodes[e].status
    BY <1>1, <2>1, <2>2 DEF Node
  <2>4. Evaluated' = Evaluated /\ WithPlan' = WithPlan
    BY <2>2, <2>3 DEF Evaluated, WithPlan
  <2>5. Present(nodes)' = Present(nodes) \cup {Root}
    BY <2>2, <2>3 DEF Present
  <2>6. \A e \in Exp : Children(nodes, e)' = Children(nodes, e)
    BY <2>2, <2>3, <2>5 DEF Children, Present
  <2>7. PlansQuiet(r)'
    <3>1. \A e \in Present(nodes)' \ {Root} : nodes'[e].plan # None
      BY <1>q, <2>1, <2>3, <2>5 DEF PlansQuiet, Present
    <3>2. \A e \in Exp : tree'.selected = e /\ nodes'[e].plan = e => Room(e)'
      BY <1>q, <2>1, <2>3, <2>6 DEF PlansQuiet, Room
    <3>3. \A e \in Exp : Cardinality(Children(nodes, e)') <= MaxChildren
      BY <1>q, <2>6 DEF PlansQuiet
    <3>4. nodes'[Root].plan = None => WithPlan' = {}
      BY <1>q, <2>2, <2>3, <2>4 DEF PlansQuiet
    <3>5. tree'.selected \in WithPlan' \/ WithPlan' = {}
      BY <1>q, <2>1, <2>4 DEF PlansQuiet
    <3>6. QED BY <3>1, <3>2, <3>3, <3>4, <3>5 DEF PlansQuiet
  <2>8. ResultsQuiet'
    BY <1>q, <2>1, <2>4 DEF ResultsQuiet, Compared
  <2>9. QED BY <1>i, <2>1, <2>7, <2>8 DEF Calm
<1>5. CASE Score(c)
  <2>1. /\ q.at = "score" /\ UNCHANGED tree
        /\ nodes' = [e \in Exp |-> IF e \in Present(q.nodes) THEN q.nodes[e] ELSE nodes[e]]
        /\ call' = [call EXCEPT ![c] = [Idle EXCEPT !.at = "rank"]]
    BY <1>5 DEF Score, Doing
  <2>2. q.nodes = nodes
    BY <1>q, <2>1 DEF CallQuiet
  <2>3. nodes' = nodes
    BY <1>1, <2>1, <2>2
  <2>4. r.at = "rank"
    BY <1>1, <2>1, BlankTyped DEF Call
  <2>5. QED BY <1>i, <2>1, <2>3, <2>4, RowsSame, CalmStays
<1>6. QED BY <1>2, <1>3, <1>4, <1>5

(* A child that comes, and one that has come. *)
LEMMA ChildComes ==
  ASSUME TreeInv, \A e \in Exp : Cardinality(Children(nodes, e)) <= MaxChildren,
         NEW k \in Exp \ {Root}, k \notin Present(nodes),
         NEW n \in Node, n.status = "created", n.plan = None, n.parent \in Exp, Room(n.parent),
         nodes' = [nodes EXCEPT ![k] = n]
  PROVE  /\ \A e \in Exp : Cardinality(Children(nodes, e)') <= MaxChildren
         /\ WithPlan' = WithPlan /\ Evaluated' = Evaluated
         /\ Present(nodes)' = Present(nodes) \cup {k}
         /\ \A e \in Exp : nodes'[e] = IF e = k THEN n ELSE nodes[e]
<1>1. /\ nodes \in [Exp -> Node] /\ nodes[k].status = "absent" /\ nodes[k].plan = None
  BY RowsHave DEF Present, RowFits
<1>2. \A e \in Exp : nodes'[e] = IF e = k THEN n ELSE nodes[e]
  BY <1>1
<1>3. Present(nodes)' = Present(nodes) \cup {k}
  BY <1>2 DEF Present
<1>4. WithPlan' = WithPlan /\ Evaluated' = Evaluated
  BY <1>1, <1>2 DEF WithPlan, Evaluated
<1>5. ASSUME NEW e \in Exp PROVE Cardinality(Children(nodes, e)') <= MaxChildren
  <2>1. CASE e # n.parent
    <3>1. Children(nodes, e)' = Children(nodes, e)
      BY <1>2, <1>3, <2>1 DEF Children, Present
    <3>2. QED BY <3>1
  <2>2. CASE e = n.parent
    <3>1. Children(nodes, e)' = Children(nodes, e) \cup {k}
      BY <1>2, <1>3, <2>2 DEF Children, Present
    <3>2. Children(nodes, e) \subseteq Exp
      BY DEF Children, Present
    <3>3. /\ Cardinality(Children(nodes, e)') <= Cardinality(Children(nodes, e)) + 1
          /\ Cardinality(Children(nodes, e)') \in Nat /\ Cardinality(Children(nodes, e)) \in Nat
      <4>1. PICK S \in SUBSET Exp : S = Children(nodes, e)
        BY <3>2
      <4>2. /\ Cardinality(S \cup {k}) \in Nat /\ Cardinality(S) \in Nat
            /\ Cardinality(S \cup {k}) <= Cardinality(S) + 1
        BY OneNodeMore
      <4>3. QED BY <3>1, <4>1, <4>2
    <3>4. Cardinality(Children(nodes, e)) < MaxChildren
      BY <2>2 DEF Room
    <3>5. MaxChildren \in Nat
      BY TreeLimits
    <3>6. QED BY <3>3, <3>4, <3>5
  <2>3. QED BY <2>1, <2>2
<1>6. QED BY <1>2, <1>3, <1>4, <1>5

(* The child in hand, and the row it gets. *)
LEMMA ChildInHand ==
  ASSUME TreeInv, NEW c \in Caller, call[c].at \in Holds
  PROVE  \E k \in Exp \ {Root}, n \in Node :
           /\ k = Child(c) /\ call[c].todo = {k} /\ k # call[c].of
           /\ n = NewNode(c) /\ n.status = "created" /\ n.parent = call[c].of /\ n.plan = None
<1>1. PICK q \in Call : q = call[c] /\ SearchFits(q)
  BY SearchHas
<1>2. PICK k \in Exp \ {Root} : q.todo = {k} /\ k # q.of
  BY <1>1 DEF SearchFits
<1>3. Child(c) = k
  BY <1>1, <1>2 DEF Child
<1>4. q.of \in Exp
  BY <1>1, OfPresent DEF Parents, Adds
<1>5. nodes[q.of].depth + 1 \in Nat
  BY <1>4, SearchHas DEF Node
<1>6. PICK n : n = NewNode(c)
  OBVIOUS
<1>7. n \in Node /\ n.status = "created" /\ n.parent = q.of /\ n.plan = None
  BY <1>1, <1>4, <1>5, <1>6, BlankTyped DEF NewNode, NoNode, Node, MaybeExp
<1>8. QED BY <1>1, <1>2, <1>3, <1>6, <1>7

(* The calls that add a child. *)
LEMMA AddingCalm ==
  ASSUME TreeInv, NEW c \in Caller, NEW q \in Call, q = call[c], Calm(q), NEW r \in Call,
         call' = [call EXCEPT ![c] = r],
         Contract(c) \/ Register(c) \/ Insert(c) \/ Link(c) \/ Await(c)
  PROVE  Calm(r)'
<1>1. /\ call \in [Caller -> Call] /\ SearchFits(q) /\ tree \in Tree /\ nodes \in [Exp -> Node]
      /\ r = call'[c] /\ \A e \in Exp : RowFits(nodes[e], e)
  BY RowsHave
<1>q. CallQuiet(q) /\ PlansQuiet(q) /\ ResultsQuiet
  BY DEF Calm
<1>g. ASSUME NEW l \in CallLabel, Goto(c, l)
      PROVE  r.at = l /\ r.of = q.of /\ r.todo = q.todo /\ r.nodes = q.nodes
  BY <1>1, <1>g DEF Goto, Call
<1>r. Return(c) => r.at = "idle"
  BY <1>1, BlankTyped DEF Return
<1>i. r.at = "idle" => CallQuiet(r)'
  BY DEF CallQuiet, Adds, Holds
<1>o. q.at \in Adds => q.of \in Exp /\ q.of \in Present(nodes)
  BY <1>1, OfPresent DEF Parents
<1>2. CASE Contract(c)
  <2>1. q.at = "contract" /\ UNCHANGED <<tree, nodes>>
    BY <1>2 DEF Contract, Doing
  <2>2. PICK k \in Exp \ {Root} :
           /\ k = 1 + Cardinality({e \in Exp \ {Root} : iters[e] # "absent"})
           /\ call' = [call EXCEPT ![c].at = "register", ![c].todo = {k}]
    BY <1>2 DEF Contract
  <2>3. k \notin Present(nodes)
    BY <1>1, <2>2, FreshIter DEF RowFits, Present
  <2>4. r = [q EXCEPT !.at = "register", !.todo = {k}]
    BY <1>1, <2>2 DEF Call
  <2>5. r.at = "register" /\ r.todo = {k} /\ r.of = q.of
    BY <2>4 DEF Call
  <2>6. SameRows
    BY <2>1, RowsSame
  <2>7. CallQuiet(r)'
    <3>1. Room(q.of)' /\ q.of \in Exp
      BY <1>o, <1>q, <2>1, <2>6, SameCounts DEF CallQuiet, Adds
    <3>2. Present(nodes)' = Present(nodes)
      BY <2>6 DEF SameRows
    <3>3. QED BY <1>q, <2>1, <2>3, <2>5, <3>1, <3>2 DEF CallQuiet, Adds, Holds
  <2>8. QED BY <2>1, <2>5, <2>6, <2>7, CalmStays
<1>3. CASE Register(c)
  <2>1. q.at = "register" /\ UNCHANGED <<tree, nodes>> /\ (Goto(c, "insert") \/ Return(c))
    BY <1>3 DEF Register, Doing
  <2>2. SameRows /\ Present(nodes)' = Present(nodes)
    BY <2>1, RowsSame DEF SameRows
  <2>3. Room(q.of)' /\ q.of \in Exp
    BY <1>o, <1>q, <2>1, <2>2, SameCounts DEF CallQuiet, Adds, Holds
  <2>4. CASE Goto(c, "insert")
    <3>1. r.at = "insert" /\ r.of = q.of /\ r.todo = q.todo
      BY <1>g, <2>4 DEF CallLabel
    <3>2. CallQuiet(r)'
      BY <1>q, <2>1, <2>2, <2>3, <3>1 DEF CallQuiet, Adds, Holds
    <3>3. QED BY <2>1, <2>2, <3>1, <3>2, CalmStays
  <2>5. CASE Return(c)
    BY <1>i, <1>r, <2>1, <2>2, <2>5, CalmStays
  <2>6. QED BY <2>1, <2>4, <2>5
<1>4. CASE Insert(c)
  <2>1. /\ q.at = "insert" /\ UNCHANGED tree /\ Goto(c, "link")
        /\ nodes' = [nodes EXCEPT ![Child(c)] = NewNode(c)]
    BY <1>4 DEF Insert, Doing
  <2>2. PICK k \in Exp \ {Root}, n \in Node :
           /\ k = Child(c) /\ q.todo = {k} /\ k # q.of
           /\ n = NewNode(c) /\ n.status = "created" /\ n.parent = q.of /\ n.plan = None
    BY <2>1, ChildInHand DEF Holds
  <2>3. /\ Room(q.of) /\ k \notin Present(nodes) /\ nodes[q.of].plan = q.of
        /\ tree.status \in {"waiting_approval", "active"} /\ q.of \in Exp
    BY <1>o, <1>q, <2>1, <2>2 DEF CallQuiet, Adds, Holds
  <2>4. nodes' = [nodes EXCEPT ![k] = n]
    BY <2>1, <2>2
  <2>5. /\ \A e \in Exp : Cardinality(Children(nodes, e)') <= MaxChildren
        /\ WithPlan' = WithPlan /\ Evaluated' = Evaluated
        /\ Present(nodes)' = Present(nodes) \cup {k}
        /\ \A e \in Exp : nodes'[e] = IF e = k THEN n ELSE nodes[e]
    <3>1. \A e \in Exp : Cardinality(Children(nodes, e)) <= MaxChildren
      BY <1>q DEF PlansQuiet
    <3>2. Room(n.parent) /\ n.parent \in Exp /\ k \notin Present(nodes)
      BY <2>2, <2>3
    <3>3. QED BY <2>2, <2>4, <3>1, <3>2, ChildComes
  <2>6. r.at = "link" /\ r.of = q.of /\ r.todo = {k}
    BY <1>g, <2>1, <2>2 DEF CallLabel
  <2>7. PlansQuiet(r)'
    <3>1. \A e \in Present(nodes)' \ {Root} : nodes'[e].plan # None \/ (r.at = "link" /\ e \in r.todo)
      BY <1>q, <2>1, <2>5, <2>6 DEF PlansQuiet, Present
    <3>2. nodes'[Root].plan = None => WithPlan' = {}
      BY <1>q, <2>5, BlankTyped DEF PlansQuiet
    <3>3. tree'.selected \in WithPlan' \/ WithPlan' = {}
      BY <1>q, <2>1, <2>5 DEF PlansQuiet
    <3>4. QED BY <2>5, <2>6, <3>1, <3>2, <3>3 DEF PlansQuiet
  <2>8. ResultsQuiet'
    BY <1>q, <2>1, <2>5 DEF ResultsQuiet, Compared
  <2>9. CallQuiet(r)'
    <3>1. nodes'[q.of].plan = q.of /\ nodes'[k] = n /\ tree'.status \in {"waiting_approval", "active"}
      BY <2>1, <2>2, <2>3, <2>5
    <3>2. QED BY <2>2, <2>6, <3>1 DEF CallQuiet, Adds, Holds
  <2>10. QED BY <2>7, <2>8, <2>9 DEF Calm
<1>5. CASE Link(c)
  <2>1. /\ q.at = "link" /\ UNCHANGED tree /\ Goto(c, "await")
        /\ nodes' = [nodes EXCEPT ![Child(c)] =
                 [NewNode(c) EXCEPT !.status = "waiting_approval", !.plan = q.of, !.iter = TRUE]]
    BY <1>5 DEF Link, Doing
  <2>2. PICK k \in Exp \ {Root}, n \in Node :
           /\ k = Child(c) /\ q.todo = {k} /\ k # q.of
           /\ n = NewNode(c) /\ n.status = "created" /\ n.parent = q.of /\ n.plan = None
    BY <2>1, ChildInHand DEF Holds
  <2>3. /\ nodes[q.of].plan = q.of /\ q.of \in Exp /\ k \in Present(nodes)
        /\ nodes[k].status = "created" /\ nodes[k].parent = q.of
        /\ tree.status \in {"waiting_approval", "active"}
    <3>1. q.todo \subseteq Present(nodes)
      BY <1>1, <2>1 DEF SearchFits
    <3>2. QED BY <1>o, <1>q, <2>1, <2>2, <3>1 DEF CallQuiet, Adds, Holds
  <2>4. \A e \in Exp :
          /\ nodes'[e].parent = nodes[e].parent
          /\ nodes'[e].plan = IF e = k THEN q.of ELSE nodes[e].plan
          /\ nodes'[e].status = IF e = k THEN "waiting_approval" ELSE nodes[e].status
    <3>1. PICK m : m = [n EXCEPT !.status = "waiting_approval", !.plan = q.of, !.iter = TRUE]
      OBVIOUS
    <3>2. m.status = "waiting_approval" /\ m.plan = q.of /\ m.parent = q.of
      BY <2>2, <3>1 DEF Node
    <3>3. nodes' = [nodes EXCEPT ![k] = m]
      BY <2>1, <2>2, <3>1
    <3>4. QED BY <1>1, <2>3, <3>2, <3>3
  <2>5. Present(nodes)' = Present(nodes) /\ Evaluated' = Evaluated
    BY <2>3, <2>4 DEF Present, Evaluated
  <2>6. \A e \in Exp : Children(nodes, e)' = Children(nodes, e)
    BY <2>4, <2>5 DEF Children, Present
  <2>7. q.of # None /\ q.of \in WithPlan
    BY <2>3, BlankTyped DEF WithPlan
  <2>8. WithPlan' = WithPlan \cup {k}
    BY <2>4, <2>7 DEF WithPlan
  <2>9. r.at = "await" /\ r.of = q.of /\ r.todo = {k}
    BY <1>g, <2>1, <2>2 DEF CallLabel
  <2>10. PlansQuiet(r)'
    <3>1. \A e \in Present(nodes)' \ {Root} : nodes'[e].plan # None
      BY <1>q, <2>2, <2>4, <2>5, <2>7 DEF PlansQuiet, Present
    <3>2. nodes'[Root].plan # None
      BY <1>q, <2>4, <2>7, BlankTyped DEF PlansQuiet
    <3>3. tree'.selected \in WithPlan'
      BY <1>q, <2>1, <2>7, <2>8 DEF PlansQuiet
    <3>4. \A e \in Exp : Cardinality(Children(nodes, e)') <= MaxChildren
      BY <1>q, <2>6 DEF PlansQuiet
    <3>5. QED BY <2>9, <3>1, <3>2, <3>3, <3>4 DEF PlansQuiet
  <2>11. ResultsQuiet'
    BY <1>q, <2>1, <2>5 DEF ResultsQuiet, Compared
  <2>12. CallQuiet(r)'
    <3>1. /\ nodes'[q.of].plan = q.of /\ nodes'[k].plan = q.of
          /\ tree'.status \in {"waiting_approval", "active"}
      BY <2>1, <2>2, <2>3, <2>4
    <3>2. QED BY <2>9, <3>1 DEF CallQuiet, Adds, Holds
  <2>13. QED BY <2>10, <2>11, <2>12 DEF Calm
<1>6. CASE Await(c)
  <2>1. /\ q.at = "await" /\ UNCHANGED nodes /\ Return(c)
        /\ tree' = [tree EXCEPT !.status = "waiting_approval", !.selected = Child(c)]
    BY <1>6 DEF Await, Doing
  <2>2. PICK k \in Exp \ {Root}, n \in Node :
           /\ k = Child(c) /\ q.todo = {k} /\ k # q.of
           /\ n = NewNode(c) /\ n.status = "created" /\ n.parent = q.of /\ n.plan = None
    BY <2>1, ChildInHand DEF Holds
  <2>3. /\ tree'.selected = k /\ tree'.rounds = tree.rounds /\ tree'.seen = tree.seen
        /\ tree'.status = "waiting_approval"
    BY <1>1, <2>1, <2>2 DEF Tree
  <2>4. q.of \in Exp /\ nodes[k].plan = q.of
    BY <1>o, <1>q, <2>1, <2>2 DEF CallQuiet, Adds, Holds
  <2>5. k \in WithPlan /\ nodes[k].plan # k
    BY <2>2, <2>4, BlankTyped DEF WithPlan
  <2>6. r.at = "idle" /\ CallQuiet(r)' /\ SameRows
    BY <1>r, <1>i, <2>1, RowsSame
  <2>7. PlansQuiet(r)'
    BY <1>q, <2>1, <2>3, <2>5, <2>6, PlansStay, BlankTyped
  <2>8. ResultsQuiet'
    <3>1. Evaluated' = Evaluated
      BY <2>1 DEF Evaluated
    <3>2. QED BY <1>q, <2>3, <3>1 DEF ResultsQuiet, Compared
  <2>9. QED BY <2>6, <2>7, <2>8 DEF Calm
<1>7. QED BY <1>2, <1>3, <1>4, <1>5, <1>6

(* A row that only changes its status, to one that is not "absent". *)
LEMMA StatusOnly ==
  ASSUME TreeInv, NEW e \in Present(nodes), NEW s \in {"evaluated", "failed", "running"},
         nodes[e].status # "evaluated", nodes' = [nodes EXCEPT ![e] = [nodes[e] EXCEPT !.status = s]]
  PROVE  /\ Present(nodes)' = Present(nodes) /\ WithPlan' = WithPlan
         /\ \A d \in Exp : Children(nodes, d)' = Children(nodes, d)
         /\ \A d \in Exp : nodes'[d].plan = nodes[d].plan /\ (d # e => nodes'[d] = nodes[d])
         /\ Evaluated' = IF s = "evaluated" THEN Evaluated \cup {e} ELSE Evaluated
         /\ Cardinality(Evaluated') = IF s = "evaluated" THEN Cardinality(Evaluated) + 1
                                      ELSE Cardinality(Evaluated)
<1>1. e \in Exp /\ nodes \in [Exp -> Node]
  BY RowsHave DEF Present
<1>2. \A d \in Exp : /\ nodes'[d].parent = nodes[d].parent /\ nodes'[d].plan = nodes[d].plan
                     /\ nodes'[d].status = IF d = e THEN s ELSE nodes[d].status
                     /\ d # e => nodes'[d] = nodes[d]
  BY <1>1 DEF Node
<1>3. Present(nodes)' = Present(nodes) /\ WithPlan' = WithPlan
  BY <1>1, <1>2 DEF Present, WithPlan
<1>4. \A d \in Exp : Children(nodes, d)' = Children(nodes, d)
  BY <1>2, <1>3 DEF Children, Present
<1>5. Evaluated' = IF s = "evaluated" THEN Evaluated \cup {e} ELSE Evaluated
  BY <1>1, <1>2 DEF Evaluated
<1>6. e \notin Evaluated /\ Evaluated \in SUBSET Exp
  BY DEF Evaluated
<1>7. Cardinality(Evaluated \cup {e}) = Cardinality(Evaluated) + 1
  BY <1>1, <1>6, OneNodeMore
<1>8. QED BY <1>2, <1>3, <1>4, <1>5, <1>7

(* The calls that bring outcomes in. *)
LEMMA AdvancingCalm ==
  ASSUME TreeInv, NEW c \in Caller, NEW q \in Call, q = call[c], Calm(q), NEW r \in Call,
         call' = [call EXCEPT ![c] = r],
         Sync(c) \/ SumUp(c) \/ CountScores(c)
  PROVE  Calm(r)'
<1>1. /\ call \in [Caller -> Call] /\ SearchFits(q) /\ tree \in Tree /\ nodes \in [Exp -> Node]
      /\ r = call'[c] /\ \A e \in Exp : RowFits(nodes[e], e)
  BY RowsHave
<1>q. CallQuiet(q) /\ PlansQuiet(q) /\ ResultsQuiet
  BY DEF Calm
<1>i. r.at \in {"idle", "judge"} => CallQuiet(r)'
  BY DEF CallQuiet, Adds, Holds
<1>c. /\ Cardinality(Evaluated) \in Nat /\ Compared \in Nat /\ tree.rounds \in Nat
      /\ MaxRounds \in Nat /\ tree.rounds <= MaxRounds
  <2>1. Cardinality(Evaluated) \in Nat
    BY MoreNodes DEF Evaluated
  <2>2. tree.rounds \in 0..MaxRounds /\ MaxRounds \in Nat
    BY <1>1, TreeLimits DEF Tree
  <2>3. QED BY <2>1, <2>2 DEF Compared
<1>2. CASE Sync(c)
  <2>1. PICK e : e = Min(q.todo)
    OBVIOUS
  <2>2. /\ q.at = "sync" /\ UNCHANGED tree
        /\ Evaluate(c, e) \/ Fail(c, e) \/ Follow(c, e) \/ LeaveWaiting(c, e)
    BY <1>2, <2>1 DEF Sync, Doing
  <2>3. /\ e \in q.todo /\ e \in Exp /\ e \in Present(nodes) /\ q.todo \in SUBSET Exp
        /\ q.nodes[e] = nodes[e] /\ nodes[e].status # "evaluated"
    <3>1. q.todo \in SUBSET Exp /\ q.todo # {}
      BY <1>1, <2>2 DEF Call, SearchFits
    <3>2. e \in q.todo
      BY <2>1, <3>1, MinOf
    <3>3. q.nodes[e].status # "absent" /\ q.nodes[e] = nodes[e] /\ nodes[e].status # "evaluated"
      BY <1>1, <1>q, <2>2, <3>2 DEF SearchFits, CallQuiet
    <3>4. QED BY <3>1, <3>2, <3>3 DEF Present
  <2>4. PICK k \in Call : /\ k = Looked(c, e) /\ k.at \in {"sum", "sync"}
                          /\ k.todo = q.todo \ {e} /\ k.scored = q.scored
                          /\ \A d \in Exp : d # e => k.nodes[d] = q.nodes[d]
    BY <2>2, <2>3, LookedLeft
(* Whatever becomes of the record and of the row. *)
  <2>o. ASSUME r.at \in {"sum", "sync"}, r.todo = q.todo \ {e},
               \A d \in Exp : d # e => r.nodes[d] = q.nodes[d],
               Evaluated' = Evaluated \/ Evaluated' = Evaluated \cup {e},
               \A d \in Exp : d # e => nodes'[d] = nodes[d],
               Compared <= Cardinality(Evaluated)', r.scored => Compared < Cardinality(Evaluated)'
        PROVE  CallQuiet(r)'
    <3>1. Compared' = Compared
      BY <2>2 DEF Compared
    <3>2. \A d \in r.todo : r.nodes[d] = nodes'[d] /\ nodes'[d].status # "evaluated"
      BY <1>q, <2>2, <2>3, <2>o DEF CallQuiet
    <3>3. QED BY <2>o, <3>1, <3>2 DEF CallQuiet, Adds, Holds
  <2>n. ASSUME UNCHANGED nodes, r.at \in {"sum", "sync"}, r.todo = q.todo \ {e},
               \A d \in Exp : d # e => r.nodes[d] = q.nodes[d], r.scored = q.scored
        PROVE  Calm(r)'
    <3>1. Evaluated' = Evaluated
      BY <2>n DEF Evaluated
    <3>2. /\ Compared <= Cardinality(Evaluated)
          /\ r.scored => Compared < Cardinality(Evaluated)
      BY <1>q, <2>2, <2>n DEF ResultsQuiet, CallQuiet
    <3>3. CallQuiet(r)'
      BY <2>n, <2>o, <3>1, <3>2
    <3>4. QED BY <2>2, <2>n, <3>3, RowsSame, CalmStays
  <2>w. ASSUME NEW s \in {"evaluated", "failed", "running"}, Write(c, e, s),
               r.at \in {"sum", "sync"}, r.todo = q.todo \ {e},
               \A d \in Exp : d # e => r.nodes[d] = q.nodes[d],
               s = "evaluated" \/ r.scored = q.scored
        PROVE  Calm(r)'
    <3>1. nodes' = [nodes EXCEPT ![e] = [nodes[e] EXCEPT !.status = s]]
      BY <2>3, <2>w DEF Write
    <3>2. /\ Present(nodes)' = Present(nodes) /\ WithPlan' = WithPlan
          /\ \A d \in Exp : Children(nodes, d)' = Children(nodes, d)
          /\ \A d \in Exp : nodes'[d].plan = nodes[d].plan /\ (d # e => nodes'[d] = nodes[d])
          /\ Evaluated' = IF s = "evaluated" THEN Evaluated \cup {e} ELSE Evaluated
          /\ Cardinality(Evaluated') = IF s = "evaluated" THEN Cardinality(Evaluated) + 1
                                       ELSE Cardinality(Evaluated)
      BY <2>3, <3>1, StatusOnly
    <3>3. Compared <= Cardinality(Evaluated)
      BY <1>q DEF ResultsQuiet
    <3>4. /\ Compared <= Cardinality(Evaluated')
          /\ r.scored => Compared < Cardinality(Evaluated')
          /\ Cardinality(Evaluated) <= Cardinality(Evaluated') /\ Cardinality(Evaluated') \in Nat
      <4>1. s = "evaluated" => Cardinality(Evaluated') = Cardinality(Evaluated) + 1
        BY <3>2
      <4>2. s # "evaluated" => /\ Cardinality(Evaluated') = Cardinality(Evaluated)
                               /\ r.scored => Compared < Cardinality(Evaluated)
        BY <1>q, <2>2, <2>w, <3>2 DEF CallQuiet
      <4>3. QED BY <1>c, <3>3, <4>1, <4>2
    <3>5. CallQuiet(r)'
      BY <2>o, <2>w, <3>2, <3>4
    <3>6. ResultsQuiet'
      <4>1. Compared' = Compared
        BY <2>2 DEF Compared
      <4>2. tree.status = "completed" => Cardinality(Evaluated') > MaxRounds
        BY <1>c, <1>q, <3>4 DEF ResultsQuiet
      <4>3. ~tree.seen => tree.rounds = 0
        BY <1>q DEF ResultsQuiet
      <4>4. QED BY <2>2, <3>4, <4>1, <4>2, <4>3 DEF ResultsQuiet
    <3>7. PlansQuiet(r)'
      <4>1. \A d \in Present(nodes)' \ {Root} : nodes'[d].plan # None
        BY <1>q, <2>2, <3>2 DEF PlansQuiet, Present
      <4>2. nodes'[Root].plan = None => WithPlan' = {}
        BY <1>q, <3>2, BlankTyped DEF PlansQuiet
      <4>3. tree'.selected \in WithPlan' \/ WithPlan' = {}
        BY <1>q, <2>2, <3>2 DEF PlansQuiet
      <4>4. \A d \in Exp : tree'.selected = d /\ nodes'[d].plan = d => Room(d)'
        BY <1>q, <2>2, <3>2 DEF PlansQuiet, Room
      <4>5. \A d \in Exp : Cardinality(Children(nodes, d)') <= MaxChildren
        BY <1>q, <3>2 DEF PlansQuiet
      <4>6. QED BY <4>1, <4>2, <4>3, <4>4, <4>5 DEF PlansQuiet
    <3>8. QED BY <3>5, <3>6, <3>7 DEF Calm
  <2>5. CASE Evaluate(c, e)
    <3>1. CASE Return(c) /\ UNCHANGED nodes
      <4>1. r.at = "idle"
        BY <1>1, <3>1, BlankTyped DEF Return
      <4>2. QED BY <1>i, <2>2, <3>1, <4>1, RowsSame, CalmStays
    <3>2. CASE /\ Write(c, e, "evaluated")
               /\ call' = [call EXCEPT ![c] = [Looked(c, e) EXCEPT !.moved = TRUE, !.scored = TRUE]]
      <4>1. r = [k EXCEPT !.moved = TRUE, !.scored = TRUE]
        BY <1>1, <2>4, <3>2
      <4>2. r.at = k.at /\ r.todo = k.todo /\ r.nodes = k.nodes
        BY <4>1 DEF Call
      <4>3. QED BY <2>4, <2>w, <3>2, <4>2
    <3>3. QED BY <2>5, <3>1, <3>2 DEF Evaluate
  <2>6. CASE Fail(c, e)
    <3>1. r = [k EXCEPT !.moved = TRUE] /\ Write(c, e, "failed")
      BY <1>1, <2>4, <2>6 DEF Fail
    <3>2. r.at = k.at /\ r.todo = k.todo /\ r.nodes = k.nodes /\ r.scored = k.scored
      BY <3>1 DEF Call
    <3>3. QED BY <2>4, <2>w, <3>1, <3>2
  <2>7. CASE Follow(c, e)
    <3>1. /\ r = [k EXCEPT !.pending = TRUE, !.running = TRUE]
          /\ Write(c, e, "running") \/ UNCHANGED nodes
      BY <1>1, <2>4, <2>7 DEF Follow
    <3>2. r.at = k.at /\ r.todo = k.todo /\ r.nodes = k.nodes /\ r.scored = k.scored
      BY <3>1 DEF Call
    <3>3. QED BY <2>4, <2>w, <2>n, <3>1, <3>2
  <2>8. CASE LeaveWaiting(c, e)
    <3>1. r = [k EXCEPT !.pending = TRUE] /\ UNCHANGED nodes
      BY <1>1, <2>4, <2>8 DEF LeaveWaiting
    <3>2. r.at = k.at /\ r.todo = k.todo /\ r.nodes = k.nodes /\ r.scored = k.scored
      BY <3>1 DEF Call
    <3>3. QED BY <2>4, <2>n, <3>1, <3>2
  <2>9. QED BY <2>2, <2>5, <2>6, <2>7, <2>8
<1>3. CASE SumUp(c)
  <2>1. /\ q.at = "sum" /\ UNCHANGED nodes /\ tree' = [tree EXCEPT !.status = SumStatus(c)]
        /\ call' = [call EXCEPT ![c] = [Idle EXCEPT !.at = IF q.scored THEN "count" ELSE "judge",
                                                    !.pending = q.pending]]
    BY <1>3 DEF SumUp, Doing
  <2>2. /\ tree'.selected = tree.selected /\ tree'.rounds = tree.rounds /\ tree'.seen = tree.seen
        /\ tree'.status = "completed" => tree.status = "completed"
    BY <1>1, <2>1 DEF SumStatus, Tree
  <2>3. r.at = IF q.scored THEN "count" ELSE "judge"
    <3>1. r = [Idle EXCEPT !.at = IF q.scored THEN "count" ELSE "judge", !.pending = q.pending]
      BY <1>1, <2>1
    <3>2. QED BY <3>1, BlankTyped DEF Call
  <2>4. CallQuiet(r)'
    <3>1. Evaluated' = Evaluated /\ Compared' = Compared
      BY <2>1, <2>2 DEF Evaluated, Compared
    <3>2. q.scored => Compared < Cardinality(Evaluated)
      BY <1>q, <2>1 DEF CallQuiet
    <3>3. QED BY <2>3, <3>1, <3>2 DEF CallQuiet, Adds, Holds
  <2>5. QED BY <2>1, <2>2, <2>3, <2>4, RowsSame, CalmStays
<1>4. CASE CountScores(c)
  <2>1. q.at = "count" /\ UNCHANGED nodes /\ Goto(c, "judge")
    BY <1>4 DEF CountScores, Doing
  <2>2. PICK b \in Improves : tree' = [tree EXCEPT !.seen = TRUE,
                  !.rounds = IF b THEN 0 ELSE IF @ < MaxRounds THEN @ + 1 ELSE @]
    BY <1>4 DEF CountScores
  <2>3. /\ tree'.selected = tree.selected /\ tree'.seen /\ tree'.status = tree.status
        /\ tree'.rounds = IF b THEN 0
                          ELSE IF tree.rounds < MaxRounds THEN tree.rounds + 1 ELSE tree.rounds
    BY <1>1, <2>2 DEF Tree
  <2>4. r.at = "judge"
    BY <1>1, <2>1 DEF Goto, Call, CallLabel
  <2>5. SameRows /\ Evaluated' = Evaluated
    BY <2>1, RowsSame DEF Evaluated
  <2>6. PlansQuiet(r)'
    BY <1>q, <2>1, <2>3, <2>4, <2>5, PlansStay, BlankTyped
  <2>7. ResultsQuiet'
    <3>1. Compared < Cardinality(Evaluated)
      BY <1>q, <2>1 DEF CallQuiet
    <3>2. tree'.rounds + 1 <= Cardinality(Evaluated)
      <4>1. CASE b
        BY <1>c, <2>3, <3>1, <4>1
      <4>2. CASE ~b
        <5>1. tree.seen
          BY <2>2, <4>2 DEF Improves
        <5>2. QED BY <1>c, <2>3, <3>1, <4>2, <5>1 DEF Compared
      <4>3. QED BY <4>1, <4>2
    <3>3. tree.status = "completed" => Cardinality(Evaluated) > MaxRounds
      BY <1>q DEF ResultsQuiet
    <3>4. QED BY <2>3, <2>5, <3>2, <3>3 DEF ResultsQuiet, Compared
  <2>8. QED BY <1>i, <2>4, <2>6, <2>7 DEF Calm
<1>5. QED BY <1>2, <1>3, <1>4

(* A step of the one call under way leaves calm what was. *)
LEMMA ContinueQuiet ==
  ASSUME TreeInv, QuietInv, ~Disturbed, NEW c \in Caller, Continue(c)
  PROVE  QuietInv'
<1>1. PICK r : Turns(c, r)
  BY ContinueTurns
<1>2. PICK q \in Call : q = call[c]
  BY SearchHas
<1>3. Active = {c} /\ Calm(q)
  BY <1>2, ContinueCounts, QuietHas
<1>4. r \in Call /\ call' = [call EXCEPT ![c] = r]
  BY <1>1 DEF Turns
<1>5. Calm(r)'
  BY <1>2, <1>3, <1>4, PlanningCalm, StoppingCalm, AddingCalm, AdvancingCalm
     DEF Continue
<1>6. QED BY <1>1, <1>3, <1>5, QuietTurn

(* So does a request that begins when no other is under way. *)
LEMMA BeginQuiet ==
  ASSUME TreeInv, QuietInv, ~Disturbed', NEW c \in Caller,
         Create(c) \/ PlanNext(c) \/ ApproveCandidate(c) \/ Advance(c)
  PROVE  QuietInv'
<1>1. PICK r : Turns(c, r) /\ BeginWith(c, r) /\ UNCHANGED <<nodes, iters, left>>
  BY BeginTurns
<1>2. ~Disturbed /\ ~Busy /\ Active = {}
  BY <1>1, CountOf DEF BeginWith, Disturbed, Busy, Active
<1>3. PlansQuiet(Idle) /\ ResultsQuiet
  BY <1>2, QuietHas DEF Calm
<1>4. r \in Call /\ call' = [call EXCEPT ![c] = r] /\ r = call'[c] /\ call \in [Caller -> Call]
  BY <1>1, RowsHave DEF Turns
<1>5. SameRows
  BY <1>1, RowsSame
<1>c. ASSUME r.at \notin {"link", "await"}, CallQuiet(r)', UNCHANGED tree
      PROVE  QuietInv'
  <2>1. PICK i : i = Idle /\ i.at = "idle"
    BY BlankTyped
  <2>2. Calm(i)
    BY <1>3, <2>1, IdleQuiet DEF Calm
  <2>3. Calm(r)'
    BY <1>5, <1>c, <2>1, <2>2, CalmStays
  <2>4. QED BY <1>1, <1>2, <2>3, QuietTurn
<1>6. CASE Create(c)
  <2>1. tree = NoTree /\ tree' = [NoTree EXCEPT !.status = "created"]
    BY <1>6 DEF Create
  <2>2. r = [Idle EXCEPT !.at = "root"]
    BY <1>4, <1>6 DEF Create, BeginWith
  <2>3. r.at = "root"
    BY <2>2, BlankTyped DEF Call
  <2>4. /\ tree'.seen = tree.seen /\ tree'.rounds = tree.rounds /\ tree'.selected = tree.selected
        /\ tree'.status # "completed"
    BY <2>1 DEF NoTree
  <2>5. CallQuiet(r)'
    BY <2>3 DEF CallQuiet, Adds, Holds
  <2>6. PICK i : i = Idle /\ i.at = "idle"
    BY BlankTyped
  <2>7. Calm(i)
    BY <1>3, <2>6, IdleQuiet DEF Calm
  <2>8. Calm(r)'
    BY <1>5, <2>3, <2>4, <2>5, <2>6, <2>7, CalmStays
  <2>9. QED BY <1>1, <1>2, <2>8, QuietTurn
<1>7. CASE PlanNext(c)
  <2>1. UNCHANGED <<tree, nodes>>
    BY <1>7 DEF PlanNext
  <2>2. r \in {[Idle EXCEPT !.at = "score", !.nodes = nodes], [Idle EXCEPT !.at = "rank"]}
    BY <1>4, <1>7 DEF PlanNext, BeginWith
  <2>3. r.at = "rank" \/ (r.at = "score" /\ r.nodes = nodes)
    BY <2>2, BlankTyped DEF Call
  <2>4. CallQuiet(r)'
    BY <2>1, <2>3 DEF CallQuiet, Adds, Holds
  <2>5. QED BY <1>c, <2>1, <2>3, <2>4
<1>8. CASE ApproveCandidate(c)
  <2>1. PICK p \in ParentWithPlan :
          nodes[p].plan = p /\ BeginWith(c, [Idle EXCEPT !.at = "contract", !.of = p])
    BY <1>8 DEF ApproveCandidate
  <2>2. tree.status \in {"waiting_approval", "active"} /\ UNCHANGED <<tree, nodes>>
    BY <1>8 DEF ApproveCandidate
  <2>3. r = [Idle EXCEPT !.at = "contract", !.of = p]
    BY <1>4, <2>1 DEF BeginWith
  <2>4. r.at = "contract" /\ r.of = p
    BY <2>3, BlankTyped DEF Call
  <2>5. p \in Exp /\ p \in WithPlan
    BY <2>1 DEF ParentWithPlan, WithPlan
  <2>6. tree.selected = p
    BY <1>3, <2>1, <2>5 DEF PlansQuiet, ParentWithPlan
  <2>7. Room(p)
    BY <1>3, <2>1, <2>5, <2>6, BlankTyped DEF PlansQuiet
  <2>8. Room(p)'
    BY <1>5, <2>5, <2>7, SameCounts
  <2>9. CallQuiet(r)'
    BY <2>1, <2>2, <2>4, <2>8 DEF CallQuiet, Adds, Holds
  <2>10. QED BY <1>c, <2>2, <2>4, <2>9
<1>9. CASE Advance(c)
  <2>1. PICK s \in {Exp} \cup {{e} : e \in Exp} :
          LET todo == PendingNodes(nodes) \cap s IN
            /\ todo # {}
            /\ BeginWith(c, [Idle EXCEPT !.at = "sync", !.todo = todo,
                          !.nodes = [e \in Exp |-> IF e \in todo THEN nodes[e] ELSE NoNode]])
    BY <1>9 DEF Advance
  <2>2. PICK todo : todo = PendingNodes(nodes) \cap s
    OBVIOUS
  <2>3. PICK ns : ns = [e \in Exp |-> IF e \in todo THEN nodes[e] ELSE NoNode]
    OBVIOUS
  <2>4. r = [Idle EXCEPT !.at = "sync", !.todo = todo, !.nodes = ns]
    BY <1>4, <2>1, <2>2, <2>3 DEF BeginWith
  <2>5. r.at = "sync" /\ r.todo = todo /\ r.nodes = ns /\ ~r.scored
    BY <2>4, BlankTyped DEF Call, Idle
  <2>6. UNCHANGED <<tree, nodes>>
    BY <1>9 DEF Advance
  <2>7. \A e \in todo : ns[e] = nodes[e] /\ nodes[e].status # "evaluated"
    BY <2>2, <2>3 DEF PendingNodes
  <2>8. CallQuiet(r)'
    BY <2>5, <2>6, <2>7 DEF CallQuiet, Adds, Holds
  <2>9. QED BY <1>c, <2>5, <2>6, <2>8
<1>10. QED BY <1>6, <1>7, <1>8, <1>9

LEMMA QuietNext == TreeInv /\ QuietInv /\ [Next]_vars => QuietInv'
<1> SUFFICES ASSUME TreeInv, QuietInv, [Next]_vars, ~Disturbed' PROVE QuietInv'
  BY DEF QuietInv
<1>1. ASSUME NEW c \in Caller, Continue(c) PROVE QuietInv'
  <2>1. ~Disturbed
    BY <1>1, ContinueCounts DEF Disturbed
  <2>2. QED BY <1>1, <2>1, ContinueQuiet
<1>2. CASE \E c \in Caller : Create(c) \/ PlanNext(c) \/ ApproveCandidate(c) \/ Advance(c)
  BY <1>2, BeginQuiet
<1>s. ASSUME UNCHANGED <<nodes, call>>, ~Disturbed,
             tree'.selected = tree.selected, tree'.rounds = tree.rounds, tree'.seen = tree.seen,
             tree'.status = "completed" => tree.status = "completed",
             tree'.status = tree.status \/ Active = {}
      PROVE  QuietInv'
  <2>1. Active' = Active /\ Current' = Current
    BY <1>s DEF Active, Current, Doing
  <2>2. SUFFICES ASSUME NEW q \in Current PROVE Calm(q)'
    BY <1>s, <2>1 DEF QuietInv
  <2>3. Calm(q)
    BY <1>s DEF QuietInv
  <2>4. /\ Evaluated' = Evaluated /\ WithPlan' = WithPlan /\ Compared' = Compared
        /\ Present(nodes)' = Present(nodes)
        /\ \A e \in Exp : Children(nodes, e)' = Children(nodes, e) /\ (Room(e)' <=> Room(e))
    BY <1>s DEF Evaluated, WithPlan, Compared, Present, Children, Room
  <2>5. PlansQuiet(q)'
    BY <1>s, <2>3, <2>4 DEF Calm, PlansQuiet
  <2>6. ResultsQuiet'
    BY <1>s, <2>3, <2>4 DEF Calm, ResultsQuiet
  <2>7. CASE Active = {}
    <3>1. q.at = "idle"
      BY <2>7, BlankTyped DEF Current
    <3>2. CallQuiet(q)'
      BY <3>1 DEF CallQuiet, Adds, Holds
    <3>3. QED BY <2>5, <2>6, <3>2 DEF Calm
  <2>8. CASE tree'.status = tree.status
    <3>1. CallQuiet(q)
      BY <2>3 DEF Calm
    <3>2. Room(q.of)' <=> Room(q.of)
      BY <1>s DEF Room, Children, Present
    <3>3. CallQuiet(q)'
      BY <1>s, <2>4, <2>8, <3>1, <3>2 DEF CallQuiet, IsTreeTerminal
    <3>4. QED BY <2>5, <2>6, <3>3 DEF Calm
  <2>9. QED BY <1>s, <2>7, <2>8
<1>3. CASE StopTree
  <2>1. ~Disturbed /\ Active = {}
    BY <1>3, CountOf DEF StopTree, Disturbed, Busy, Active
  <2>2. /\ tree'.selected = tree.selected /\ tree'.rounds = tree.rounds /\ tree'.seen = tree.seen
        /\ tree'.status = "completed" => tree.status = "completed"
    BY <1>3, RowsHave DEF StopTree, Stopped, Tree
  <2>3. QED BY <1>s, <1>3, <2>1, <2>2 DEF StopTree
<1>4. CASE Crash
  BY <1>4, CountOf DEF Crash, Disturbed
<1>5. CASE \E e \in Exp \ {Root} : IterStep(e)
  BY <1>5, <1>s DEF IterStep, Disturbed
<1>6. CASE UNCHANGED vars
  BY <1>6, <1>s DEF vars, Disturbed
<1>7. QED BY <1>1, <1>2, <1>3, <1>4, <1>5, <1>6 DEF Next

LEMMA QuietInit == Init => QuietInv
<1> SUFFICES ASSUME Init PROVE QuietInv
  OBVIOUS
<1>1. /\ \A e \in Exp : nodes[e] = NoNode
      /\ \A c \in Caller : call[c] = Idle
  BY BlankTyped DEF Init
<1>2. Active = {} /\ Current = {Idle}
  BY <1>1, BlankTyped DEF Active, Doing, Current
<1>3. Present(nodes) = {} /\ WithPlan = {} /\ \A e \in Exp : Children(nodes, e) = {}
  BY <1>1 DEF Present, WithPlan, Children, NoNode
<1>4. Cardinality({}) = 0 /\ MaxChildren \in Nat /\ tree = NoTree
  BY FS_EmptySet, TreeLimits DEF Init
<1>5. PlansQuiet(Idle)
  <2>1. \A e \in Exp : nodes[e].plan # e
    BY <1>1, BlankTyped DEF NoNode
  <2>2. QED BY <1>3, <1>4, <2>1 DEF PlansQuiet
<1>6. ResultsQuiet
  <2>1. Cardinality(Evaluated) \in Nat
    BY MoreNodes DEF Evaluated
  <2>2. QED BY <1>4, <2>1 DEF ResultsQuiet, Compared, NoTree
<1>7. CallQuiet(Idle)
  BY BlankTyped, IdleQuiet
<1>8. QED BY <1>2, <1>5, <1>6, <1>7 DEF QuietInv, Calm

LEMMA TreeAndQuiet == Spec => [](TreeInv /\ QuietInv)
<1>1. Init => TreeInv /\ QuietInv
  BY TreeInvInit, QuietInit
<1>2. TreeInv /\ QuietInv /\ [Next]_vars => (TreeInv /\ QuietInv)'
  BY TreeInvNext, QuietNext
<1>3. QED BY <1>1, <1>2, PTL DEF Spec

(* What is calm keeps the limit on children and the count of results. *)
LEMMA QuietGives ==
  ASSUME TreeInv, QuietInv
  PROVE  ChildrenBounded /\ CompletedOnRounds
<1> SUFFICES ASSUME ~Disturbed PROVE ChildrenBounded /\ CompletedOnRounds
  BY DEF ChildrenBounded, CompletedOnRounds
<1>1. \E q \in Current : Calm(q)
  <2>1. \E q : q \in Current
    BY DEF Current
  <2>2. QED BY <2>1 DEF QuietInv
<1>2. PICK q : PlansQuiet(q) /\ ResultsQuiet
  BY <1>1 DEF Calm
<1>3. QED BY <1>2
             DEF PlansQuiet, ResultsQuiet, Evaluated, ChildrenBounded,
                 CompletedOnRounds

(* However requests overlap, the nodes pass their limit by no more than one   *)
(* for each that began in the middle of another; while none does and none     *)
(* breaks off, no node has more children than the policy allows, although     *)
(* tree_approve never looks.                                                  *)
THEOREM LimitsAreKept == Spec => []LimitsKept
<1>1. TreeInv /\ QuietInv => LimitsKept
  <2>1. TreeInv => NodesBounded
    <3>1. SUFFICES ASSUME TreeInv PROVE NodesBounded
      OBVIOUS
    <3>2. QED BY <3>1, CountOf DEF NodesBounded
  <2>2. TreeInv => TypeOK
    BY DEF TreeInv
  <2>3. QED BY <2>1, <2>2, QuietGives DEF LimitsKept
<1>2. QED BY <1>1, TreeAndQuiet, PTL

(* A node counts as evaluated only when its own iteration has completed, and  *)
(* a search as completed only when it has compared as many results as asked.  *)
THEOREM ResultsAreEarned == Spec => []ResultsEarned
<1>1. TreeInv /\ QuietInv => ResultsEarned
  <2>1. TreeInv => EvaluatedOnOutcome
    BY DEF TreeInv, RowFits, EvaluatedOnOutcome
  <2>2. QED BY <2>1, QuietGives DEF ResultsEarned
<1>2. QED BY <1>1, TreeAndQuiet, PTL

(* A search that is over stays as it ended while calls come one by one: what  *)
(* writes the status without another look is under way only when it is not.   *)
THEOREM OverIsOver == Spec => OverStaysOver
<1>1. TreeInv /\ QuietInv /\ [Next]_vars =>
        [IsTreeTerminal(tree) => Disturbed' \/ tree'.status = tree.status]_vars
  <2>1. SUFFICES ASSUME TreeInv, QuietInv, Next, IsTreeTerminal(tree), ~Disturbed'
                 PROVE  tree'.status = tree.status
    BY DEF vars
  <2>2. tree.status \in Over /\ tree \in Tree
    BY <2>1, RowsHave DEF IsTreeTerminal
  <2>3. ASSUME NEW c \in Caller, Continue(c) PROVE tree'.status = tree.status
    <3>1. ~Disturbed
      BY <2>1, <2>3, ContinueCounts DEF Disturbed
    <3>2. CallQuiet(call[c])
      BY <2>1, <2>3, <3>1, ContinueCounts, QuietHas DEF Calm
    <3>3. CASE Choose(c)
      BY <2>1, <3>2, <3>3 DEF Choose, Doing, CallQuiet
    <3>4. CASE Settle(c)
      BY <2>2, <3>4 DEF Settle, Over
    <3>5. CASE ApplyStop(c)
      BY <2>1, <3>5 DEF ApplyStop, Stopped
    <3>6. CASE Await(c)
      BY <2>2, <3>2, <3>6 DEF Await, Doing, CallQuiet, Adds, Holds, Over
    <3>7. CASE SumUp(c)
      BY <2>2, <3>7 DEF SumUp, SumStatus, Over, Tree
    <3>8. CASE CountScores(c)
      BY <2>2, <3>8 DEF CountScores, Tree
    <3>9. QED
      BY <2>3, <3>3, <3>4, <3>5, <3>6, <3>7, <3>8
         DEF Continue, CreateRoot, Score, Rank, Plan, Judge, Contract, Register,
             Insert, Link, Sync
  <2>4. ASSUME NEW c \in Caller,
               Create(c) \/ PlanNext(c) \/ ApproveCandidate(c) \/ Advance(c)
        PROVE  tree'.status = tree.status
    <3>1. ~Create(c)
      BY <2>2 DEF Create, NoTree, Over
    <3>2. UNCHANGED tree
      BY <2>4, <3>1 DEF PlanNext, ApproveCandidate, Advance
    <3>3. QED BY <3>2
  <2>5. StopTree => tree'.status = tree.status
    BY <2>1 DEF StopTree, Stopped
  <2>6. Crash \/ (\E e \in Exp \ {Root} : IterStep(e)) => tree'.status = tree.status
    BY DEF Crash, IterStep
  <2>7. QED BY <2>1, <2>3, <2>4, <2>5, <2>6 DEF Next
<1>2. QED BY <1>1, TreeAndQuiet, PTL DEF Spec, OverStaysOver
=============================================================================
