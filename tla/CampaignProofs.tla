--------------------------- MODULE CampaignProofs ---------------------------
(* Proofs about autonomous campaigns (Campaign), for every number of       *)
(* campaigns, API handlers, calls, steps and restarts; and, at the end,    *)
(* about the lease they take (LiveGpuLease).                               *)
EXTENDS Campaign, LiveGpuLease, TLAPS

WorkersOK ==
    /\ worker \in [Launch -> Worker]
    /\ \A i \in Launch : Working(i) => worker[i].camp \in Campaign

CallsOK ==
    /\ call \in [Caller -> Call]
    /\ \A k \in Caller : call[k].at # "idle" => call[k].camp \in Campaign
    /\ \A k \in Caller : call[k].at \in {"read", "protocol", "extended"} =>
          call[k].spec.extra < HardCap

DocsOK == doc \in [Campaign -> Doc]

RestOK ==
    /\ protocol \in [Campaign -> Nat]
    /\ thread \in [Campaign -> Launch \cup {NoLaunch}]
    /\ leased \subseteq Campaign
    /\ lease \in [owner: Campaign \cup {NoCampaign}, pid: Nat]
    /\ boot \in Nat \ {0}
    /\ launches \in 0..MaxCalls /\ calls \in 0..MaxCalls
    /\ asked \in [Campaign -> {"no", "between", "inside"}]
    /\ granted \in [Campaign -> Nat]
    /\ calm \in BOOLEAN

TypeInv == WorkersOK /\ CallsOK /\ DocsOK /\ RestOK

LEMMA TypeInvIs == TypeInv <=> TypeOK /\ Known
BY DEF TypeInv, TypeOK, Known, WorkersOK, CallsOK, DocsOK, RestOK

(* The documents that the handlers make of a document. *)
LEMMA DocFields ==
    ASSUME NEW d \in Doc
    PROVE /\ d.status \in Status /\ d.action \in LastAction /\ d.extra \in 0..HardCap
          /\ d.harvest \in BOOLEAN /\ d.stop \in BOOLEAN
BY DEF Doc

LEMMA DocTypes ==
    ASSUME NEW d \in Doc, NEW s \in Status
    PROVE /\ \A p \in Nat : [d EXCEPT !.status = s, !.pid = p] \in Doc
          /\ \A p \in Nat, a \in LastAction :
                /\ [d EXCEPT !.status = s, !.pid = p, !.action = a] \in Doc
                /\ [d EXCEPT !.status = s, !.action = a, !.pid = p] \in Doc
          /\ \A p \in Nat, a \in LastAction, h \in BOOLEAN :
                [d EXCEPT !.status = s, !.action = a, !.pid = p, !.harvest = h] \in Doc
          /\ \A b \in BOOLEAN : [d EXCEPT !.stop = b, !.status = s] \in Doc
          /\ \A b, h \in BOOLEAN :
                [d EXCEPT !.stop = b, !.status = s, !.harvest = h] \in Doc
          /\ \A p \in Nat, b \in BOOLEAN :
                [d EXCEPT !.status = s, !.stop = b, !.pid = p] \in Doc
          /\ \A p \in Nat, b, h \in BOOLEAN :
                [d EXCEPT !.status = s, !.stop = b, !.pid = p, !.harvest = h] \in Doc
          /\ \A b \in BOOLEAN : d.extra < HardCap =>
                [d EXCEPT !.extra = @ + 1, !.status = s, !.stop = b] \in Doc
<1>1. ASSUME NEW p \in Nat PROVE [d EXCEPT !.status = s, !.pid = p] \in Doc
  BY DEF Doc
<1>2. ASSUME NEW p \in Nat, NEW a \in LastAction
      PROVE /\ [d EXCEPT !.status = s, !.pid = p, !.action = a] \in Doc
            /\ [d EXCEPT !.status = s, !.action = a, !.pid = p] \in Doc
  BY DEF Doc
<1>3. ASSUME NEW p \in Nat, NEW a \in LastAction, NEW h \in BOOLEAN
      PROVE [d EXCEPT !.status = s, !.action = a, !.pid = p, !.harvest = h] \in Doc
  BY DEF Doc
<1>4. ASSUME NEW b \in BOOLEAN
      PROVE [d EXCEPT !.stop = b, !.status = s] \in Doc
  BY DEF Doc
<1>5. ASSUME NEW b \in BOOLEAN, NEW h \in BOOLEAN
      PROVE [d EXCEPT !.stop = b, !.status = s, !.harvest = h] \in Doc
  BY DEF Doc
<1>6. ASSUME NEW p \in Nat, NEW b \in BOOLEAN
      PROVE [d EXCEPT !.status = s, !.stop = b, !.pid = p] \in Doc
  BY DEF Doc
<1>7. ASSUME NEW p \in Nat, NEW b \in BOOLEAN, NEW h \in BOOLEAN
      PROVE [d EXCEPT !.status = s, !.stop = b, !.pid = p, !.harvest = h] \in Doc
  BY DEF Doc
<1>8. ASSUME NEW b \in BOOLEAN, d.extra < HardCap
      PROVE [d EXCEPT !.extra = @ + 1, !.status = s, !.stop = b] \in Doc
  <2>1. d.extra + 1 \in 0..HardCap
    BY <1>8, BoundAssumption, DocFields
  <2>2. QED BY <2>1 DEF Doc
<1>9. QED BY <1>1, <1>2, <1>3, <1>4, <1>5, <1>6, <1>7, <1>8

LEMMA FixedDocs ==
    /\ Absent \in Doc
    /\ \A p \in Nat : Fresh(p) \in Doc
<1>1. Absent \in Doc
  BY BoundAssumption DEF Doc, Absent, Status, LastAction, NoPid
<1>2. ASSUME NEW p \in Nat PROVE Fresh(p) \in Doc
  <2>1. 1 \in 0..HardCap /\ "queued" \in Status
    BY BoundAssumption DEF Status, Live
  <2>2. ASSUME NEW d \in Doc, NEW s \in Status, NEW e \in 0..HardCap
        PROVE [d EXCEPT !.status = s, !.pid = p, !.extra = e] \in Doc
    BY DEF Doc
  <2>3. QED BY <1>1, <2>1, <2>2 DEF Fresh
<1>3. QED BY <1>1, <1>2

LEMMA FixedRecords == NoWorker \in Worker /\ DeadWorker \in Worker /\ NoCall \in Call
<1>1. NoWorker \in Worker
  BY FixedDocs DEF NoWorker, Worker, WorkerLabel
<1>2. NoCall \in Call
  BY FixedDocs DEF NoCall, Call, CallLabel
<1>3. DeadWorker \in Worker
  <2>1. "dead" \in WorkerLabel
    BY DEF WorkerLabel
  <2>2. QED BY <1>1, <2>1 DEF DeadWorker, Worker
<1>4. QED BY <1>1, <1>2, <1>3

(* What the moves of a worker do to the table of workers. *)
LEMMA WorkerMoves ==
    ASSUME WorkersOK, NEW i \in Launch, Working(i), NEW to \in WorkerLabel,
           NEW s \in Doc
    PROVE /\ worker' = [worker EXCEPT ![i].at = to] => WorkersOK'
          /\ worker' = [worker EXCEPT ![i].at = to, ![i].spec = s] => WorkersOK'
          /\ worker' = [worker EXCEPT ![i].at = to, ![i].steps = @ + 1] => WorkersOK'
          /\ worker' = [worker EXCEPT ![i] = DeadWorker] => WorkersOK'
          /\ worker[i].camp \in Campaign /\ worker[i].spec \in Doc
<1> USE DEF WorkersOK, Working
<1>1. worker[i].camp \in Campaign /\ worker[i].spec \in Doc /\ worker[i].steps \in Nat
  BY DEF Worker
<1>2. ASSUME worker' = [worker EXCEPT ![i].at = to] PROVE WorkersOK'
  BY <1>1, <1>2 DEF Worker
<1>3. ASSUME worker' = [worker EXCEPT ![i].at = to, ![i].spec = s]
      PROVE WorkersOK'
  BY <1>1, <1>3 DEF Worker
<1>4. ASSUME worker' = [worker EXCEPT ![i].at = to, ![i].steps = @ + 1]
      PROVE WorkersOK'
  BY <1>1, <1>4 DEF Worker
<1>5. ASSUME worker' = [worker EXCEPT ![i] = DeadWorker] PROVE WorkersOK'
  <2>1. DeadWorker \in Worker /\ DeadWorker.at = "dead"
    BY FixedRecords DEF DeadWorker, NoWorker
  <2>2. QED BY <1>1, <1>5, <2>1
<1>6. QED BY <1>1, <1>2, <1>3, <1>4, <1>5

(* What the moves of a call do to the table of calls. *)
LEMMA CallMoves ==
    ASSUME CallsOK, NEW k \in Caller, call[k].at # "idle",
           NEW to \in CallLabel,
           NEW s \in Doc, NEW m \in Nat, NEW t \in Launch \cup {NoLaunch},
           to \in {"read", "protocol", "extended"} =>
              call[k].spec.extra < HardCap /\ s.extra < HardCap
    PROVE /\ call' = [call EXCEPT ![k] = NoCall] => CallsOK'
          /\ call' = [call EXCEPT ![k].at = to] => CallsOK'
          /\ call' = [call EXCEPT ![k].at = to, ![k].spec = s] => CallsOK'
          /\ call' = [call EXCEPT ![k].at = to, ![k].thread = t] => CallsOK'
          /\ call' = [call EXCEPT ![k].at = to, ![k].max = m] => CallsOK'
          /\ call[k].camp \in Campaign /\ call[k].spec \in Doc
          /\ call[k].thread \in Launch \cup {NoLaunch} /\ call[k].max \in Nat
<1> USE DEF CallsOK
<1>1. /\ call[k].camp \in Campaign /\ call[k].spec \in Doc
      /\ call[k].thread \in Launch \cup {NoLaunch} /\ call[k].max \in Nat
  BY DEF Call
<1>2. ASSUME call' = [call EXCEPT ![k] = NoCall] PROVE CallsOK'
  <2>1. NoCall \in Call /\ NoCall.at = "idle"
    BY FixedRecords DEF NoCall
  <2>2. QED BY <1>2, <2>1
<1>3. ASSUME call' = [call EXCEPT ![k].at = to] PROVE CallsOK'
  BY <1>1, <1>3 DEF Call
<1>4. ASSUME call' = [call EXCEPT ![k].at = to, ![k].spec = s] PROVE CallsOK'
  BY ZenonT(30), <1>1, <1>4 DEF Call
<1>5. ASSUME call' = [call EXCEPT ![k].at = to, ![k].thread = t] PROVE CallsOK'
  BY ZenonT(30), <1>1, <1>5 DEF Call
<1>6. ASSUME call' = [call EXCEPT ![k].at = to, ![k].max = m] PROVE CallsOK'
  BY <1>1, <1>6 DEF Call
<1>7. QED BY <1>1, <1>2, <1>3, <1>4, <1>5, <1>6

LEMMA DumpOK ==
    ASSUME DocsOK, NEW c, NEW d \in Doc, Dump(c, d)
    PROVE DocsOK'
BY DEF DocsOK, Dump

LEMMA WorkerGoesOK ==
    ASSUME TypeInv, NEW i \in Launch,
           NEW from \in WorkerLabel \ {"none", "dead"},
           NEW to \in WorkerLabel, WorkerGoes(i, from, to)
    PROVE WorkersOK' /\ CallsOK' /\ worker[i].camp \in Campaign
          /\ worker[i].spec \in Doc
<1>1. Working(i)
  BY DEF WorkerGoes, Working
<1>2. CallsOK'
  BY DEF WorkerGoes, TypeInv, CallsOK
<1>3. QED
  BY <1>1, <1>2, WorkerMoves, FixedDocs DEF TypeInv, WorkerGoes

LEMMA WorkerTakesOK ==
    ASSUME TypeInv, NEW i \in Launch,
           NEW from \in WorkerLabel \ {"none", "dead"},
           NEW to \in WorkerLabel, NEW spec \in Doc,
              WorkerTakes(i, from, to, spec)
    PROVE WorkersOK' /\ CallsOK' /\ RestOK'
<1>1. Working(i)
  BY DEF WorkerTakes, Working
<1>2. CallsOK' /\ RestOK'
  BY DEF WorkerTakes, TypeInv, CallsOK, RestOK, history
<1>3. QED BY <1>1, <1>2, WorkerMoves DEF TypeInv, WorkerTakes

LEMMA WorkerDumpsOK ==
    ASSUME TypeInv, NEW i \in Launch,
           NEW from \in WorkerLabel \ {"none", "dead"},
           NEW to \in WorkerLabel, WorkerDumps(i, from, to)
    PROVE TypeInv'
<1>1. WorkersOK' /\ CallsOK' /\ worker[i].spec \in Doc
  BY WorkerGoesOK DEF WorkerDumps
<1>2. DocsOK'
  BY <1>1, DumpOK DEF WorkerDumps, TypeInv
<1>3. RestOK'
  BY DEF WorkerDumps, WorkerGoes, TypeInv, RestOK, history
<1>4. QED BY <1>1, <1>2, <1>3 DEF TypeInv

LEMMA CallGoesOK ==
    ASSUME TypeInv, NEW k \in Caller, NEW from \in CallLabel \ {"idle"},
           NEW to \in CallLabel, CallGoes(k, from, to),
           to \in {"read", "protocol", "extended"} =>
              from \in {"read", "protocol", "extended"}
    PROVE CallsOK' /\ call[k].camp \in Campaign /\ call[k].spec \in Doc
<1>1. call[k].at = from /\ from # "idle"
  BY DEF CallGoes
<1>2. to \in {"read", "protocol", "extended"} => call[k].spec.extra < HardCap
  BY <1>1 DEF TypeInv, CallsOK
<1>3. call[k].camp \in Campaign /\ call[k].spec \in Doc
  BY <1>1 DEF TypeInv, CallsOK, Call
<1>4. QED
  BY <1>1, <1>2, <1>3, CallMoves DEF TypeInv, CallGoes

LEMMA CallTakesOK ==
    ASSUME TypeInv, NEW k \in Caller, NEW from \in CallLabel \ {"idle"},
           NEW to \in CallLabel \ {"protocol", "extended"}, NEW spec \in Doc,
           CallTakes(k, from, to, spec),
           to = "read" => spec.extra < HardCap
    PROVE CallsOK' /\ WorkersOK' /\ call[k].camp \in Campaign
          /\ call[k].spec \in Doc
<1>1. call[k].at = from /\ from # "idle"
  BY DEF CallTakes
<1>2. WorkersOK'
  BY DEF CallTakes, TypeInv, WorkersOK, Working
<1>3. call[k].camp \in Campaign /\ call[k].spec \in Doc
  BY <1>1 DEF TypeInv, CallsOK, Call
<1>4. call' = [call EXCEPT ![k].at = to, ![k].spec = spec]
  BY DEF CallTakes
<1>5. CallsOK'
  <2>1. CASE to # "read"
    BY <1>1, <1>4, <2>1, CallMoves DEF TypeInv
  <2>2. CASE to = "read"
    BY ZenonT(30), <1>1, <1>3, <1>4, <2>2 DEF TypeInv, CallsOK, Call
  <2>3. QED BY <2>1, <2>2
<1>6. QED BY <1>2, <1>3, <1>5

LEMMA WorkerStepTyped ==
    ASSUME TypeInv, NEW i \in Launch, WorkerStep(i)
    PROVE TypeInv'
<1> DEFINE w == worker[i]
           d == doc[w.camp]
<1>1. ASSUME Working(i)
      PROVE w.camp \in Campaign /\ w.spec \in Doc /\ d \in Doc /\ boot \in Nat
  BY <1>1 DEF TypeInv, WorkersOK, DocsOK, RestOK, Worker
<1>2. CASE Load(i)
  <2>1. Working(i)
    BY <1>2 DEF Load, WorkerTakes, Working
  <2>2. [d EXCEPT !.status = "running", !.pid = boot] \in Doc
    BY <1>1, <2>1, DocTypes DEF Status, Live
  <2>3. WorkersOK' /\ CallsOK' /\ RestOK'
    BY <1>2, <2>2, WorkerTakesOK DEF Load, WorkerLabel
  <2>4. QED BY <1>2, <2>3 DEF Load, TypeInv, DocsOK
<1>3. CASE Mark(i) \/ Pause(i) \/ Last(i) \/ Gc(i)
  BY <1>3, WorkerDumpsOK DEF Mark, Pause, Last, Gc, WorkerLabel
<1>4. CASE Top(i)
  <2>1. Working(i)
    BY <1>4 DEF Top, Working
  <2>2. [w.spec EXCEPT !.status = "blocked", !.pid = NoPid] \in Doc
    BY <1>1, <2>1, DocTypes DEF Status, Final, NoPid
  <2>3. Paused(w, d) \in Doc
    <3>1. w.spec.action \in LastAction /\ d.action \in LastAction
      BY <1>1, <2>1, DocFields
    <3>2. \A a \in LastAction :
             [d EXCEPT !.status = "paused", !.pid = NoPid, !.action = a] \in Doc
      BY <1>1, <2>1, DocTypes DEF Status, NoPid
    <3>3. Paused(w, d) = [d EXCEPT !.status = "paused", !.pid = NoPid,
             !.action = IF w.steps = 0 THEN d.action ELSE w.spec.action]
      BY <1>1, <2>1 DEF Paused, Doc
    <3>4. QED BY <3>1, <3>2, <3>3
  <2>4. \E to \in WorkerLabel, x \in Doc : WorkerTakes(i, "top", to, x)
    BY <1>1, <1>4, <2>1, <2>2, <2>3 DEF Top, WorkerLabel
  <2>5. WorkersOK' /\ CallsOK' /\ RestOK'
    BY <2>4, WorkerTakesOK DEF WorkerLabel
  <2>6. QED BY <1>4, <2>5 DEF Top, TypeInv, DocsOK
<1>5. CASE Stamp(i)
  <2> DEFINE x == [w.spec EXCEPT !.status = "waiting_gpu", !.pid = boot,
                                 !.action = "NEED_EXECUTION"]
  <2>1. Working(i)
    BY <1>5 DEF Stamp, WorkerTakes, WorkerGoes, Working
  <2>2. x \in Doc
    BY <1>1, <2>1, DocTypes DEF Status, Live, LastAction
  <2>3. CASE WorkerTakes(i, "stamp", "step", x) /\ Dump(w.camp, x)
    BY <2>2, <2>3, WorkerTakesOK, DumpOK DEF WorkerLabel, TypeInv
  <2>4. CASE WorkerGoes(i, "stamp", "step") /\ UNCHANGED <<doc, thread, leased, lease>>
    <3>1. WorkersOK' /\ CallsOK'
      BY <2>4, WorkerGoesOK DEF WorkerLabel
    <3>2. DocsOK' /\ RestOK'
      BY <2>4 DEF WorkerGoes, TypeInv, DocsOK, RestOK, history
    <3>3. QED BY <3>1, <3>2 DEF TypeInv
  <2>5. QED BY <1>5, <2>3, <2>4 DEF Stamp
<1>6. CASE Step(i)
  <2>1. Working(i)
    BY <1>6 DEF Step, WorkerTakes, Working
  <2>2. ASSUME NEW a \in LastAction, NEW s \in {"running", "waiting_gpu"}
        PROVE [w.spec EXCEPT !.status = s, !.action = a, !.pid = boot,
                 !.harvest = IF a = "NEED_EXECUTION" THEN FALSE ELSE @] \in Doc
    <3> DEFINE h == IF a = "NEED_EXECUTION" THEN FALSE ELSE w.spec.harvest
    <3>1. h \in BOOLEAN /\ s \in Status
      BY <1>1, <2>1, DocFields DEF Status, Live
    <3>2. [w.spec EXCEPT !.status = s, !.action = a, !.pid = boot, !.harvest = h] \in Doc
      <4> HIDE DEF h
      <4>1. QED BY <1>1, <2>1, <3>1, DocTypes
    <3>3. QED BY <1>1, <2>1, <3>2 DEF Doc
  <2>3. ASSUME NEW a \in LastAction,
               NEW s \in {"completed", "blocked", "waiting_human"}
        PROVE [w.spec EXCEPT !.status = s, !.action = a, !.pid = NoPid] \in Doc
    BY <1>1, <2>1, DocTypes DEF Status, Final, NoPid
  <2>4. \E to \in WorkerLabel, x \in Doc : WorkerTakes(i, "step", to, x)
    <3>1. {"crashed", "save", "last"} \subseteq WorkerLabel
      BY DEF WorkerLabel
    <3>2. QED BY <1>1, <1>6, <2>1, <2>2, <2>3, <3>1 DEF Step
  <2>5. WorkersOK' /\ CallsOK' /\ RestOK'
    BY <2>4, WorkerTakesOK DEF WorkerLabel
  <2>6. QED BY <1>6, <2>5 DEF Step, TypeInv, DocsOK
<1>7. CASE Save(i)
  <2>1. Working(i)
    BY <1>7 DEF Save, Working
  <2>2. WorkersOK'
    BY <1>7, <2>1, WorkerMoves, FixedDocs DEF Save, TypeInv, WorkerLabel
  <2>3. DocsOK'
    BY <1>1, <1>7, <2>1, DumpOK DEF Save, TypeInv
  <2>4. CallsOK' /\ RestOK'
    BY <1>7 DEF Save, TypeInv, CallsOK, RestOK, history
  <2>5. QED BY <2>2, <2>3, <2>4 DEF TypeInv
<1>8. CASE Crashed(i)
  <2>1. Working(i)
    BY <1>8 DEF Crashed, WorkerTakes, Working
  <2>2. [d EXCEPT !.status = "failed", !.pid = NoPid] \in Doc
    BY <1>1, <2>1, DocTypes DEF Status, Final, NoPid
  <2>3. WorkersOK' /\ CallsOK' /\ RestOK'
    BY <1>8, <2>2, WorkerTakesOK DEF Crashed, WorkerLabel
  <2>4. QED BY <1>8, <2>3 DEF Crashed, TypeInv, DocsOK
<1>9. CASE Finally(i)
  <2>1. WorkersOK' /\ CallsOK'
    BY <1>9, WorkerGoesOK DEF Finally, WorkerLabel
  <2>2. DocsOK' /\ RestOK'
    BY <1>9 DEF Finally, WorkerGoes, TypeInv, DocsOK, RestOK, history
  <2>3. QED BY <2>1, <2>2 DEF TypeInv
<1>10. CASE Release(i)
  <2>1. WorkersOK' /\ CallsOK'
    BY <1>10, WorkerGoesOK DEF Release, WorkerLabel
  <2>2. DocsOK' /\ RestOK'
    BY <1>10 DEF Release, WorkerGoes, TypeInv, DocsOK, RestOK, history, Free,
       NoPid
  <2>3. QED BY <2>1, <2>2 DEF TypeInv
<1>11. QED
  BY <1>2, <1>3, <1>4, <1>5, <1>6, <1>7, <1>8, <1>9, <1>10 DEF WorkerStep

LEMMA BeginTyped ==
    ASSUME TypeInv, NEW k \in Caller, NEW c \in Campaign, NEW spec \in Doc,
           NEW to \in {"reclaim", "stop", "resume", "extend"},
              Begin(k, c, to, spec)
    PROVE TypeInv'
<1>1. CallsOK'
  <2> DEFINE new == [NoCall EXCEPT !.at = to, !.camp = c, !.spec = spec]
  <2>1. new \in Call /\ new.at = to /\ new.camp = c
    BY FixedRecords DEF Call, CallLabel
  <2>2. call' = [call EXCEPT ![k] = new]
    BY DEF Begin
  <2> HIDE DEF new
  <2>3. QED BY <2>1, <2>2 DEF TypeInv, CallsOK
<1>2. WorkersOK' /\ DocsOK'
  BY DEF Begin, TypeInv, WorkersOK, Working, DocsOK
<1>3. RestOK'
  BY BoundAssumption DEF Begin, TypeInv, RestOK
<1>4. QED BY <1>1, <1>2, <1>3 DEF TypeInv

LEMMA ReclaimedTyped ==
    ASSUME DocsOK, NEW c \in Campaign, NEW busy \in BOOLEAN
    PROVE Reclaimed(c, busy) \in Doc
<1>1. doc[c] \in Doc
  BY DEF DocsOK
<1>2. [doc[c] EXCEPT !.status = "paused", !.stop = TRUE, !.pid = NoPid] \in Doc
  BY <1>1, DocTypes DEF Status, NoPid
<1>3. QED BY <1>1, <1>2 DEF Reclaimed

LEMMA CallStepTyped ==
    ASSUME TypeInv, OneHolder, NEW k \in Caller, CallStep(k)
    PROVE TypeInv'
<1> DEFINE c == call[k].camp
           spec == call[k].spec
           d == doc[c]
<1>1. ASSUME call[k].at # "idle"
      PROVE /\ c \in Campaign /\ spec \in Doc /\ d \in Doc
            /\ call[k].thread \in Launch \cup {NoLaunch} /\ call[k].max \in Nat
  BY <1>1 DEF TypeInv, CallsOK, DocsOK, Call
<1>2. ASSUME UNCHANGED worker PROVE WorkersOK'
  BY <1>2 DEF TypeInv, WorkersOK, Working
<1>3. ASSUME UNCHANGED doc PROVE DocsOK'
  BY <1>3 DEF TypeInv, DocsOK
<1>4. CASE StopDump(k)
  <2>1. call[k].at = "stop"
    BY <1>4 DEF StopDump, CallGoes
  <2>2. CallsOK' /\ WorkersOK'
    BY <1>2, <1>4, CallGoesOK DEF StopDump, CallLabel
  <2>3. [spec EXCEPT !.stop = TRUE,
           !.status = IF @ \notin Live THEN @
                      ELSE IF Alive(c) THEN "pause_requested" ELSE "paused"] \in Doc
    <3> DEFINE s == IF spec.status \notin Live THEN spec.status
                    ELSE IF Alive(c) THEN "pause_requested" ELSE "paused"
    <3>1. s \in Status
      BY <1>1, <2>1, DocFields DEF Status, Live
    <3>2. [spec EXCEPT !.stop = TRUE, !.status = s] \in Doc
      <4> HIDE DEF s
      <4>1. QED BY <1>1, <2>1, <3>1, DocTypes
    <3>3. QED BY <1>1, <2>1, <3>2 DEF Doc
  <2>4. DocsOK'
    BY <1>4, <2>3, DumpOK DEF StopDump, TypeInv
  <2>5. Asked(c) \in {"no", "between", "inside"}
    BY <1>1, <2>1 DEF Asked, TypeInv, RestOK
  <2>6. RestOK'
    BY <1>4, <2>5 DEF StopDump, CallGoes, TypeInv, RestOK
  <2>7. QED BY <2>2, <2>4, <2>6 DEF TypeInv
<1>5. CASE ResumeLoad(k)
  <2>1. call[k].at = "resume"
    BY <1>5 DEF ResumeLoad
  <2>2. [d EXCEPT !.status = "paused", !.stop = TRUE, !.pid = NoPid,
                  !.harvest = @ \/ MidGpuOrphan(d)] \in Doc
    <3> DEFINE h == d.harvest \/ MidGpuOrphan(d)
    <3>1. h \in BOOLEAN
      BY <1>1, <2>1, DocFields
    <3>2. [d EXCEPT !.status = "paused", !.stop = TRUE, !.pid = NoPid,
                    !.harvest = h] \in Doc
      <4> HIDE DEF h
      <4>1. QED BY <1>1, <2>1, <3>1, DocTypes DEF Status, NoPid
    <3>3. QED BY <1>1, <2>1, <3>2 DEF Doc
  <2>3. \E to \in {"ghost", "alive"}, x \in Doc : CallTakes(k, "resume", to, x)
    BY <1>1, <1>5, <2>1, <2>2 DEF ResumeLoad
  <2>4. CallsOK' /\ WorkersOK'
    BY <2>3, CallTakesOK DEF CallLabel
  <2>5. RestOK'
    BY <1>5, <2>3 DEF ResumeLoad, CallTakes, TypeInv, RestOK, history
  <2>6. QED BY <1>3, <1>5, <2>4, <2>5 DEF ResumeLoad, TypeInv
<1>6. ASSUME NEW from \in CallLabel \ {"idle"},
             NEW to \in CallLabel \ {"read", "protocol", "extended"},
             CallGoes(k, from, to), UNCHANGED Rest
      PROVE CallsOK' /\ WorkersOK' /\ RestOK'
  <2>1. CallsOK' /\ WorkersOK'
    BY <1>2, <1>6, CallGoesOK DEF Rest
  <2>2. RestOK'
    BY <1>6 DEF CallGoes, Rest, TypeInv, RestOK, history
  <2>3. QED BY <2>1, <2>2
<1>7. CASE ResumeRefused(k) \/ NotReady(k) \/ Busy(k) \/ ExtendRefused(k)
  <2>1. \E from \in CallLabel \ {"idle"} : CallGoes(k, from, "idle")
    BY <1>7 DEF ResumeRefused, NotReady, Busy, ExtendRefused, CallLabel
  <2>2. UNCHANGED Rest /\ UNCHANGED doc
    BY <1>7 DEF ResumeRefused, NotReady, Busy, ExtendRefused
  <2>3. QED BY <1>3, <1>6, <2>1, <2>2 DEF TypeInv, CallLabel
<1>8. CASE AliveCheck(k) \/ Recheck(k)
  <2>1. \E from \in CallLabel \ {"idle"},
           to \in CallLabel \ {"read", "protocol", "extended"} : CallGoes(k, from, to)
    BY <1>8 DEF AliveCheck, Recheck, CallLabel
  <2>2. UNCHANGED Rest /\ UNCHANGED doc
    BY <1>8 DEF AliveCheck, Recheck
  <2>3. QED BY <1>3, <1>6, <2>1, <2>2 DEF TypeInv
<1>9. CASE GhostDump(k)
  <2>1. call[k].at = "ghost"
    BY <1>9 DEF GhostDump, CallGoes
  <2>2. DocsOK'
    BY <1>1, <1>9, <2>1, DumpOK DEF GhostDump, TypeInv
  <2>3. QED BY <1>6, <1>9, <2>2 DEF GhostDump, TypeInv, CallLabel
<1>10. CASE AwaitRead(k)
  <2>1. call[k].at = "wait"
    BY <1>10 DEF AwaitRead
  <2>2. CallsOK'
    <3>1. thread[c] \in Launch \cup {NoLaunch}
      BY <1>1, <2>1 DEF TypeInv, RestOK
    <3>2. \E to \in {"recheck", "join"} :
             call' = [call EXCEPT ![k].at = to, ![k].thread = thread[c]]
      BY <1>10 DEF AwaitRead
    <3>3. ASSUME NEW to \in {"recheck", "join"},
                 call' = [call EXCEPT ![k].at = to, ![k].thread = thread[c]]
          PROVE CallsOK'
      <4>1. to \in CallLabel /\ to \notin {"read", "protocol", "extended"}
        BY DEF CallLabel
      <4>2. QED BY <1>1, <2>1, <3>1, <3>3, <4>1, CallMoves,
               FixedDocs DEF TypeInv
    <3>4. QED BY <3>2, <3>3
  <2>3. RestOK'
    BY <1>10 DEF AwaitRead, Rest, TypeInv, RestOK, history
  <2>4. QED BY <1>2, <1>3, <1>10, <2>2, <2>3 DEF AwaitRead, Rest, TypeInv
<1>11. CASE AwaitPop(k)
  <2>1. CallsOK' /\ WorkersOK'
    BY <1>2, <1>11, CallGoesOK DEF AwaitPop, CallLabel
  <2>2. RestOK'
    BY <1>11 DEF AwaitPop, CallGoes, TypeInv, RestOK, history
  <2>3. QED BY <1>3, <1>11, <2>1, <2>2 DEF AwaitPop, TypeInv
<1>12. CASE Reclaim(k)
  <2>1. DocsOK'
    BY <1>12, ReclaimedTyped DEF Reclaim, TypeInv, DocsOK
  <2>2. QED BY <1>6, <1>12, <2>1 DEF Reclaim, TypeInv, CallLabel
<1>13. CASE Acquire(k) \/ LaunchFails(k)
  <2>1. call[k].at # "idle"
    BY <1>13 DEF Acquire, LaunchFails, CallGoes
  <2>2. CallsOK' /\ WorkersOK'
    BY <1>2, <1>13, CallGoesOK DEF Acquire, LaunchFails, CallLabel
  <2>3. RestOK'
    BY <1>1, <1>13, <2>1
       DEF Acquire, LaunchFails, CallGoes, TypeInv, RestOK, history, Free, NoPid
  <2>4. QED BY <1>3, <1>13, <2>2, <2>3 DEF Acquire, LaunchFails, TypeInv
<1>14. CASE LaunchDump(k)
  <2>1. call[k].at = "dump"
    BY <1>14 DEF LaunchDump, CallTakes
  <2>2. CallsOK' /\ WorkersOK'
    BY <1>14, CallTakesOK, FixedDocs DEF LaunchDump, CallLabel
  <2>3. [spec EXCEPT !.stop = FALSE, !.status = "queued", !.harvest = FALSE] \in Doc
    BY <1>1, <2>1, DocTypes DEF Status, Live
  <2>4. DocsOK'
    BY <1>14, <2>3, DumpOK DEF LaunchDump, TypeInv
  <2>5. RestOK'
    BY <1>14 DEF LaunchDump, CallTakes, TypeInv, RestOK
  <2>6. QED BY <2>2, <2>4, <2>5 DEF TypeInv
<1>15. CASE Register(k)
  <2> DEFINE i == launches + 1
             new == [NoWorker EXCEPT !.at = "created", !.camp = c]
  <2>1. call[k].at = "register" /\ i \in Launch
    BY <1>15, BoundAssumption DEF Register, TypeInv, RestOK, Launch
  <2>2. CallsOK'
    BY <1>15, <2>1, CallMoves, FixedDocs DEF Register, TypeInv, CallLabel
  <2>3. new \in Worker /\ new.camp = c
    BY <1>1, <2>1, FixedRecords DEF Worker, WorkerLabel
  <2>4. WorkersOK'
    <3>1. worker' = [worker EXCEPT ![i] = new]
      BY <1>15 DEF Register
    <3> HIDE DEF new, i
    <3>2. QED BY <1>1, <2>1, <2>3, <3>1 DEF TypeInv, WorkersOK, Working
  <2>5. RestOK'
    BY <1>1, <1>15, <2>1, BoundAssumption DEF Register, TypeInv, RestOK,
       history, Launch
  <2>6. QED BY <1>3, <1>15, <2>2, <2>4, <2>5 DEF Register, TypeInv
<1>16. CASE Spawn(k)
  <2>1. CallsOK'
    BY <1>16, CallGoesOK DEF Spawn, CallLabel
  <2>2. WorkersOK'
    <3> DEFINE i == call[k].thread
    <3>1. i \in Launch /\ Working(i)
      BY <1>16 DEF Spawn, CallGoes, OneHolder, Working
    <3>2. worker' = [worker EXCEPT ![i].at = "load"]
      BY <1>16 DEF Spawn
    <3>3. QED BY <3>1, <3>2, WorkerMoves, FixedDocs DEF TypeInv, WorkerLabel
  <2>3. RestOK'
    BY <1>16 DEF Spawn, CallGoes, TypeInv, RestOK, history
  <2>4. QED BY <1>3, <1>16, <2>1, <2>2, <2>3 DEF Spawn, TypeInv
<1>17. CASE ExtendLoad(k)
  <2>1. call[k].at = "extend"
    BY <1>17 DEF ExtendLoad, CallTakes
  <2>2. d.extra < HardCap
    BY <1>1, <1>17, <2>1, DocFields, BoundAssumption DEF ExtendLoad
  <2>3. CallsOK' /\ WorkersOK'
    BY <1>1, <1>17, <2>1, <2>2, CallTakesOK DEF ExtendLoad, CallLabel
  <2>4. RestOK'
    BY <1>17 DEF ExtendLoad, CallTakes, TypeInv, RestOK, history
  <2>5. QED BY <1>3, <1>17, <2>3, <2>4 DEF ExtendLoad, TypeInv
<1>18. CASE ReadProtocol(k)
  <2>1. call[k].at = "read"
    BY <1>18 DEF ReadProtocol
  <2>2. CallsOK'
    <3>1. protocol[c] \in Nat /\ spec.extra < HardCap
      BY <1>1, <2>1 DEF TypeInv, RestOK, CallsOK
    <3>2. call' = [call EXCEPT ![k].at = "protocol", ![k].max = protocol[c]]
      BY <1>18 DEF ReadProtocol
    <3>3. "protocol" \in CallLabel
      BY DEF CallLabel
    <3>4. QED BY <1>1, <2>1, <3>1, <3>2, <3>3, CallMoves DEF TypeInv
  <2>3. RestOK'
    BY <1>18 DEF ReadProtocol, Rest, TypeInv, RestOK, history
  <2>4. QED BY <1>2, <1>3, <1>18, <2>2, <2>3 DEF ReadProtocol, Rest, TypeInv
<1>19. CASE DumpProtocol(k)
  <2>1. call[k].at = "protocol"
    BY <1>19 DEF DumpProtocol, CallGoes
  <2>2. CallsOK' /\ WorkersOK'
    BY <1>2, <1>19, CallGoesOK DEF DumpProtocol, CallLabel
  <2>3. RestOK'
    BY <1>1, <1>19, <2>1 DEF DumpProtocol, CallGoes, TypeInv, RestOK, history
  <2>4. QED BY <1>3, <1>19, <2>2, <2>3 DEF DumpProtocol, TypeInv
<1>20. CASE ExtendDump(k)
  <2>1. call[k].at = "extended" /\ spec.extra < HardCap
    BY <1>20 DEF ExtendDump, CallGoes, TypeInv, CallsOK
  <2>2. CallsOK' /\ WorkersOK'
    BY <1>2, <1>20, CallGoesOK DEF ExtendDump, CallLabel
  <2>3. DocsOK'
    <3>1. [spec EXCEPT !.extra = @ + 1, !.status = "paused", !.stop = TRUE] \in Doc
      BY <1>1, <2>1, DocTypes DEF Status
    <3>2. QED BY <1>20, <3>1, DumpOK DEF ExtendDump, TypeInv
  <2>4. RestOK'
    BY <1>1, <1>20, <2>1 DEF ExtendDump, CallGoes, TypeInv, RestOK
  <2>5. QED BY <2>2, <2>3, <2>4 DEF TypeInv
<1>21. QED
  BY <1>4, <1>5, <1>7, <1>8, <1>9, <1>10, <1>11, <1>12, <1>13, <1>14, <1>15,
     <1>16, <1>17, <1>18, <1>19, <1>20 DEF CallStep

LEMMA RestartTyped == ASSUME TypeInv, Restart PROVE TypeInv'
<1>1. WorkersOK'
  <2>1. DeadWorker.at = "dead" /\ NoWorker.at = "none"
    BY DEF DeadWorker, NoWorker
  <2>2. QED BY <2>1, FixedRecords DEF Restart, TypeInv, WorkersOK, Working
<1>2. CallsOK'
  <2>1. NoCall.at = "idle"
    BY DEF NoCall
  <2>2. QED BY <2>1, FixedRecords DEF Restart, CallsOK
<1>3. DocsOK'
  BY ReclaimedTyped DEF Restart, TypeInv, DocsOK
<1>4. RestOK'
  BY DEF Restart, TypeInv, RestOK, history
<1>5. QED BY <1>1, <1>2, <1>3, <1>4 DEF TypeInv

(* OneHolder: who launches or works owns the lease of this boot, alone. *)
LEMMA WorkerStepHolder ==
    ASSUME TypeInv, OneHolder, NEW i \in Launch, WorkerStep(i)
    PROVE OneHolder'
<1>1. ASSUME Working(i), lease' = lease, boot' = boot, call' = call,
             launches' = launches, worker' \in [Launch -> Worker],
             worker[i].at # "created",
             \A j \in Launch : j # i => worker'[j] = worker[j],
             worker'[i].at = "dead" \/ worker'[i].camp = worker[i].camp
      PROVE OneHolder'
  <2>1. i \leq launches
    BY <1>1 DEF OneHolder, Working, NoWorker, TypeInv, RestOK, Launch
  <2>2. \A j \in Launch : Working(j)' => Working(j) /\ worker'[j].camp = worker[j].camp
    BY <1>1 DEF Working
  <2>3. \A k \in Caller : Launching(k)' <=> Launching(k)
    BY <1>1 DEF Launching
  <2>4. \A j \in Launch : j > launches' => worker'[j] = NoWorker
    <3>1. \A j \in Launch : j > launches => j # i /\ worker[j] = NoWorker
      BY <2>1 DEF OneHolder, Launch, TypeInv, RestOK
    <3>2. QED BY <1>1, <3>1
  <2>5. \A k \in Caller : call'[k].at = "spawn" =>
          /\ call'[k].thread \in Launch
          /\ worker'[call'[k].thread].at = "created"
          /\ \A l \in Caller : call'[l].at = "spawn" => k = l
    BY <1>1 DEF OneHolder
  <2>6. QED BY <1>1, <2>2, <2>3, <2>4, <2>5 DEF OneHolder
<1>2. TypeInv'
  BY WorkerStepTyped
<1>3. ASSUME NEW from \in WorkerLabel \ {"none", "created", "dead"},
             NEW to \in WorkerLabel, WorkerGoes(i, from, to), lease' = lease
      PROVE OneHolder'
  <2>1. Working(i) /\ worker[i].at # "created"
    BY <1>3 DEF WorkerGoes, Working
  <2>2. /\ \A j \in Launch : j # i => worker'[j] = worker[j]
        /\ worker'[i].at = "dead" \/ worker'[i].camp = worker[i].camp
    <3>1. DeadWorker.at = "dead"
      BY DEF DeadWorker, NoWorker
    <3>2. QED BY <1>3, <3>1 DEF WorkerGoes, TypeInv, WorkersOK, Worker
  <2>3. QED BY <1>1, <1>2, <1>3, <2>1, <2>2 DEF WorkerGoes, TypeInv, WorkersOK
<1>4. ASSUME NEW from \in WorkerLabel \ {"none", "created", "dead"},
             NEW to \in WorkerLabel, NEW x, WorkerTakes(i, from, to, x)
      PROVE OneHolder'
  <2>1. Working(i) /\ worker[i].at # "created"
    BY <1>4 DEF WorkerTakes, Working
  <2>2. /\ \A j \in Launch : j # i => worker'[j] = worker[j]
        /\ worker'[i].camp = worker[i].camp
    BY <1>4 DEF WorkerTakes, TypeInv, WorkersOK, Worker
  <2>3. QED BY <1>1, <1>2, <1>4, <2>1, <2>2 DEF WorkerTakes, TypeInv, WorkersOK
<1>5. CASE Load(i) \/ Crashed(i)
  BY <1>4, <1>5 DEF Load, Crashed, WorkerLabel
<1>6. CASE Mark(i) \/ Pause(i) \/ Last(i) \/ Gc(i)
  BY <1>3, <1>6 DEF Mark, Pause, Last, Gc, WorkerDumps, WorkerLabel
<1>7. CASE Top(i)
  BY <1>4, <1>7 DEF Top, WorkerLabel
<1>8. CASE Stamp(i)
  BY <1>3, <1>4, <1>8 DEF Stamp, WorkerLabel
<1>9. CASE Step(i)
  <2>1. \E to \in WorkerLabel : \E x : WorkerTakes(i, "step", to, x)
    BY <1>9 DEF Step, WorkerLabel
  <2>2. QED BY <1>4, <2>1 DEF WorkerLabel
<1>10. CASE Save(i)
  <2>1. Working(i) /\ worker[i].at # "created"
    BY <1>10 DEF Save, Working
  <2>2. /\ \A j \in Launch : j # i => worker'[j] = worker[j]
        /\ worker'[i].camp = worker[i].camp
    BY <1>10 DEF Save, TypeInv, WorkersOK, Worker
  <2>3. QED BY <1>1, <1>2, <1>10, <2>1, <2>2 DEF Save, TypeInv, WorkersOK
<1>11. CASE Finally(i)
  BY <1>3, <1>11 DEF Finally, WorkerLabel
<1>12. CASE Release(i)
  <2>1. /\ worker[i].at = "release" /\ Working(i)
        /\ worker' = [worker EXCEPT ![i] = DeadWorker]
        /\ UNCHANGED <<boot, call, launches>>
    BY <1>12 DEF Release, WorkerGoes, Working
  <2>2. \A j \in Launch : ~Working(j)'
    <3>1. DeadWorker.at = "dead"
      BY DEF DeadWorker, NoWorker
    <3>2. \A j \in Launch : Working(j) => j = i
      BY <2>1 DEF OneHolder
    <3>3. QED BY <2>1, <3>1, <3>2 DEF TypeInv, WorkersOK, Working
  <2>3. \A k \in Caller : ~Launching(k)'
    BY <2>1 DEF OneHolder, Launching
  <2>4. i \leq launches
    BY <2>1 DEF OneHolder, NoWorker, TypeInv, RestOK, Launch
  <2>5. \A j \in Launch : j > launches' => worker'[j] = NoWorker
    <3>1. \A j \in Launch : j > launches => j # i /\ worker[j] = NoWorker
      BY <2>4 DEF OneHolder, Launch, TypeInv, RestOK
    <3>2. \A j \in Launch : j # i => worker'[j] = worker[j]
      BY <2>1 DEF TypeInv, WorkersOK
    <3>3. QED BY <2>1, <3>1, <3>2
  <2>6. \A k \in Caller : call'[k].at = "spawn" =>
          /\ call'[k].thread \in Launch
          /\ worker'[call'[k].thread].at = "created"
          /\ \A l \in Caller : call'[l].at = "spawn" => k = l
    BY <2>1 DEF OneHolder, TypeInv, WorkersOK
  <2>7. QED BY <2>2, <2>3, <2>5, <2>6 DEF OneHolder
<1>13. QED
  BY <1>5, <1>6, <1>7, <1>8, <1>9, <1>10, <1>11, <1>12 DEF WorkerStep

(* Calls that touch neither workers nor the lease, and that hold it afterwards
   only if they did before. *)
LEMMA CallerHolder ==
    ASSUME TypeInv, OneHolder, NEW k \in Caller,
           UNCHANGED <<worker, lease, boot, launches>>,
           DOMAIN call' = Caller,
           \A l \in Caller : l # k => call'[l] = call[l],
           Launching(k)' => Launching(k) /\ call'[k].camp = call[k].camp,
           call'[k].at # "spawn"
    PROVE OneHolder'
<1>1. \A l \in Caller : Launching(l)' => Launching(l) /\ call'[l].camp = call[l].camp
  BY DEF Launching
<1>2. \A l \in Caller : call'[l].at = "spawn" => l # k /\ call'[l] = call[l]
  OBVIOUS
<1>3. \A j \in Launch : Working(j)' <=> Working(j)
  BY DEF Working
<1>4. QED BY <1>1, <1>2, <1>3 DEF OneHolder

LEMMA CallStepHolder ==
    ASSUME TypeInv, OneHolder, NEW k \in Caller, CallStep(k)
    PROVE OneHolder'
<1>1. TypeInv'
  BY CallStepTyped
<1>2. DOMAIN call = Caller /\ DOMAIN call' = Caller /\ DOMAIN worker = Launch
  BY <1>1 DEF TypeInv, CallsOK, WorkersOK
<1>3. NoCall.at = "idle"
  BY DEF NoCall
<1>4. ASSUME NEW from \in CallLabel,
             NEW to \in CallLabel \ {"dump", "register", "spawn"},
             CallGoes(k, from, to), UNCHANGED <<worker, lease>>
      PROVE OneHolder'
  <2>1. /\ \A l \in Caller : l # k => call'[l] = call[l]
        /\ call'[k].at = to
    BY <1>2, <1>3, <1>4 DEF CallGoes, TypeInv, CallsOK, Call
  <2>2. QED BY <1>2, <1>4, <2>1, CallerHolder DEF CallGoes, Launching
<1>5. ASSUME NEW from \in CallLabel,
             NEW to \in CallLabel \ {"dump", "register", "spawn"},
             NEW x, CallTakes(k, from, to, x)
      PROVE OneHolder'
  <2>1. /\ \A l \in Caller : l # k => call'[l] = call[l]
        /\ call'[k].at = to
    BY <1>2, <1>5 DEF CallTakes, TypeInv, CallsOK, Call
  <2>2. QED BY <1>2, <1>5, <2>1, CallerHolder DEF CallTakes, Launching
<1>6. CASE StopDump(k) \/ GhostDump(k) \/ AliveCheck(k) \/ AwaitPop(k) \/ Recheck(k)
           \/ Reclaim(k)
  <2>1. \E from \in CallLabel,
           to \in CallLabel \ {"dump", "register", "spawn"} :
           CallGoes(k, from, to)
    BY <1>6 DEF StopDump, GhostDump, AliveCheck, AwaitPop, Recheck, Reclaim,
       CallLabel
  <2>2. UNCHANGED <<worker, lease>>
    BY <1>6 DEF StopDump, GhostDump, AliveCheck, AwaitPop, Recheck, Reclaim,
       Rest
  <2>3. QED BY <1>4, <2>1, <2>2
<1>7. CASE ResumeRefused(k) \/ NotReady(k) \/ Busy(k) \/ ExtendRefused(k)
           \/ DumpProtocol(k) \/ ExtendDump(k)
  <2>1. \E from \in CallLabel,
           to \in CallLabel \ {"dump", "register", "spawn"} :
           CallGoes(k, from, to)
    BY <1>7 DEF ResumeRefused, NotReady, Busy, ExtendRefused, DumpProtocol,
                ExtendDump, CallLabel
  <2>2. UNCHANGED <<worker, lease>>
    BY <1>7 DEF ResumeRefused, NotReady, Busy, ExtendRefused, DumpProtocol,
                ExtendDump, Rest
  <2>3. QED BY <1>4, <2>1, <2>2
<1>8. CASE ResumeLoad(k) \/ ExtendLoad(k)
  <2>1. \E from \in CallLabel,
           to \in CallLabel \ {"dump", "register", "spawn"} : \E x :
           CallTakes(k, from, to, x)
    BY <1>8 DEF ResumeLoad, ExtendLoad, CallLabel
  <2>2. QED BY <1>5, <2>1
<1>9. CASE AwaitRead(k) \/ ReadProtocol(k)
  <2>1. /\ \A l \in Caller : l # k => call'[l] = call[l]
        /\ call'[k].at \in {"recheck", "join", "protocol"}
    BY <1>2, <1>9 DEF AwaitRead, ReadProtocol, TypeInv, CallsOK, Call
  <2>2. UNCHANGED <<worker, lease, boot, launches>>
    BY <1>9 DEF AwaitRead, ReadProtocol, Rest
  <2>3. QED BY <1>2, <2>1, <2>2, CallerHolder DEF Launching
<1>10. CASE Acquire(k)
  <2>1. /\ \A l \in Caller : l # k => call'[l] = call[l]
        /\ call[k].at = "acquire" /\ call'[k].at = "dump"
        /\ call'[k].camp = call[k].camp
    BY <1>2, <1>10 DEF Acquire, CallGoes, TypeInv, CallsOK, Call
  <2>2. lease.pid # boot /\ UNCHANGED <<worker, boot, launches>>
        /\ lease' = [owner |-> call[k].camp, pid |-> boot]
    BY <1>10 DEF Acquire, CallGoes, Occupied, LeaseLive
  <2>3. /\ \A l \in Caller : ~Launching(l)
        /\ \A i \in Launch : ~Working(i)
    BY <2>2 DEF OneHolder
  <2>4. /\ \A l \in Caller : Launching(l)' <=> l = k
        /\ \A i \in Launch : ~Working(i)'
    BY <2>1, <2>2, <2>3 DEF Launching, Working
  <2>5. \A l \in Caller : call'[l].at # "spawn"
    BY <2>1, <2>3 DEF OneHolder, Working
  <2>6. QED BY <2>1, <2>2, <2>4, <2>5 DEF OneHolder
<1>11. CASE LaunchDump(k)
  <2>1. /\ \A l \in Caller : l # k => call'[l] = call[l]
        /\ call[k].at = "dump" /\ call'[k].at = "register"
        /\ call'[k].camp = call[k].camp
    BY <1>2, <1>11 DEF LaunchDump, CallTakes, TypeInv, CallsOK, Call
  <2>2. UNCHANGED <<worker, lease, boot, launches>>
    BY <1>11 DEF LaunchDump, CallTakes
  <2>3. QED BY <1>2, <2>1, <2>2, CallerHolder DEF Launching
<1>12. CASE LaunchFails(k)
  <2>1. /\ \A l \in Caller : l # k => call'[l] = call[l]
        /\ call[k].at = "dump" /\ call'[k].at = "idle"
        /\ UNCHANGED <<worker, boot, launches>>
    BY <1>2, <1>3, <1>12 DEF LaunchFails, CallGoes, TypeInv, CallsOK, Call
  <2>2. /\ \A l \in Caller : ~Launching(l)'
        /\ \A i \in Launch : ~Working(i)'
        /\ \A l \in Caller : call'[l].at # "spawn"
    BY <2>1 DEF OneHolder, Launching, Working
  <2>3. QED BY <2>1, <2>2 DEF OneHolder
<1>13. CASE Register(k)
  <2> DEFINE i == launches + 1
  <2>1. /\ \A l \in Caller : l # k => call'[l] = call[l]
        /\ call[k].at = "register" /\ call'[k].at = "spawn" /\ call'[k].thread = i
        /\ i \in Launch
    BY <1>2, <1>13, BoundAssumption
       DEF Register, TypeInv, CallsOK, Call, RestOK, Launch
  <2>2. /\ \A j \in Launch : j # i => worker'[j] = worker[j]
        /\ worker'[i].at = "created" /\ worker'[i].camp = call[k].camp
        /\ launches' = i /\ lease' = lease /\ boot' = boot
    BY <1>2, <1>13, <2>1 DEF Register, NoWorker
  <2>3. /\ \A j \in Launch : Working(j)' <=> j = i
        /\ \A l \in Caller : ~Launching(l)'
        /\ \A l \in Caller : call'[l].at = "spawn" <=> l = k
    BY <2>1, <2>2 DEF OneHolder, Launching, Working
  <2>4. lease = [owner |-> call[k].camp, pid |-> boot]
    BY <2>1 DEF OneHolder, Launching
  <2>5. \A j \in Launch : j > launches' => worker'[j] = NoWorker
    <3>1. \A j \in Launch : j > i => j > launches /\ j # i
      BY DEF Launch, TypeInv, RestOK
    <3>2. QED BY <2>2, <3>1 DEF OneHolder
  <2> HIDE DEF i
  <2>6. QED BY <2>1, <2>2, <2>3, <2>4, <2>5 DEF OneHolder
<1>14. CASE Spawn(k)
  <2> DEFINE i == call[k].thread
  <2>1. /\ \A l \in Caller : l # k => call'[l] = call[l]
        /\ call[k].at = "spawn" /\ call'[k].at = "idle"
    BY <1>2, <1>3, <1>14 DEF Spawn, CallGoes, TypeInv, CallsOK, Call
  <2>2. i \in Launch /\ worker[i].at = "created" /\ Working(i)
    BY <2>1 DEF OneHolder, Working
  <2>3. /\ \A j \in Launch : j # i => worker'[j] = worker[j]
        /\ worker'[i].at = "load" /\ worker'[i].camp = worker[i].camp
        /\ UNCHANGED <<lease, boot, launches>>
    BY <1>2, <1>14, <2>2 DEF Spawn, CallGoes, TypeInv, WorkersOK, Worker
  <2>4. /\ \A j \in Launch : Working(j)' <=> Working(j)
        /\ \A j \in Launch : worker'[j].camp = worker[j].camp
        /\ \A l \in Caller : ~Launching(l)'
        /\ \A l \in Caller : call'[l].at # "spawn"
    BY <2>1, <2>2, <2>3 DEF OneHolder, Launching, Working
  <2>5. \A j \in Launch : j > launches' => worker'[j] = NoWorker
    BY <2>2, <2>3 DEF OneHolder, NoWorker
  <2>6. QED BY <2>3, <2>4, <2>5 DEF OneHolder
<1>15. QED
  BY <1>6, <1>7, <1>8, <1>9, <1>10, <1>11, <1>12, <1>13, <1>14 DEF CallStep

LEMMA OtherStepHolder ==
    ASSUME TypeInv, OneHolder
    PROVE /\ Restart => OneHolder'
          /\ \A k \in Caller, c \in Campaign, spec \in Doc,
                to \in {"reclaim", "stop", "resume", "extend"} :
                Begin(k, c, to, spec) => OneHolder'
<1>1. ASSUME Restart PROVE OneHolder'
  <2>1. DeadWorker.at = "dead" /\ NoWorker.at = "none" /\ NoCall.at = "idle"
    BY DEF DeadWorker, NoWorker, NoCall
  <2>2. /\ \A i \in Launch : ~Working(i)'
        /\ \A k \in Caller : call'[k].at = "idle"
    BY <1>1, <2>1 DEF Restart, Working
  <2>3. \A i \in Launch : i > launches' => worker'[i] = NoWorker
    BY <1>1, <2>1 DEF Restart, OneHolder
  <2>4. QED BY <2>2, <2>3 DEF OneHolder, Launching
<1>2. ASSUME NEW k \in Caller, NEW c \in Campaign, NEW spec \in Doc,
             NEW to \in {"reclaim", "stop", "resume", "extend"},
             Begin(k, c, to, spec)
      PROVE OneHolder'
  <2>1. /\ DOMAIN call' = Caller
        /\ \A l \in Caller : l # k => call'[l] = call[l]
        /\ call'[k].at = to
    BY <1>2 DEF Begin, NoCall, TypeInv, CallsOK
  <2>2. QED BY <1>2, <2>1, CallerHolder DEF Begin, Launching
<1>3. QED BY <1>1, <1>2

Inv == TypeInv /\ OneHolder

LEMMA InvInductive == Spec => []Inv
<1>1. Init => Inv
  <2> SUFFICES ASSUME Init PROVE Inv
    OBVIOUS
  <2>1. WorkersOK /\ CallsOK /\ DocsOK
    <3>1. NoWorker.at = "none" /\ NoCall.at = "idle"
      BY DEF NoWorker, NoCall
    <3>2. QED BY <3>1, FixedRecords, FixedDocs
             DEF Init, WorkersOK, CallsOK, DocsOK, Working
  <2>2. RestOK
    BY BoundAssumption DEF Init, RestOK, NoLaunch, Free, NoPid
  <2>3. OneHolder
    <3>1. /\ \A i \in Launch : worker[i] = NoWorker /\ worker[i].at = "none"
          /\ \A k \in Caller : call[k].at = "idle"
      BY DEF Init, NoWorker, NoCall
    <3>2. QED BY <3>1 DEF OneHolder, Working, Launching
  <2>4. QED BY <2>1, <2>2, <2>3 DEF Inv, TypeInv
<1>2. Inv /\ [Next]_vars => Inv'
  <2> SUFFICES ASSUME TypeInv, OneHolder, [Next]_vars PROVE Inv'
    BY DEF Inv
  <2>1. ASSUME NEW i \in Launch, WorkerStep(i) PROVE Inv'
    BY <2>1, WorkerStepTyped, WorkerStepHolder DEF Inv
  <2>2. ASSUME NEW k \in Caller, CallStep(k) PROVE Inv'
    BY <2>2, CallStepTyped, CallStepHolder DEF Inv
  <2>3. ASSUME NEW k \in Caller, NEW c \in Campaign,
               Start(k, c) \/ Stop(k, c) \/ Resume(k, c) \/ Extend(k, c)
        PROVE Inv'
    <3>1. doc[c] \in Doc /\ Absent \in Doc /\ Fresh(boot) \in Doc
      BY FixedDocs DEF TypeInv, DocsOK, RestOK
    <3>2. \E spec \in Doc, to \in {"reclaim", "stop", "resume", "extend"} :
             Begin(k, c, to, spec)
      BY <2>3, <3>1 DEF Start, Stop, Resume, Extend
    <3>3. QED BY <3>2, BeginTyped, OtherStepHolder DEF Inv
  <2>4. ASSUME Restart PROVE Inv'
    BY <2>4, RestartTyped, OtherStepHolder DEF Inv
  <2>5. CASE UNCHANGED vars
    BY <2>5
       DEF vars, history, Inv, TypeInv, WorkersOK, CallsOK, DocsOK, RestOK,
           OneHolder, Working, Launching
  <2>6. QED BY <2>1, <2>2, <2>3, <2>4, <2>5 DEF Next
<1>3. QED BY <1>1, <1>2, PTL DEF Spec

(* Documents, registries and threads keep their types, and no sequence of
   extensions takes a campaign past the hard cap. *)
THEOREM TypeCorrect == Spec => []TypeOK
<1>1. Inv => TypeOK
  BY TypeInvIs DEF Inv
<1>2. QED BY <1>1, InvInductive, PTL

(* However calls, workers and restarts interleave, at most one worker exists,
   and the lease names its campaign and the living server. *)
THEOREM OneWorker == Spec => []OneGpuWorker
<1>1. Inv => OneGpuWorker
  BY DEF Inv, OneHolder, OneGpuWorker
<1>2. QED BY <1>1, InvInductive, PTL

(* A lease of this boot has a holder. *)
HolderInv == LeaseHasHolder /\ lease.pid \leq boot

LEMMA WorkerStepLease ==
    ASSUME TypeInv, OneHolder, HolderInv, NEW i \in Launch, WorkerStep(i)
    PROVE HolderInv'
<1> DEFINE c == worker[i].camp
<1>1. DOMAIN worker = Launch /\ boot \in Nat \ {0}
  BY DEF TypeInv, WorkersOK, RestOK
<1>2. ASSUME Working(i), UNCHANGED <<lease, boot, leased, call>>,
             worker[i].at # "release", Working(i)', worker'[i].camp = c,
             \A j \in Launch : j # i => worker'[j] = worker[j]
      PROVE HolderInv'
  <2>1. (\E k \in Caller : Launching(k)) => \E k \in Caller : Launching(k)'
    BY <1>2 DEF Launching
  <2>2. (\E j \in Launch : worker[j].at = "release") =>
           \E j \in Launch : worker'[j].at = "release"
    BY <1>2
  <2>3. (\E j \in Launch : Working(j) /\ worker[j].camp \in leased) =>
           \E j \in Launch : Working(j)' /\ worker'[j].camp \in leased'
    BY <1>2 DEF Working
  <2>4. QED BY <1>2, <2>1, <2>2, <2>3 DEF HolderInv, LeaseHasHolder, LeaseLive
<1>3. ASSUME NEW from \in WorkerLabel \ {"none", "dead", "release"},
             NEW to \in WorkerLabel \ {"none", "dead"},
             \/ WorkerDumps(i, from, to)
             \/ \E x : WorkerTakes(i, from, to, x)
             \/ WorkerGoes(i, from, to) /\ UNCHANGED <<doc, thread, leased, lease>>
      PROVE HolderInv'
  <2>1. /\ Working(i) /\ worker[i].at # "release" /\ Working(i)'
        /\ UNCHANGED <<lease, boot, leased, call>>
        /\ worker'[i].camp = c
        /\ \A j \in Launch : j # i => worker'[j] = worker[j]
    BY <1>1, <1>3
       DEF WorkerDumps, WorkerGoes, WorkerTakes, Working, TypeInv, WorkersOK,
           Worker
  <2>2. QED BY <1>2, <2>1
<1>4. CASE Load(i) \/ Crashed(i)
  BY <1>3, <1>4 DEF Load, Crashed, WorkerLabel
<1>5. CASE Mark(i) \/ Pause(i) \/ Last(i) \/ Gc(i)
  BY <1>3, <1>5 DEF Mark, Pause, Last, Gc, WorkerLabel
<1>6. CASE Top(i) \/ Stamp(i)
  BY <1>3, <1>6 DEF Top, Stamp, WorkerLabel
<1>7. CASE Step(i)
  <2>1. \E to \in {"crashed", "save", "last"} : \E x : WorkerTakes(i, "step", to, x)
    BY <1>7 DEF Step
  <2>2. QED BY <1>3, <2>1 DEF WorkerLabel
<1>8. CASE Save(i)
  <2>1. /\ Working(i) /\ worker[i].at # "release" /\ Working(i)'
        /\ UNCHANGED <<lease, boot, leased, call>>
        /\ worker'[i].camp = c
        /\ \A j \in Launch : j # i => worker'[j] = worker[j]
    BY <1>1, <1>8 DEF Save, Working, TypeInv, WorkersOK, Worker
  <2>2. QED BY <1>2, <2>1
<1>9. CASE Finally(i)
  <2>1. Working(i) /\ worker[i].at = "finally" /\ UNCHANGED <<lease, boot, call>>
    BY <1>9 DEF Finally, WorkerGoes, Working
  <2>2. CASE c \in leased
    <3>1. worker'[i].at = "release"
      BY <1>1, <1>9, <2>2 DEF Finally, WorkerGoes, TypeInv, WorkersOK, Worker
    <3>2. QED BY <2>1, <3>1 DEF HolderInv, LeaseHasHolder
  <2>3. CASE c \notin leased
    <3>1. /\ \A k \in Caller : ~Launching(k)
          /\ \A j \in Launch : Working(j) => j = i
          /\ \A j \in Launch : worker[j].at = "release" => Working(j)
      BY <2>1 DEF OneHolder, Working
    <3>2. ~LeaseLive
      BY <2>1, <2>3, <3>1 DEF HolderInv, LeaseHasHolder
    <3>3. QED BY <2>1, <3>2 DEF HolderInv, LeaseHasHolder, LeaseLive
  <2>4. QED BY <2>2, <2>3
<1>10. CASE Release(i)
  <2>1. Working(i) /\ boot' = boot
    BY <1>10 DEF Release, WorkerGoes, Working
  <2>2. lease.owner = c
    BY <2>1 DEF OneHolder
  <2>3. lease' = Free
    BY <1>10, <2>2 DEF Release
  <2>4. QED BY <1>1, <2>1, <2>3 DEF HolderInv, LeaseHasHolder, LeaseLive,
           Free, NoPid
<1>11. QED
  BY <1>4, <1>5, <1>6, <1>7, <1>8, <1>9, <1>10 DEF WorkerStep

LEMMA CallStepLease ==
    ASSUME TypeInv, OneHolder, HolderInv, NEW k \in Caller, CallStep(k)
    PROVE HolderInv'
<1>1. DOMAIN call = Caller /\ DOMAIN worker = Launch /\ boot \in Nat \ {0}
  BY DEF TypeInv, CallsOK, WorkersOK, RestOK
<1>2. ASSUME UNCHANGED <<lease, boot, leased, worker>>, ~Launching(k),
             \A l \in Caller : l # k => call'[l] = call[l]
      PROVE HolderInv'
  <2>1. (\E l \in Caller : Launching(l)) => \E l \in Caller : Launching(l)'
    BY <1>2 DEF Launching
  <2>2. QED BY <1>2, <2>1 DEF HolderInv, LeaseHasHolder, LeaseLive, Working
<1>3. ASSUME NEW from \in CallLabel \ {"dump", "register"}, NEW to,
             CallGoes(k, from, to), UNCHANGED <<worker, lease, leased>>
      PROVE HolderInv'
  <2>1. ~Launching(k) /\ \A l \in Caller : l # k => call'[l] = call[l]
    BY <1>1, <1>3 DEF CallGoes, Launching
  <2>2. QED BY <1>2, <1>3, <2>1 DEF CallGoes
<1>4. ASSUME NEW from \in CallLabel \ {"dump", "register"}, NEW to, NEW x,
             CallTakes(k, from, to, x)
      PROVE HolderInv'
  <2>1. ~Launching(k) /\ \A l \in Caller : l # k => call'[l] = call[l]
    BY <1>1, <1>4 DEF CallTakes, Launching
  <2>2. QED BY <1>2, <1>4, <2>1 DEF CallTakes
<1>5. CASE StopDump(k) \/ GhostDump(k) \/ AliveCheck(k) \/ AwaitPop(k) \/ Recheck(k)
           \/ Reclaim(k)
  BY <1>3, <1>5
     DEF StopDump, GhostDump, AliveCheck, AwaitPop, Recheck, Reclaim, Rest,
         CallLabel
<1>6. CASE ResumeRefused(k) \/ NotReady(k) \/ Busy(k) \/ ExtendRefused(k)
           \/ DumpProtocol(k) \/ ExtendDump(k)
  BY <1>3, <1>6 DEF ResumeRefused, NotReady, Busy, ExtendRefused, DumpProtocol,
                    ExtendDump, Rest, CallLabel
<1>7. CASE ResumeLoad(k) \/ ExtendLoad(k)
  BY <1>4, <1>7 DEF ResumeLoad, ExtendLoad, CallLabel
<1>8. CASE AwaitRead(k) \/ ReadProtocol(k)
  <2>1. /\ ~Launching(k) /\ \A l \in Caller : l # k => call'[l] = call[l]
        /\ UNCHANGED <<lease, boot, leased, worker>>
    BY <1>1, <1>8 DEF AwaitRead, ReadProtocol, Launching, Rest
  <2>2. QED BY <1>2, <2>1
<1>9. CASE Acquire(k)
  <2>1. call'[k].at = "dump" /\ lease'.pid = boot /\ boot' = boot
    BY <1>1, <1>9 DEF Acquire, CallGoes, TypeInv, CallsOK, Call
  <2>2. QED BY <1>1, <2>1 DEF HolderInv, LeaseHasHolder, Launching
<1>10. CASE LaunchDump(k)
  <2>1. call'[k].at = "register" /\ UNCHANGED <<lease, boot>>
    BY <1>1, <1>10 DEF LaunchDump, CallTakes, TypeInv, CallsOK, Call
  <2>2. QED BY <2>1 DEF HolderInv, LeaseHasHolder, Launching
<1>11. CASE LaunchFails(k)
  <2>1. Launching(k) /\ boot' = boot
    BY <1>11 DEF LaunchFails, CallGoes, Launching
  <2>2. lease' = Free
    BY <1>11, <2>1 DEF LaunchFails, OneHolder
  <2>3. QED BY <1>1, <2>1, <2>2 DEF HolderInv, LeaseHasHolder, LeaseLive,
           Free, NoPid
<1>12. CASE Register(k)
  <2> DEFINE i == launches + 1
  <2>1. i \in Launch
    BY <1>12, BoundAssumption DEF Register, TypeInv, RestOK, Launch
  <2>2. /\ worker'[i].at = "created" /\ worker'[i].camp \in leased'
        /\ UNCHANGED <<lease, boot>>
    BY <1>1, <1>12, <2>1 DEF Register, NoWorker
  <2> HIDE DEF i
  <2>3. QED BY <2>1, <2>2 DEF HolderInv, LeaseHasHolder, Working
<1>13. CASE Spawn(k)
  <2> DEFINE i == call[k].thread
  <2>1. i \in Launch /\ worker[i].at = "created"
    BY <1>13 DEF Spawn, CallGoes, OneHolder
  <2>2. /\ \A j \in Launch : j # i => worker'[j] = worker[j]
        /\ worker'[i].at = "load" /\ worker'[i].camp = worker[i].camp
        /\ UNCHANGED <<lease, boot, leased>>
    BY <1>1, <1>13, <2>1 DEF Spawn, CallGoes, TypeInv, WorkersOK, Worker
  <2>3. \A l \in Caller : Launching(l) => FALSE
    BY <2>1 DEF OneHolder, Working
  <2>4. /\ \A j \in Launch : worker[j].at = "release" => worker'[j].at = "release"
        /\ \A j \in Launch : Working(j) => Working(j)' /\ worker'[j].camp = worker[j].camp
    BY <2>1, <2>2 DEF Working
  <2>5. QED BY <2>2, <2>3, <2>4 DEF HolderInv, LeaseHasHolder, LeaseLive
<1>14. QED
  BY <1>5, <1>6, <1>7, <1>8, <1>9, <1>10, <1>11, <1>12, <1>13 DEF CallStep

(* A lease of the living server is never left behind: a call or a worker that
   will release it still exists. *)
THEOREM LeaseHeld == Spec => []LeaseHasHolder
<1>1. Init => HolderInv
  BY DEF Init, HolderInv, LeaseHasHolder, LeaseLive, Free, NoPid
<1>2. Inv /\ HolderInv /\ [Next]_vars => HolderInv'
  <2> SUFFICES ASSUME TypeInv, OneHolder, HolderInv, [Next]_vars
      PROVE HolderInv'
    BY DEF Inv
  <2>1. ASSUME NEW i \in Launch, WorkerStep(i) PROVE HolderInv'
    BY <2>1, WorkerStepLease
  <2>2. ASSUME NEW k \in Caller, CallStep(k) PROVE HolderInv'
    BY <2>2, CallStepLease
  <2>3. ASSUME NEW k \in Caller, NEW c \in Campaign,
               Start(k, c) \/ Stop(k, c) \/ Resume(k, c) \/ Extend(k, c)
        PROVE HolderInv'
    <3>1. /\ UNCHANGED <<lease, boot, leased, worker>>
          /\ call[k].at = "idle"
          /\ \A l \in Caller : l # k => call'[l] = call[l]
      BY <2>3 DEF Start, Stop, Resume, Extend, Begin, TypeInv, CallsOK
    <3>2. \A l \in Caller : Launching(l) => Launching(l)'
      BY <3>1 DEF Launching
    <3>3. QED BY <3>1, <3>2 DEF HolderInv, LeaseHasHolder, LeaseLive, Working
  <2>4. ASSUME Restart PROVE HolderInv'
    BY <2>4 DEF Restart, HolderInv, LeaseHasHolder, LeaseLive, TypeInv, RestOK
  <2>5. CASE UNCHANGED vars
    BY <2>5 DEF vars, history, HolderInv, LeaseHasHolder, LeaseLive, Working,
       Launching
  <2>6. QED BY <2>1, <2>2, <2>3, <2>4, <2>5 DEF Next
<1>3. HolderInv => LeaseHasHolder
  BY DEF HolderInv
<1>4. QED BY <1>1, <1>2, <1>3, InvInductive, PTL DEF Spec

(* What StopRemembered says of one worker and one campaign. *)
Heeds(i, c) ==
    asked[c] = "between" /\ worker[i].camp = c =>
       /\ worker[i].at \notin {"stamp", "step", "save"}
       /\ worker[i].at \in {"created", "load", "top"} => doc[c].stop
       /\ worker[i].at = "mark" => worker[i].spec.stop

LEMMA StopRememberedIs ==
    StopRemembered <=>
       /\ \A c \in Campaign, i \in Launch : Heeds(i, c)
       /\ \A k \in Caller : call[k].at = "register" => asked[call[k].camp] # "between"
       /\ \A k \in Caller : call[k].at = "ghost" => call[k].spec.stop
BY DEF StopRemembered, Heeds

LEMMA IdleHeeds ==
    ASSUME NEW i, NEW c, ~Working(i)
    PROVE Heeds(i, c)
BY DEF Heeds, Working

LEMMA WorkerStepStop ==
    ASSUME TypeInv, OneHolder, StopRemembered, NEW i \in Launch, WorkerStep(i)
    PROVE StopRemembered'
<1> DEFINE b == worker[i].camp
<1>1. DOMAIN worker = Launch /\ DOMAIN doc = Campaign /\ doc \in [Campaign -> Doc]
  BY DEF TypeInv, WorkersOK, DocsOK
<1>2. ASSUME Working(i), UNCHANGED <<asked, call>>,
             \A j \in Launch : j # i => worker'[j] = worker[j],
             Heeds(i, b)', worker'[i].camp = b \/ ~Working(i)'
      PROVE StopRemembered'
  <2>1. \A j \in Launch : j # i => ~Working(j)'
    BY <1>2 DEF OneHolder, Working
  <2>2. \A j \in Launch, c \in Campaign : j # i => Heeds(j, c)'
    BY <2>1, IdleHeeds DEF Heeds, Working
  <2>3. \A c \in Campaign : Heeds(i, c)'
    BY <1>2 DEF Heeds, Working
  <2>4. \A k \in Caller :
           /\ call'[k].at = "register" => asked'[call'[k].camp] # "between"
           /\ call'[k].at = "ghost" => call'[k].spec.stop
    BY <1>2 DEF StopRemembered
  <2>5. QED BY <2>2, <2>3, <2>4 DEF StopRemembered, Heeds
<1>3. ASSUME Working(i) PROVE b \in Campaign /\ Heeds(i, b)
  BY <1>3 DEF TypeInv, WorkersOK, StopRemembered, Heeds
<1>4. ASSUME NEW from \in WorkerLabel \ {"none", "dead"}, NEW to,
             NEW x, WorkerTakes(i, from, to, x)
      PROVE /\ Working(i) /\ UNCHANGED <<asked, call>>
            /\ \A j \in Launch : j # i => worker'[j] = worker[j]
            /\ worker'[i].camp = b /\ worker'[i].at = to /\ worker'[i].spec = x
            /\ worker[i].at = from
  BY <1>1, <1>4 DEF WorkerTakes, history, Working, TypeInv, WorkersOK, Worker
<1>5. ASSUME NEW from \in WorkerLabel \ {"none", "dead"}, NEW to,
             WorkerGoes(i, from, to)
      PROVE /\ Working(i) /\ UNCHANGED <<asked, call>>
            /\ \A j \in Launch : j # i => worker'[j] = worker[j]
            /\ worker'[i].at = to /\ worker[i].at = from
            /\ worker'[i].camp = b \/ ~Working(i)'
  <2>1. DeadWorker.at = "dead"
    BY DEF DeadWorker, NoWorker
  <2>2. QED BY <1>1, <1>5, <2>1 DEF WorkerGoes, history, Working, TypeInv,
           WorkersOK, Worker
<1>6. CASE Load(i)
  <2>1. \E x : WorkerTakes(i, "load", "mark", x) /\ x.stop = doc[b].stop
    <3>1. [doc[b] EXCEPT !.status = "running", !.pid = boot].stop = doc[b].stop
      <4>1. worker[i].at = "load"
        BY <1>6 DEF Load, WorkerTakes
      <4>2. doc[b] \in Doc
        BY <1>1, <1>3, <4>1 DEF Working
      <4>3. QED BY <4>2 DEF Doc
    <3>2. QED BY <1>6, <3>1 DEF Load
  <2>2. /\ Working(i) /\ UNCHANGED <<asked, call>>
        /\ \A j \in Launch : j # i => worker'[j] = worker[j]
        /\ worker'[i].camp = b /\ worker'[i].at = "mark"
        /\ worker'[i].spec.stop = doc[b].stop /\ worker[i].at = "load"
    BY <1>4, <2>1 DEF WorkerLabel
  <2>3. Heeds(i, b)'
    BY <1>3, <2>2 DEF Heeds
  <2>4. QED BY <1>2, <2>2, <2>3
<1>7. CASE Mark(i)
  <2>1. \E to \in {"top", "crashed"} : WorkerGoes(i, "mark", to)
    BY <1>7 DEF Mark, WorkerDumps
  <2>2. /\ Working(i) /\ UNCHANGED <<asked, call>>
        /\ \A j \in Launch : j # i => worker'[j] = worker[j]
        /\ worker'[i].at \in {"top", "crashed"} /\ worker[i].at = "mark"
        /\ worker'[i].camp = b \/ ~Working(i)'
    BY <1>5, <2>1 DEF WorkerLabel
  <2>3. doc'[b] = worker[i].spec
    BY <1>1, <1>3, <1>7, <2>2 DEF Mark, WorkerDumps, Dump
  <2>4. worker'[i].camp = b
    BY <2>2 DEF Working
  <2>5. Heeds(i, b)'
    BY <1>3, <2>2, <2>3, <2>4 DEF Heeds
  <2>6. QED BY <1>2, <2>2, <2>5
<1>8. CASE Top(i)
  <2>1. \E to \in {"last", "pause", "stamp", "step"} : \E x :
           /\ WorkerTakes(i, "top", to, x)
           /\ to \in {"stamp", "step"} => ~doc[b].stop
    <3>1. CASE worker[i].steps >= MaxSteps
      <4>1. WorkerTakes(i, "top", "last",
               [worker[i].spec EXCEPT !.status = "blocked", !.pid = NoPid])
        BY <1>8, <3>1 DEF Top
      <4>2. QED BY <4>1
    <3>2. CASE doc[b].stop /\ ~(worker[i].steps >= MaxSteps)
      <4>1. WorkerTakes(i, "top", "pause", Paused(worker[i], doc[b]))
        BY <1>8, <3>2 DEF Top
      <4>2. QED BY <4>1
    <3>3. CASE ~doc[b].stop /\ ~(worker[i].steps >= MaxSteps)
      <4>1. WorkerTakes(i, "top", "stamp", doc[b]) \/ WorkerTakes(i, "top", "step", doc[b])
        BY <1>8, <3>3 DEF Top
      <4>2. QED BY <3>3, <4>1
    <3>4. QED BY <3>1, <3>2, <3>3
  <2>2. /\ Working(i) /\ UNCHANGED <<asked, call>>
        /\ \A j \in Launch : j # i => worker'[j] = worker[j]
        /\ worker'[i].camp = b /\ worker[i].at = "top"
        /\ worker'[i].at \in {"last", "pause", "stamp", "step"}
        /\ worker'[i].at \in {"stamp", "step"} => ~doc[b].stop
    BY <1>4, <2>1 DEF WorkerLabel
  <2>3. Heeds(i, b)'
    BY <1>3, <2>2 DEF Heeds
  <2>4. QED BY <1>2, <2>2, <2>3
<1>9. CASE Stamp(i) \/ Step(i)
  <2>1. \E from \in {"stamp", "step"} : \E to, x :
           WorkerTakes(i, from, to, x) \/ WorkerGoes(i, from, to)
    BY <1>9 DEF Stamp, Step
  <2>2. /\ Working(i) /\ UNCHANGED <<asked, call>>
        /\ \A j \in Launch : j # i => worker'[j] = worker[j]
        /\ worker[i].at \in {"stamp", "step"}
        /\ worker'[i].camp = b \/ ~Working(i)'
    BY <1>4, <1>5, <2>1 DEF WorkerLabel
  <2>3. Heeds(i, b)'
    BY <1>3, <2>2 DEF Heeds, Working
  <2>4. QED BY <1>2, <2>2, <2>3
<1>10. CASE Save(i)
  <2>1. /\ Working(i) /\ UNCHANGED <<asked, call>> /\ worker[i].at = "save"
        /\ \A j \in Launch : j # i => worker'[j] = worker[j]
        /\ worker'[i].camp = b
    BY <1>1, <1>10 DEF Save, history, Working, TypeInv, WorkersOK, Worker
  <2>2. Heeds(i, b)'
    BY <1>3, <2>1 DEF Heeds
  <2>3. QED BY <1>2, <2>1, <2>2
<1>11. CASE Pause(i) \/ Last(i) \/ Gc(i) \/ Finally(i) \/ Release(i) \/ Crashed(i)
  <2>1. \E from \in WorkerLabel \ {"none", "dead"},
           to \in {"finally", "gc", "release", "dead", "last"} :
           WorkerGoes(i, from, to) \/ \E x : WorkerTakes(i, from, to, x)
    BY <1>11 DEF Pause, Last, Gc, Finally, Release, Crashed, WorkerDumps,
       WorkerLabel
  <2>2. /\ Working(i) /\ UNCHANGED <<asked, call>>
        /\ \A j \in Launch : j # i => worker'[j] = worker[j]
        /\ worker'[i].at \in {"finally", "gc", "release", "dead", "last"}
        /\ worker'[i].camp = b \/ ~Working(i)'
    BY <1>4, <1>5, <2>1
  <2>3. Heeds(i, b)'
    BY <2>2 DEF Heeds
  <2>4. QED BY <1>2, <2>2, <2>3
<1>12. QED
  BY <1>6, <1>7, <1>8, <1>9, <1>10, <1>11 DEF WorkerStep

LEMMA CallStepStop ==
    ASSUME TypeInv, OneHolder, StopRemembered, NEW k \in Caller, CallStep(k)
    PROVE StopRemembered'
<1> DEFINE b == call[k].camp
<1>1. /\ DOMAIN call = Caller /\ DOMAIN worker = Launch /\ DOMAIN doc = Campaign
      /\ DOMAIN asked = Campaign
  BY DEF TypeInv, CallsOK, WorkersOK, DocsOK, RestOK
<1>2. ASSUME call[k].at # "idle" PROVE b \in Campaign /\ b \in DOMAIN doc
  BY <1>1, <1>2 DEF TypeInv, CallsOK
<1>3. ASSUME UNCHANGED <<asked, worker>>, call'[k].at # "register",
             call'[k].at = "ghost" => call'[k].spec.stop,
             \A l \in Caller : l # k => call'[l] = call[l],
             \A c \in Campaign : doc[c].stop => doc'[c].stop
      PROVE StopRemembered'
  <2>1. \A c \in Campaign, i \in Launch : Heeds(i, c)'
    BY <1>3 DEF StopRemembered, Heeds
  <2>2. \A l \in Caller :
           /\ call'[l].at = "register" => asked'[call'[l].camp] # "between"
           /\ call'[l].at = "ghost" => call'[l].spec.stop
    BY <1>3 DEF StopRemembered
  <2>3. QED BY <2>1, <2>2 DEF StopRemembered, Heeds
<1>4. ASSUME NEW from \in CallLabel, NEW to \in CallLabel \ {"register"},
             CallGoes(k, from, to)
      PROVE /\ call'[k].at = to /\ call[k].at = from
            /\ \A l \in Caller : l # k => call'[l] = call[l]
  BY <1>1, <1>4 DEF CallGoes, NoCall, TypeInv, CallsOK, Call
<1>5. ASSUME NEW from \in CallLabel, NEW to \in CallLabel, NEW x,
             CallTakes(k, from, to, x)
      PROVE /\ call'[k].at = to /\ call[k].at = from /\ call'[k].camp = b
            /\ call'[k].spec = x
            /\ \A l \in Caller : l # k => call'[l] = call[l]
  BY <1>1, <1>5 DEF CallTakes, TypeInv, CallsOK, Call
<1>6. CASE StopDump(k)
  <2>1. /\ call'[k].at = "idle" /\ call[k].at = "stop"
        /\ \A l \in Caller : l # k => call'[l] = call[l]
    BY <1>4, <1>6 DEF StopDump, CallLabel
  <2>2. doc'[b].stop = TRUE /\ \A c \in Campaign : c # b => doc'[c] = doc[c]
    <3>1. call[k].spec \in Doc
      BY <2>1 DEF TypeInv, CallsOK, Call
    <3>2. QED BY <1>1, <1>2, <1>6, <2>1, <3>1 DEF StopDump, Dump, Doc
  <2>3. /\ asked' = [asked EXCEPT ![b] = Asked(b)] /\ worker' = worker
    BY <1>6 DEF StopDump
  <2>4. ASSUME Asked(b) = "between", asked[b] # "between"
        PROVE /\ thread[b] \in Launch /\ Working(thread[b])
              /\ worker[thread[b]].at \in {"created", "load", "top"}
    <3>1. thread[b] \in Launch \cup {NoLaunch}
      BY <1>2, <2>1 DEF TypeInv, RestOK
    <3>2. QED BY <2>4, <3>1 DEF Asked, Working
  <2>5. ASSUME NEW c \in Campaign, NEW i \in Launch PROVE Heeds(i, c)'
    <3>1. CASE c # b
      BY <1>1, <2>2, <2>3, <3>1 DEF StopRemembered, Heeds
    <3>2. CASE c = b /\ asked[b] = "between"
      BY <1>1, <2>2, <2>3, <3>2 DEF StopRemembered, Heeds
    <3>3. CASE c = b /\ asked[b] # "between"
      <4>1. CASE Asked(b) = "between"
        <5>1. Working(i) => i = thread[b]
          BY <2>4, <3>3, <4>1 DEF OneHolder
        <5>2. CASE Working(i)
          BY <2>2, <2>3, <2>4, <3>3, <4>1, <5>1, <5>2 DEF Heeds
        <5>3. CASE ~Working(i)
          BY <2>3, <5>3 DEF Heeds, Working
        <5>4. QED BY <5>2, <5>3
      <4>2. CASE Asked(b) # "between"
        BY <1>1, <2>3, <3>3, <4>2 DEF Heeds
      <4>3. QED BY <4>1, <4>2
    <3>4. QED BY <3>1, <3>2, <3>3
  <2>6. ASSUME NEW l \in Caller, call'[l].at = "register"
        PROVE asked'[call'[l].camp] # "between"
    <3>1. l # k /\ call'[l] = call[l] /\ call[l].at = "register"
      BY <2>1, <2>6
    <3>2. asked[call[l].camp] # "between"
      BY <3>1 DEF StopRemembered
    <3>3. \A i \in Launch : ~Working(i)
      BY <3>1 DEF OneHolder, Launching
    <3>4. CASE call[l].camp = b
      BY <1>1, <1>2, <2>1, <2>3, <2>4, <3>1, <3>2, <3>3, <3>4
    <3>5. CASE call[l].camp # b
      BY <1>1, <2>3, <3>1, <3>2, <3>5
    <3>6. QED BY <3>4, <3>5
  <2>7. \A l \in Caller : call'[l].at = "ghost" => call'[l].spec.stop
    BY <2>1 DEF StopRemembered
  <2>8. QED BY <2>5, <2>6, <2>7 DEF StopRemembered, Heeds
<1>7. CASE GhostDump(k) \/ ExtendDump(k)
  <2>1. /\ call[k].at \in {"ghost", "extended"} /\ call'[k].at \in {"alive", "resume", "idle"}
        /\ \A l \in Caller : l # k => call'[l] = call[l]
    <3>1. \E from \in {"ghost", "extended"},
             to \in {"alive", "resume", "idle"} :
             CallGoes(k, from, to)
      BY <1>7 DEF GhostDump, ExtendDump
    <3>2. QED BY <1>4, <3>1 DEF CallLabel
  <2>2. call[k].spec \in Doc
    BY <2>1 DEF TypeInv, CallsOK, Call
  <2>3. doc'[b].stop = TRUE /\ \A c \in Campaign : c # b => doc'[c] = doc[c]
    <3>1. CASE GhostDump(k)
      <4>1. call[k].spec.stop = TRUE
        BY <2>2, <3>1, DocFields DEF GhostDump, CallGoes, StopRemembered
      <4>2. QED BY <1>1, <1>2, <2>1, <3>1, <4>1 DEF GhostDump, Dump
    <3>2. CASE ExtendDump(k)
      BY <1>1, <1>2, <2>1, <2>2, <3>2 DEF ExtendDump, Dump, Doc
    <3>3. QED BY <1>7, <3>1, <3>2
  <2>4. UNCHANGED <<asked, worker>>
    BY <1>7 DEF GhostDump, ExtendDump, Rest, history
  <2>5. QED BY <1>3, <2>1, <2>3, <2>4
<1>8. CASE Reclaim(k)
  <2>1. /\ call'[k].at = "acquire"
        /\ \A l \in Caller : l # k => call'[l] = call[l]
    BY <1>4, <1>8 DEF Reclaim, CallLabel
  <2>2. \A c \in Campaign : doc[c].stop => doc'[c].stop
    <3>1. \A c \in Campaign, busy \in BOOLEAN :
             doc[c].stop => Reclaimed(c, busy).stop
      BY DEF Reclaimed, TypeInv, DocsOK, Doc
    <3>2. QED BY <1>8, <3>1 DEF Reclaim
  <2>3. UNCHANGED <<asked, worker>>
    BY <1>8 DEF Reclaim, Rest, history
  <2>4. QED BY <1>3, <2>1, <2>2, <2>3
<1>9. CASE ResumeRefused(k) \/ NotReady(k) \/ Busy(k) \/ ExtendRefused(k)
  <2>1. \E from \in CallLabel : CallGoes(k, from, "idle")
    BY <1>9 DEF ResumeRefused, NotReady, Busy, ExtendRefused, CallLabel
  <2>2. UNCHANGED <<asked, worker, doc>>
    BY <1>9 DEF ResumeRefused, NotReady, Busy, ExtendRefused, Rest, history
  <2>3. QED BY <1>3, <1>4, <2>1, <2>2 DEF CallLabel
<1>10. CASE AliveCheck(k) \/ AwaitPop(k) \/ Recheck(k) \/ DumpProtocol(k)
            \/ Acquire(k) \/ LaunchFails(k)
  <2>1. \E from \in CallLabel, to \in CallLabel \ {"register", "ghost"} :
           CallGoes(k, from, to)
    BY <1>10
       DEF AliveCheck, AwaitPop, Recheck, DumpProtocol, Acquire, LaunchFails,
           CallLabel
  <2>2. UNCHANGED <<asked, worker, doc>>
    BY <1>10
       DEF AliveCheck, AwaitPop, Recheck, DumpProtocol, Acquire, LaunchFails,
           Rest, history
  <2>3. QED BY <1>3, <1>4, <2>1, <2>2
<1>11. CASE AwaitRead(k) \/ ReadProtocol(k)
  <2>1. /\ call'[k].at \notin {"register", "ghost"}
        /\ \A l \in Caller : l # k => call'[l] = call[l]
        /\ UNCHANGED <<asked, worker, doc>>
    BY <1>1, <1>11 DEF AwaitRead, ReadProtocol, Rest, history, TypeInv,
       CallsOK, Call
  <2>2. QED BY <1>3, <2>1
<1>12. CASE ExtendLoad(k)
  <2>1. /\ call'[k].at = "read"
        /\ \A l \in Caller : l # k => call'[l] = call[l]
    BY <1>5, <1>12 DEF ExtendLoad, CallLabel
  <2>2. UNCHANGED <<asked, worker, doc>>
    BY <1>12 DEF ExtendLoad, CallTakes, history
  <2>3. QED BY <1>3, <2>1, <2>2
<1>13. CASE ResumeLoad(k)
  <2> DEFINE x == [doc[b] EXCEPT !.status = "paused", !.stop = TRUE, !.pid = NoPid,
                                 !.harvest = @ \/ MidGpuOrphan(doc[b])]
  <2>1. call[k].at = "resume" /\ UNCHANGED <<asked, worker, doc>>
    BY <1>13 DEF ResumeLoad, CallTakes, history
  <2>2. x.stop = TRUE
    <3>1. doc[b] \in Doc
      BY <1>2, <2>1 DEF TypeInv, DocsOK
    <3>2. QED BY <3>1 DEF Doc
  <2>3. CallTakes(k, "resume", "ghost", x) \/ CallTakes(k, "resume", "alive", doc[b])
    BY <1>13 DEF ResumeLoad
  <2> HIDE DEF x
  <2>4. /\ call'[k].at \in {"ghost", "alive"}
        /\ call'[k].at = "ghost" => call'[k].spec.stop
        /\ \A l \in Caller : l # k => call'[l] = call[l]
    BY <1>5, <2>2, <2>3 DEF CallLabel
  <2>5. QED BY <1>3, <2>1, <2>4
<1>14. CASE LaunchDump(k)
  <2>1. /\ call'[k].at = "register" /\ call'[k].camp = b /\ call[k].at = "dump"
        /\ \A l \in Caller : l # k => call'[l] = call[l]
    BY ZenonT(30), <1>5, <1>14 DEF LaunchDump, CallLabel
  <2>2. /\ asked' = [asked EXCEPT ![b] = "no"] /\ worker' = worker
        /\ \A c \in Campaign : c # b => doc'[c] = doc[c]
    BY <1>1, <1>14 DEF LaunchDump, CallTakes, Dump
  <2>3. \A c \in Campaign, i \in Launch : Heeds(i, c)'
    BY <1>1, <1>2, <2>1, <2>2 DEF StopRemembered, Heeds
  <2>4. ASSUME NEW l \in Caller, call'[l].at = "register"
        PROVE asked'[call'[l].camp] # "between"
    BY <1>1, <1>2, <2>1, <2>2, <2>4 DEF StopRemembered
  <2>5. \A l \in Caller : call'[l].at = "ghost" => call'[l].spec.stop
    BY <2>1 DEF StopRemembered
  <2>6. QED BY <2>3, <2>4, <2>5 DEF StopRemembered, Heeds
<1>15. CASE Register(k)
  <2> DEFINE i == launches + 1
  <2>1. i \in Launch
    BY <1>15, BoundAssumption DEF Register, TypeInv, RestOK, Launch
  <2>2. /\ call[k].at = "register" /\ call'[k].at = "spawn"
        /\ \A l \in Caller : l # k => call'[l] = call[l]
        /\ UNCHANGED <<doc, asked>>
        /\ \A j \in Launch : j # i => worker'[j] = worker[j]
        /\ worker'[i].camp = b
    BY <1>1, <1>15, <2>1
       DEF Register, NoWorker, history, TypeInv, CallsOK, Call
  <2> HIDE DEF i
  <2>3. asked[b] # "between"
    BY <2>2 DEF StopRemembered
  <2>4. \A c \in Campaign, j \in Launch : Heeds(j, c)'
    BY <2>1, <2>2, <2>3 DEF StopRemembered, Heeds
  <2>5. \A l \in Caller :
           /\ call'[l].at = "register" => asked'[call'[l].camp] # "between"
           /\ call'[l].at = "ghost" => call'[l].spec.stop
    BY <2>2 DEF StopRemembered
  <2>6. QED BY <2>4, <2>5 DEF StopRemembered, Heeds
<1>16. CASE Spawn(k)
  <2> DEFINE i == call[k].thread
  <2>1. i \in Launch /\ worker[i].at = "created"
    BY <1>16 DEF Spawn, CallGoes, OneHolder
  <2>2. /\ \A j \in Launch : j # i => worker'[j] = worker[j]
        /\ worker'[i].at = "load" /\ worker'[i].camp = worker[i].camp
        /\ UNCHANGED <<asked, doc>>
    BY <1>1, <1>16, <2>1 DEF Spawn, history, TypeInv, WorkersOK, Worker
  <2>3. /\ call'[k].at = "idle"
        /\ \A l \in Caller : l # k => call'[l] = call[l]
    BY <1>4, <1>16 DEF Spawn, CallLabel
  <2>4. \A c \in Campaign, j \in Launch : Heeds(j, c)'
    BY <2>1, <2>2 DEF StopRemembered, Heeds
  <2>5. \A l \in Caller :
           /\ call'[l].at = "register" => asked'[call'[l].camp] # "between"
           /\ call'[l].at = "ghost" => call'[l].spec.stop
    BY <2>2, <2>3 DEF StopRemembered
  <2>6. QED BY <2>4, <2>5 DEF StopRemembered, Heeds
<1>17. QED
  BY <1>6, <1>7, <1>8, <1>9, <1>10, <1>11, <1>12, <1>13, <1>14, <1>15, <1>16
     DEF CallStep

(* A stop that lands between two steps of the worker is heeded before the next
   step, whatever calls, workers and restarts write to the document. *)
THEOREM StopHeeded == Spec => []StopBetweenStepsHeeded
<1>1. Init => StopRemembered
  <2> SUFFICES ASSUME Init PROVE StopRemembered
    OBVIOUS
  <2>1. \A k \in Caller : call[k].at = "idle"
    BY DEF Init, NoCall
  <2>2. \A c \in Campaign : asked[c] = "no"
    BY DEF Init
  <2>3. QED BY <2>1, <2>2 DEF StopRemembered
<1>2. Inv /\ StopRemembered /\ [Next]_vars => StopRemembered'
  <2> SUFFICES ASSUME TypeInv, OneHolder, StopRemembered, [Next]_vars
               PROVE StopRemembered'
    BY DEF Inv
  <2>1. ASSUME NEW i \in Launch, WorkerStep(i) PROVE StopRemembered'
    BY <2>1, WorkerStepStop
  <2>2. ASSUME NEW k \in Caller, CallStep(k) PROVE StopRemembered'
    BY <2>2, CallStepStop
  <2>3. ASSUME NEW k \in Caller, NEW c \in Campaign,
               Start(k, c) \/ Stop(k, c) \/ Resume(k, c) \/ Extend(k, c)
        PROVE StopRemembered'
    <3>1. /\ UNCHANGED <<worker, doc, asked>>
          /\ \A l \in Caller : l # k => call'[l] = call[l]
          /\ call'[k].at \in {"reclaim", "stop", "resume", "extend"}
      BY <2>3 DEF Start, Stop, Resume, Extend, Begin, NoCall, TypeInv, CallsOK
    <3>2. \A d \in Campaign, i \in Launch : Heeds(i, d)'
      BY <3>1 DEF StopRemembered, Heeds
    <3>3. \A l \in Caller :
             /\ call'[l].at = "register" => asked'[call'[l].camp] # "between"
             /\ call'[l].at = "ghost" => call'[l].spec.stop
      BY <3>1 DEF StopRemembered
    <3>4. QED BY <3>2, <3>3 DEF StopRemembered, Heeds
  <2>4. ASSUME Restart PROVE StopRemembered'
    <3>1. /\ \A i \in Launch : worker'[i].at \in {"none", "dead"}
          /\ \A k \in Caller : call'[k].at = "idle"
      BY <2>4 DEF Restart, NoWorker, DeadWorker, NoCall
    <3>2. QED BY <3>1 DEF StopRemembered
  <2>5. CASE UNCHANGED vars
    BY <2>5 DEF vars, history, StopRemembered
  <2>6. QED BY <2>1, <2>2, <2>3, <2>4, <2>5 DEF Next
<1>3. StopRemembered /\ Inv => StopBetweenStepsHeeded
  BY DEF StopRemembered, StopBetweenStepsHeeded, Inv, TypeInv, WorkersOK,
     Working
<1>4. QED BY <1>1, <1>2, <1>3, InvInductive, PTL DEF Spec

(* The lease and the GPU worker match: never two workers, never a worker
   without the lease, never a lease left behind. *)
THEOREM LeaseMatched == Spec => []LeaseMatchesWorker
<1>1. OneGpuWorker /\ LeaseHasHolder => LeaseMatchesWorker
  BY DEF LeaseMatchesWorker
<1>2. QED BY <1>1, OneWorker, LeaseHeld, PTL

-----------------------------------------------------------------------------
(* As long as no two API calls overlap (calm).  A paused document and the   *)
(* rounds it counts are kept by copies: of the worker, which dumps the one  *)
(* it loaded before its step, and of the call in flight.  CalmInv says what *)
(* each copy has, whose campaign has no worker, and that a registered       *)
(* worker can be seen by every call but the one that is starting it.        *)

(* A worker that is registered, until it takes itself out; one that may yet *)
(* begin a step; and one that has a copy of the document.                   *)
Registered(i) == worker[i].at \notin {"none", "release", "dead"}
Stepping == {"created", "load", "mark", "top", "stamp", "step", "save"}
Copied == {"mark", "top", "pause", "stamp", "step", "save", "last", "gc"}

(* A copy that has every round which was granted.                           *)
Whole(d, c) == d.status # "absent" /\ d.extra = 1 + granted[c]

(* Calls that hold a copy; those that found no living worker.               *)
CopyHeld == {"stop", "ghost", "alive", "wait", "join", "recheck", "reclaim", "acquire",
             "dump", "read", "protocol", "extended"}
Unwatched == {"ghost", "extend", "read", "protocol", "extended"}

OneCall ==
    \A k, l \in Caller : call[k].at # "idle" /\ call[l].at # "idle" => k = l

WorkersKnown ==
    \A i \in Launch :
       /\ Registered(i) =>
             thread[worker[i].camp] = i /\ doc[worker[i].camp].status # "absent"
       /\ worker[i].at = "created" =>
             \E k \in Caller : call[k].at = "spawn" /\ call[k].thread = i
       /\ worker[i].at \in Stepping => doc[worker[i].camp].status # "paused"
       /\ worker[i].at \in Copied => Whole(worker[i].spec, worker[i].camp)
       /\ worker[i].at \in {"mark", "save"} => worker[i].spec.status # "paused"

RoundsKnown ==
    \A c \in Campaign :
       /\ doc[c].status = "absent" => granted[c] = 0
       /\ doc[c].status # "absent" => doc[c].extra = 1 + granted[c]
       /\ granted[c] <= protocol[c]

(* What a call knows that no other call disturbs.                           *)
Knows(r) ==
    /\ r.at \in CopyHeld => Whole(r.spec, r.camp)
    /\ r.at = "stop" => \A i \in Launch :
          worker[i].camp = r.camp /\ worker[i].at \in Stepping => r.spec.status # "paused"
    /\ r.at \in Unwatched => \A i \in Launch : worker[i].camp = r.camp => ~Registered(i)
    /\ r.at = "join" => r.thread # NoLaunch /\ thread[r.camp] \in {r.thread, NoLaunch}
    /\ r.at = "register" => doc[r.camp].status \notin {"absent", "paused"}
    /\ r.at = "protocol" => r.max = protocol[r.camp]
    /\ r.at = "extended" => granted[r.camp] + 1 <= protocol[r.camp]

CalmInv ==
    calm => /\ OneCall /\ WorkersKnown /\ RoundsKnown
            /\ \A k \in Caller : Knows(call[k])

(* What calm gives while no call is about to start a worker: a worker that  *)
(* is registered is seen to be alive.                                       *)
LEMMA CalmFacts ==
    ASSUME TypeInv, CalmInv, calm, \A k \in Caller : call[k].at # "spawn"
    PROVE /\ WorkersKnown /\ RoundsKnown
          /\ \A i \in Launch : worker[i].at # "created"
          /\ \A i \in Launch : Registered(i) =>
                /\ worker[i].camp \in Campaign /\ Alive(worker[i].camp)
                /\ thread[worker[i].camp] = i
<1>1. WorkersKnown /\ RoundsKnown
  BY DEF CalmInv
<1>2. \A i \in Launch : worker[i].at # "created"
  BY <1>1 DEF WorkersKnown
<1>3. ASSUME NEW i \in Launch, Registered(i)
      PROVE /\ worker[i].camp \in Campaign /\ Alive(worker[i].camp)
            /\ thread[worker[i].camp] = i
  <2>1. thread[worker[i].camp] = i
    BY <1>1, <1>3 DEF WorkersKnown
  <2>2. i # NoLaunch
    BY BoundAssumption DEF Launch, NoLaunch
  <2>3. Started(i)
    BY <1>2, <1>3 DEF Registered, Started
  <2>4. worker[i].camp \in Campaign
    BY <1>3 DEF Registered, TypeInv, WorkersOK, Working
  <2>5. QED BY <2>1, <2>2, <2>3, <2>4 DEF Alive
<1>4. QED BY <1>1, <1>2, <1>3

(* A step of a worker, which others do not have, and calls do not await.    *)
LEMMA WorkerCalm ==
    ASSUME TypeInv, OneHolder, CalmInv, TypeInv', calm,
           NEW i \in Launch, NEW c \in Campaign, Working(i),
              worker[i].camp = c,
           NEW w, w = worker'[i], w.at \in WorkerLabel \ {"none", "created"},
           w.at # "dead" => w.camp = c,
           \A j \in Launch : j # i => worker'[j] = worker[j],
           UNCHANGED <<protocol, call, granted>>,
           \A e \in Campaign : e # c => doc'[e] = doc[e],
           doc'[c].status = "absent" <=> doc[c].status = "absent",
           doc'[c].extra = doc[c].extra,
           \/ thread' = thread
           \/ w.at \in {"release", "dead"} /\ thread' = [thread EXCEPT ![c] = NoLaunch],
           w.at \in {"release", "dead"} \/ Registered(i),
           w.at \in Stepping => worker[i].at \in Stepping /\ doc'[c].status # "paused",
           w.at \in Copied => Whole(w.spec, c),
           w.at \in {"mark", "save"} => w.spec.status # "paused"
    PROVE CalmInv'
<1>1. OneCall /\ WorkersKnown /\ RoundsKnown /\ \A k \in Caller : Knows(call[k])
  BY DEF CalmInv
<1>2. \A j \in Launch : j # i => ~Working(j) /\ worker'[j] = worker[j]
  BY DEF OneHolder
<1>3. OneCall'
  BY <1>1 DEF OneCall
<1>4. ASSUME NEW j \in Launch, Registered(j)'
      PROVE j = i /\ worker'[j] = w /\ w.camp = c /\ Registered(i) /\ thread' = thread
  <2>1. j = i
    BY <1>2, <1>4 DEF Registered, Working
  <2>2. w.at \notin {"release", "dead"}
    BY <1>4, <2>1 DEF Registered
  <2>3. QED BY <2>1, <2>2
<1>5. WorkersKnown'
  <2>1. ASSUME NEW j \in Launch, Registered(j)'
        PROVE  /\ worker'[j] = w /\ w.camp = c /\ thread'[c] = j
               /\ doc'[c].status # "absent"
    <3>1. j = i /\ worker'[j] = w /\ w.camp = c /\ Registered(i) /\ thread' = thread
      BY <1>4, <2>1
    <3>2. QED BY <1>1, <3>1 DEF WorkersKnown
  <2>2. \A j \in Launch : worker'[j].at \in Stepping \cup Copied \cup {"created"}
           => Registered(j)'
    BY DEF Registered, Stepping, Copied
  <2>3. w.at \in Copied => w.spec.status # "absent" /\ w.spec.extra = 1 + granted'[c]
    BY DEF Whole
  <2>4. QED BY <2>1, <2>2, <2>3 DEF WorkersKnown, Whole, Copied
<1>6. RoundsKnown'
  BY <1>1 DEF RoundsKnown
<1>7. ASSUME NEW k \in Caller PROVE Knows(call[k])'
  <2>1. PICK r : r = call[k]
    OBVIOUS
  <2>2. r = call'[k] /\ Knows(r)
    BY <1>1, <2>1
  <2>3. r.at # "register"
    BY <2>1 DEF OneHolder, Launching
  <2>4. r.at \in CopyHeld => Whole(r.spec, r.camp)'
    BY <2>2 DEF Knows, Whole
  <2>5. ASSUME r.at = "stop", NEW j \in Launch, worker'[j].camp = r.camp,
               worker'[j].at \in Stepping
        PROVE r.spec.status # "paused"
    <3>1. j = i /\ worker'[j] = w /\ w.camp = c
      BY <1>4, <2>5 DEF Registered, Stepping
    <3>2. QED BY <2>2, <2>5, <3>1 DEF Knows
  <2>6. ASSUME r.at \in Unwatched, NEW j \in Launch, worker'[j].camp = r.camp
        PROVE ~Registered(j)'
    <3>1. SUFFICES ASSUME Registered(j)' PROVE FALSE
      OBVIOUS
    <3>2. j = i /\ worker'[j] = w /\ w.camp = c /\ Registered(i)
      BY <1>4, <3>1
    <3>3. QED BY <2>2, <2>6, <3>2 DEF Knows
  <2>7. r.at = "join" => r.thread # NoLaunch /\ thread'[r.camp] \in {r.thread, NoLaunch}
    <3>1. thread' = thread \/ thread' = [thread EXCEPT ![c] = NoLaunch]
      OBVIOUS
    <3>2. thread \in [Campaign -> Launch \cup {NoLaunch}]
      BY DEF TypeInv, RestOK
    <3>3. r.at = "join" => r.camp \in Campaign
      BY <2>1 DEF TypeInv, CallsOK
    <3>4. QED BY <2>2, <3>1, <3>2, <3>3 DEF Knows
  <2>8. /\ r.at = "protocol" => r.max = protocol'[r.camp]
        /\ r.at = "extended" => granted'[r.camp] + 1 <= protocol'[r.camp]
    BY <2>2 DEF Knows
  <2>9. Knows(r)'
    BY <2>3, <2>4, <2>5, <2>6, <2>7, <2>8 DEF Knows
  <2>10. QED BY <2>2, <2>9
<1>8. QED BY <1>3, <1>5, <1>6, <1>7 DEF CalmInv

LEMMA WorkerFacts ==
    ASSUME TypeInv, CalmInv, calm, NEW i \in Launch, Working(i)
    PROVE /\ worker[i] \in Worker /\ worker[i].camp \in Campaign /\ worker[i].spec \in Doc
          /\ doc[worker[i].camp] \in Doc /\ boot \in Nat
          /\ Registered(i) => Whole(doc[worker[i].camp], worker[i].camp)
          /\ worker[i].at \in Copied => Whole(worker[i].spec, worker[i].camp)
          /\ worker[i].at \in Stepping => doc[worker[i].camp].status # "paused"
          /\ worker[i].at \in {"mark", "save"} => worker[i].spec.status # "paused"
<1>1. /\ worker[i] \in Worker /\ worker[i].camp \in Campaign /\ worker[i].spec \in Doc
      /\ doc[worker[i].camp] \in Doc /\ boot \in Nat
  BY DEF TypeInv, WorkersOK, DocsOK, RestOK, Worker
<1>2. Registered(i) => Whole(doc[worker[i].camp], worker[i].camp)
  BY <1>1 DEF CalmInv, WorkersKnown, RoundsKnown, Whole
<1>3. QED BY <1>1, <1>2 DEF CalmInv, WorkersKnown

(* The worker goes on with another copy, which it may have dumped.          *)
LEMMA TakesCalm ==
    ASSUME TypeInv, OneHolder, CalmInv, TypeInv', calm,
           NEW i \in Launch, NEW c \in Campaign, worker[i].camp = c,
           NEW from \in WorkerLabel \ {"none", "dead", "release"},
           NEW to \in WorkerLabel \ {"none", "created", "dead", "release"},
           NEW x \in Doc, WorkerTakes(i, from, to, x),
           to \in Stepping => from \in Stepping,
           to \in Copied => Whole(x, c),
           to \in {"mark", "save"} => x.status # "paused",
           \/ UNCHANGED doc
           \/ Dump(c, x) /\ Whole(x, c) /\ x.status # "paused"
    PROVE CalmInv'
<1>1. Working(i) /\ Registered(i)
  BY DEF WorkerTakes, Working, Registered
<1>2. PICK w : w = worker'[i]
  OBVIOUS
<1>3. w.at = to /\ w.camp = c /\ w.spec = x
  BY <1>1, <1>2, WorkerFacts DEF WorkerTakes, TypeInv, WorkersOK, Worker
<1>4. /\ \A j \in Launch : j # i => worker'[j] = worker[j]
      /\ UNCHANGED <<protocol, call, granted, thread>>
  BY DEF WorkerTakes, history, TypeInv, WorkersOK
<1>5. /\ \A e \in Campaign : e # c => doc'[e] = doc[e]
      /\ \/ doc'[c] = doc[c]
         \/ doc'[c] = x /\ Whole(x, c) /\ x.status # "paused"
  BY DEF Dump, TypeInv, DocsOK
<1>6. /\ (doc'[c].status = "absent" <=> doc[c].status = "absent")
      /\ doc'[c].extra = doc[c].extra
      /\ from \in Stepping => doc'[c].status # "paused"
  <2>1. Whole(doc[c], c) /\ worker[i].at = from
    BY <1>1, WorkerFacts DEF WorkerTakes
  <2>2. from \in Stepping => doc[c].status # "paused"
    BY <1>1, <2>1, WorkerFacts
  <2>3. doc[c].status # "absent" /\ doc[c].extra = 1 + granted[c]
    BY <2>1 DEF Whole
  <2>4. CASE doc'[c] = doc[c]
    BY <2>2, <2>4
  <2>5. CASE doc'[c] = x /\ Whole(x, c) /\ x.status # "paused"
    BY <2>3, <2>5 DEF Whole
  <2>6. QED BY <1>5, <2>4, <2>5
<1>7. /\ w.at \in WorkerLabel \ {"none", "created"} /\ Working(i) /\ worker[i].camp = c
      /\ w.at \in Stepping => worker[i].at \in Stepping /\ doc'[c].status # "paused"
      /\ w.at \in Copied => Whole(w.spec, c)
      /\ w.at \in {"mark", "save"} => w.spec.status # "paused"
  BY <1>1, <1>3, <1>6 DEF WorkerTakes
<1>8. QED BY <1>1, <1>2, <1>3, <1>4, <1>5, <1>6, <1>7, WorkerCalm

(* The worker dumps the copy it has.                                        *)
LEMMA DumpsCalm ==
    ASSUME TypeInv, OneHolder, CalmInv, TypeInv', calm,
           NEW i \in Launch, NEW c \in Campaign, worker[i].camp = c,
           NEW from \in Copied \ {"stamp", "step", "save"},
           NEW to \in {"top", "crashed", "finally", "gc"},
              WorkerDumps(i, from, to),
           to = "top" => from = "mark"
    PROVE CalmInv'
<1>1. /\ Working(i) /\ Registered(i) /\ worker[i].at = from
      /\ worker' = [worker EXCEPT ![i].at = to]
  BY DEF WorkerDumps, WorkerGoes, Working, Registered, Copied
<1>2. PICK w : w = worker'[i]
  OBVIOUS
<1>3. w.at = to /\ w.camp = c /\ w.spec = worker[i].spec
  BY <1>1, <1>2, WorkerFacts DEF TypeInv, WorkersOK, Worker
<1>4. /\ \A j \in Launch : j # i => worker'[j] = worker[j]
      /\ UNCHANGED <<protocol, call, granted, thread>>
  BY <1>1 DEF WorkerDumps, WorkerGoes, history, TypeInv, WorkersOK
<1>5. /\ \A e \in Campaign : e # c => doc'[e] = doc[e]
      /\ doc'[c] = w.spec
  BY <1>3 DEF WorkerDumps, Dump, TypeInv, DocsOK
<1>6. /\ Whole(w.spec, c) /\ Whole(doc[c], c)
      /\ from = "mark" => w.spec.status # "paused"
  BY <1>1, <1>3, WorkerFacts
<1>7. /\ (doc'[c].status = "absent" <=> doc[c].status = "absent")
      /\ doc'[c].extra = doc[c].extra
      /\ w.at \in Stepping => worker[i].at \in Stepping /\ doc'[c].status # "paused"
      /\ w.at \notin {"mark", "save"} /\ w.at \in WorkerLabel \ {"none", "created"}
  BY <1>1, <1>3, <1>5, <1>6 DEF Whole, Stepping, WorkerLabel
<1>8. QED BY <1>1, <1>2, <1>3, <1>4, <1>5, <1>6, <1>7, WorkerCalm

LEMMA WorkerStepCalm ==
    ASSUME TypeInv, OneHolder, CalmInv, TypeInv', calm, NEW i \in Launch,
           WorkerStep(i)
    PROVE CalmInv'
<1>1. PICK w : w = worker[i]
  OBVIOUS
<1>2. Working(i)
  BY DEF WorkerStep, Working, Load, Mark, Top, Pause, Stamp, Step, Save, Last,
     Gc, Crashed, Finally, Release, WorkerTakes, WorkerDumps, WorkerGoes
<1>3. PICK c \in Campaign : c = w.camp
  BY <1>1, <1>2, WorkerFacts
<1>4. PICK d \in Doc : d = doc[c]
  BY <1>1, <1>2, <1>3, WorkerFacts
<1>5. /\ w \in Worker /\ w.spec \in Doc /\ boot \in Nat
      /\ Registered(i) => Whole(d, c)
      /\ w.at \in Copied => Whole(w.spec, c)
  BY <1>1, <1>2, <1>3, <1>4, WorkerFacts
<1>6. CASE Load(i)
  <2>1. PICK x : x = [d EXCEPT !.status = "running", !.pid = boot]
    OBVIOUS
  <2>2. x \in Doc
    BY <1>5, <2>1, DocTypes DEF Status, Live
  <2>3. x.status = "running" /\ x.extra = d.extra
    BY <2>1 DEF Doc
  <2>4. WorkerTakes(i, "load", "mark", x) /\ UNCHANGED doc
    BY <1>1, <1>3, <1>4, <1>6, <2>1 DEF Load
  <2>5. Whole(x, c)
    <3>1. Whole(d, c)
      BY <1>5, <2>4 DEF WorkerTakes, Registered
    <3>2. QED BY <2>3, <3>1 DEF Whole
  <2>6. QED BY <1>1, <1>3, <2>2, <2>3, <2>4, <2>5, TakesCalm DEF WorkerLabel,
           Stepping
<1>7. CASE Mark(i) \/ Pause(i) \/ Last(i) \/ Gc(i)
  BY <1>1, <1>3, <1>7, DumpsCalm DEF Mark, Pause, Last, Gc, Copied
<1>8. CASE Top(i)
  <2>1. w.at = "top" /\ UNCHANGED doc
    BY <1>1, <1>8 DEF Top
  <2>2. Whole(d, c) /\ Whole(w.spec, c)
    BY <1>1, <1>5, <2>1 DEF Registered, Copied
  <2>3. \E to \in {"last", "pause", "stamp", "step"}, x \in Doc :
           WorkerTakes(i, "top", to, x) /\ Whole(x, c)
    <3>1. PICK x : x = [w.spec EXCEPT !.status = "blocked", !.pid = NoPid]
      OBVIOUS
    <3>2. x \in Doc /\ Whole(x, c)
      <4>1. x \in Doc
        BY <1>5, <3>1, DocTypes DEF Status, Final, NoPid
      <4>2. x.status = "blocked" /\ x.extra = w.spec.extra
        BY <1>5, <3>1 DEF Doc
      <4>3. QED BY <2>2, <4>1, <4>2 DEF Whole
    <3>3. PICK p : p = Paused(w, d)
      OBVIOUS
    <3>4. p \in Doc /\ Whole(p, c)
      <4>1. PICK a \in LastAction : a = IF w.steps = 0 THEN d.action ELSE w.spec.action
        BY <1>5, DocFields
      <4>2. p = [d EXCEPT !.status = "paused", !.pid = NoPid, !.action = a]
        BY <3>3, <4>1 DEF Paused, Doc
      <4>3. p \in Doc
        BY <4>2, DocTypes DEF Status, NoPid
      <4>4. p.status = "paused" /\ p.extra = d.extra
        BY <4>2 DEF Doc
      <4>5. QED BY <2>2, <4>3, <4>4 DEF Whole
    <3>5. \/ WorkerTakes(i, "top", "last", x) \/ WorkerTakes(i, "top", "pause", p)
          \/ WorkerTakes(i, "top", "stamp", d) \/ WorkerTakes(i, "top", "step", d)
      BY <1>1, <1>3, <1>4, <1>8, <3>1, <3>3 DEF Top
    <3>6. QED BY <2>2, <3>2, <3>4, <3>5
  <2>4. QED BY <1>1, <1>3, <2>1, <2>3, TakesCalm DEF WorkerLabel, Stepping
<1>9. CASE Stamp(i)
  <2>1. PICK x : x = [w.spec EXCEPT !.status = "waiting_gpu", !.pid = boot,
                                    !.action = "NEED_EXECUTION"]
    OBVIOUS
  <2>2. x \in Doc
    BY <1>5, <2>1, DocTypes DEF Status, Live, LastAction
  <2>3. x.status = "waiting_gpu" /\ x.extra = w.spec.extra
    BY <1>5, <2>1 DEF Doc
  <2>4. w.at = "stamp"
    BY <1>1, <1>9 DEF Stamp, WorkerTakes, WorkerGoes
  <2>5. Whole(w.spec, c) /\ Whole(x, c)
    BY <1>5, <2>3, <2>4 DEF Copied, Whole
  <2>6. CASE WorkerTakes(i, "stamp", "step", x) /\ Dump(c, x)
    BY <1>1, <1>3, <2>2, <2>3, <2>5, <2>6, TakesCalm DEF WorkerLabel, Stepping
  <2>7. CASE WorkerGoes(i, "stamp", "step") /\ UNCHANGED <<doc, thread, leased, lease>>
    <3>1. worker' = [worker EXCEPT ![i].at = "step", ![i].spec = w.spec]
      BY <1>1, <1>5, <2>7 DEF WorkerGoes, TypeInv, WorkersOK, Worker
    <3>2. WorkerTakes(i, "stamp", "step", w.spec)
      BY <2>7, <3>1 DEF WorkerTakes, WorkerGoes
    <3>3. QED BY <1>1, <1>3, <1>5, <2>5, <2>7, <3>2,
             TakesCalm DEF WorkerLabel, Stepping
  <2>8. QED BY <1>1, <1>3, <1>9, <2>1, <2>6, <2>7 DEF Stamp
<1>10. CASE Step(i)
  <2>1. w.at = "step" /\ UNCHANGED doc
    BY <1>1, <1>10 DEF Step, WorkerTakes
  <2>2. Whole(w.spec, c)
    BY <1>5, <2>1 DEF Copied
  <2>3. PICK to \in {"crashed", "save", "last"}, x \in Doc :
           /\ WorkerTakes(i, "step", to, x) /\ x.extra = w.spec.extra
           /\ to # "crashed" => x.status # "absent"
           /\ to = "save" => x.status # "paused"
    <3>1. CASE WorkerTakes(i, "step", "crashed", w.spec)
      BY <1>5, <3>1
    <3>2. ASSUME NEW a \in LastAction, NEW s \in {"running", "waiting_gpu"},
                 WorkerTakes(i, "step", "save",
                   [w.spec EXCEPT !.status = s, !.action = a, !.pid = boot,
                      !.harvest = IF a = "NEED_EXECUTION" THEN FALSE ELSE @])
          PROVE \E x \in Doc : /\ WorkerTakes(i, "step", "save", x)
                               /\ x.extra = w.spec.extra /\ x.status = s
      <4>1. PICK h \in BOOLEAN : h = IF a = "NEED_EXECUTION" THEN FALSE ELSE w.spec.harvest
        BY <1>5, DocFields
      <4>2. PICK x : x = [w.spec EXCEPT !.status = s, !.action = a, !.pid = boot,
                                        !.harvest = h]
        OBVIOUS
      <4>3. x \in Doc
        BY <1>5, <4>2, DocTypes DEF Status, Live
      <4>4. x.extra = w.spec.extra /\ x.status = s
        BY <1>5, <4>2 DEF Doc
      <4>5. x = [w.spec EXCEPT !.status = s, !.action = a, !.pid = boot,
                   !.harvest = IF a = "NEED_EXECUTION" THEN FALSE ELSE @]
        BY <1>5, <4>1, <4>2 DEF Doc
      <4>6. QED BY <3>2, <4>3, <4>4, <4>5
    <3>3. ASSUME NEW a \in LastAction,
                 NEW s \in {"completed", "blocked", "waiting_human"},
                 WorkerTakes(i, "step", "last",
                   [w.spec EXCEPT !.status = s, !.action = a, !.pid = NoPid])
          PROVE \E x \in Doc : /\ WorkerTakes(i, "step", "last", x)
                               /\ x.extra = w.spec.extra /\ x.status = s
      <4>1. PICK x : x = [w.spec EXCEPT !.status = s, !.action = a, !.pid = NoPid]
        OBVIOUS
      <4>2. x \in Doc
        BY <1>5, <4>1, DocTypes DEF Status, Final, NoPid
      <4>3. x.extra = w.spec.extra /\ x.status = s
        BY <1>5, <4>1 DEF Doc
      <4>4. QED BY <3>3, <4>1, <4>2, <4>3
    <3>4. QED BY <1>1, <1>10, <3>1, <3>2, <3>3 DEF Step
  <2>4. to # "crashed" => Whole(x, c)
    BY <2>2, <2>3 DEF Whole
  <2>5. QED BY <1>1, <1>3, <2>1, <2>3, <2>4, TakesCalm DEF WorkerLabel,
           Stepping, Copied
<1>11. CASE Crashed(i)
  <2>1. PICK x : x = [d EXCEPT !.status = "failed", !.pid = NoPid]
    OBVIOUS
  <2>2. x \in Doc
    BY <2>1, DocTypes DEF Status, Final, NoPid
  <2>3. x.status = "failed" /\ x.extra = d.extra
    BY <2>1 DEF Doc
  <2>4. WorkerTakes(i, "crashed", "last", x) /\ UNCHANGED doc
    BY <1>1, <1>3, <1>4, <1>11, <2>1 DEF Crashed
  <2>5. Whole(x, c)
    <3>1. Whole(d, c)
      BY <1>5, <2>4 DEF WorkerTakes, Registered
    <3>2. QED BY <2>3, <3>1 DEF Whole
  <2>6. QED BY <1>1, <1>3, <2>2, <2>3, <2>4, <2>5, TakesCalm DEF WorkerLabel,
           Stepping
<1>12. CASE Save(i)
  <2>1. /\ w.at = "save" /\ worker' = [worker EXCEPT ![i].at = "top", ![i].steps = @ + 1]
        /\ Dump(c, w.spec) /\ UNCHANGED <<protocol, thread, call, granted>>
    BY <1>1, <1>3, <1>12 DEF Save, history
  <2>2. Whole(w.spec, c) /\ Whole(d, c) /\ w.spec.status # "paused"
    BY <1>1, <1>2, <1>5, <2>1, WorkerFacts DEF Copied, Registered
  <2>3. PICK v : v = worker'[i]
    OBVIOUS
  <2>4. v.at = "top" /\ v.camp = c /\ v.spec = w.spec
    BY <1>1, <1>3, <2>1, <2>3 DEF TypeInv, WorkersOK, Worker
  <2>5. /\ \A j \in Launch : j # i => worker'[j] = worker[j]
        /\ doc'[c] = w.spec /\ \A e \in Campaign : e # c => doc'[e] = doc[e]
    BY <2>1 DEF Dump, TypeInv, DocsOK, WorkersOK
  <2>6. /\ (doc'[c].status = "absent" <=> doc[c].status = "absent")
        /\ doc'[c].extra = doc[c].extra /\ doc'[c].status # "paused"
    BY <1>4, <2>2, <2>5 DEF Whole
  <2>7. Registered(i) /\ worker[i].at \in Stepping /\ "top" \in WorkerLabel
    BY <1>1, <2>1 DEF Registered, Stepping, WorkerLabel
  <2>8. QED BY <1>1, <1>2, <1>3, <2>1, <2>2, <2>3, <2>4, <2>5, <2>6, <2>7,
           WorkerCalm
<1>13. CASE Finally(i) \/ Release(i)
  <2>1. PICK v : v = worker'[i]
    OBVIOUS
  <2>2. /\ v.at \in {"release", "dead"}
        /\ v.at # "dead" => v.camp = c
        /\ \A j \in Launch : j # i => worker'[j] = worker[j]
    BY <1>1, <1>3, <1>13, <2>1
       DEF Finally, Release, WorkerGoes, TypeInv, WorkersOK, Worker, DeadWorker
  <2>3. /\ UNCHANGED <<doc, protocol, call, granted>>
        /\ thread' = thread \/ thread' = [thread EXCEPT ![c] = NoLaunch]
    BY <1>1, <1>3, <1>13 DEF Finally, Release, WorkerGoes, history
  <2>4. /\ v.at \in WorkerLabel \ {"none", "created"}
        /\ v.at \notin Stepping /\ v.at \notin Copied /\ v.at \notin {"mark", "save"}
    BY <2>2 DEF WorkerLabel, Stepping, Copied
  <2>5. QED BY <1>1, <1>2, <1>3, <2>1, <2>2, <2>3, <2>4, WorkerCalm
<1>14. QED
  BY <1>6, <1>7, <1>8, <1>9, <1>10, <1>11, <1>12, <1>13 DEF WorkerStep

(* What holds of the one call in flight, unless it is about to start its    *)
(* worker.                                                                  *)
LEMMA CallFacts ==
    ASSUME TypeInv, CalmInv, calm, NEW k \in Caller,
           call[k].at \notin {"idle", "spawn"}
    PROVE /\ call[k] \in Call /\ call[k].camp \in Campaign /\ call[k].spec \in Doc
          /\ doc[call[k].camp] \in Doc /\ Knows(call[k])
          /\ \A l \in Caller : l # k => call[l].at = "idle"
          /\ \A l \in Caller : call[l].at # "spawn"
<1>1. /\ call[k] \in Call /\ call[k].camp \in Campaign /\ call[k].spec \in Doc
      /\ doc[call[k].camp] \in Doc
  BY DEF TypeInv, CallsOK, DocsOK, Call
<1>2. Knows(call[k]) /\ \A l \in Caller : l # k => call[l].at = "idle"
  BY DEF CalmInv, OneCall
<1>3. QED BY <1>1, <1>2

(* A step of the call in flight, by which no worker moves.                  *)
LEMMA CallCalm ==
    ASSUME TypeInv, CalmInv, calm, NEW k \in Caller,
           \A l \in Caller : l # k => call[l].at = "idle" /\ call'[l] = call[l],
           call[k].at # "spawn", UNCHANGED worker, RoundsKnown',
           \A i \in Launch : Registered(i) =>
              /\ thread'[worker[i].camp] = i
              /\ doc'[worker[i].camp].status # "absent"
              /\ granted'[worker[i].camp] = granted[worker[i].camp]
              /\ worker[i].at \in Stepping => doc'[worker[i].camp].status # "paused",
           NEW r, r = call'[k], Knows(r)'
    PROVE CalmInv'
<1>1. WorkersKnown /\ \A i \in Launch : worker[i].at # "created"
  BY CalmFacts
<1>2. OneCall'
  BY DEF OneCall
<1>3. WorkersKnown'
  <2>1. ASSUME NEW i \in Launch
        PROVE /\ worker'[i] = worker[i] /\ Registered(i)' = Registered(i)
              /\ worker[i].at \in Stepping \cup Copied => Registered(i)
    BY DEF Registered, Stepping, Copied
  <2>2. ASSUME NEW i \in Launch, worker[i].at \in Copied
        PROVE Whole(worker[i].spec, worker[i].camp)'
    BY <1>1, <2>1, <2>2 DEF WorkersKnown, Whole
  <2>3. QED BY <1>1, <2>1, <2>2 DEF WorkersKnown
<1>4. ASSUME NEW l \in Caller PROVE Knows(call[l])'
  <2>1. CASE l = k
    BY <2>1
  <2>2. CASE l # k
    <3>1. call'[l].at = "idle"
      BY <2>2
    <3>2. QED BY <3>1 DEF Knows, CopyHeld, Unwatched
  <2>3. QED BY <2>1, <2>2
<1>5. QED BY <1>2, <1>3, <1>4 DEF CalmInv

(* A step by which only the call in flight moves.                           *)
LEMMA CallStays ==
    ASSUME TypeInv, CalmInv, calm, NEW k \in Caller,
           call[k].at \notin {"idle", "spawn"},
           \A l \in Caller : l # k => call'[l] = call[l],
           UNCHANGED <<doc, protocol, thread, worker, granted>>,
           NEW r, r = call'[k], Knows(r)
    PROVE CalmInv'
<1>1. /\ \A l \in Caller : l # k => call[l].at = "idle"
      /\ \A l \in Caller : call[l].at # "spawn"
  BY CallFacts
<1>2. RoundsKnown /\ WorkersKnown
  BY <1>1, CalmFacts
<1>3. RoundsKnown'
  BY <1>2 DEF RoundsKnown
<1>4. Knows(r)'
  BY DEF Knows, Whole, Registered
<1>5. \A i \in Launch : Registered(i) =>
         /\ thread'[worker[i].camp] = i
         /\ doc'[worker[i].camp].status # "absent"
         /\ granted'[worker[i].camp] = granted[worker[i].camp]
         /\ worker[i].at \in Stepping => doc'[worker[i].camp].status # "paused"
  BY <1>2 DEF WorkersKnown
<1>6. QED BY <1>1, <1>3, <1>4, <1>5, CallCalm

(* The calls that go on with what they have.                                *)
LEMMA GoesCalm ==
    ASSUME TypeInv, CalmInv, calm, NEW k \in Caller,
           NEW from \in CallLabel \ {"idle", "spawn"}, NEW to,
              CallGoes(k, from, to),
           UNCHANGED <<doc, protocol, thread, worker, granted>>,
           to # "idle" => /\ to \in CopyHeld \ {"stop", "join"} /\ from \in CopyHeld
                          /\ to \notin Unwatched
    PROVE CalmInv'
<1>1. /\ call[k].at = from /\ DOMAIN call = Caller
      /\ \A l \in Caller : l # k => call'[l] = call[l]
  BY DEF CallGoes, TypeInv, CallsOK
<1>2. PICK r : r = call'[k]
  OBVIOUS
<1>3. call[k] \in Call /\ Knows(call[k])
  BY <1>1, CallFacts
<1>4. Knows(r)
  <2>1. CASE to = "idle"
    <3>1. r.at = "idle"
      BY <1>1, <1>2, <2>1 DEF CallGoes, NoCall
    <3>2. QED BY <3>1 DEF Knows, CopyHeld, Unwatched
  <2>2. CASE to # "idle"
    <3>1. r.at = to /\ r.camp = call[k].camp /\ r.spec = call[k].spec
      BY <1>1, <1>2, <1>3, <2>2 DEF CallGoes, Call
    <3>2. Whole(call[k].spec, call[k].camp)
      BY <1>1, <1>3, <2>2 DEF Knows
    <3>3. r.at \notin {"stop", "join", "register", "protocol", "extended"}
          /\ r.at \notin Unwatched
      BY <2>2, <3>1 DEF CopyHeld, Unwatched
    <3>4. QED BY <3>1, <3>2, <3>3 DEF Knows
  <2>3. QED BY <2>1, <2>2
<1>5. QED BY <1>1, <1>2, <1>4, CallStays

(* Stop, and the documents a call dumps of a campaign that no worker has.   *)
LEMMA CallDumps ==
    ASSUME TypeInv, CalmInv, calm, NEW k \in Caller, NEW c \in Campaign,
           call[k].at \notin {"idle", "spawn"}, call[k].camp = c,
           \A l \in Caller : l # k => call'[l] = call[l],
           UNCHANGED <<protocol, thread, worker, granted>>,
           NEW x \in Doc, Dump(c, x), Whole(x, c),
           \A i \in Launch :
              worker[i].camp = c /\ worker[i].at \in Stepping => x.status # "paused",
           NEW r, r = call'[k], Knows(r)'
    PROVE CalmInv'
<1>1. /\ \A l \in Caller : l # k => call[l].at = "idle"
      /\ \A l \in Caller : call[l].at # "spawn"
  BY CallFacts
<1>2. RoundsKnown /\ WorkersKnown
  BY <1>1, CalmFacts
<1>3. doc'[c] = x /\ \A e \in Campaign : e # c => doc'[e] = doc[e]
  BY DEF Dump, TypeInv, DocsOK
<1>4. RoundsKnown'
  BY <1>2, <1>3 DEF RoundsKnown, Whole
<1>5. ASSUME NEW i \in Launch, Registered(i)
      PROVE /\ thread'[worker[i].camp] = i
            /\ doc'[worker[i].camp].status # "absent"
            /\ granted'[worker[i].camp] = granted[worker[i].camp]
            /\ worker[i].at \in Stepping => doc'[worker[i].camp].status # "paused"
  <2>1. worker[i].camp \in Campaign
    BY <1>5 DEF TypeInv, WorkersOK, Working, Registered
  <2>2. QED BY <1>2, <1>3, <1>5, <2>1 DEF WorkersKnown, Whole
<1>6. QED BY <1>1, <1>4, <1>5, CallCalm

LEMMA StopCalm ==
    ASSUME TypeInv, CalmInv, calm, NEW k \in Caller, StopDump(k)
    PROVE CalmInv'
<1>1. PICK c : c = call[k].camp
  OBVIOUS
<1>2. PICK d : d = call[k].spec
  OBVIOUS
<1>3. call[k].at = "stop"
  BY DEF StopDump, CallGoes
<1>4. c \in Campaign /\ d \in Doc /\ Knows(call[k])
  BY <1>1, <1>2, <1>3, CallFacts
<1>5. PICK s : s = IF d.status \notin Live THEN d.status
                   ELSE IF Alive(c) THEN "pause_requested" ELSE "paused"
  OBVIOUS
<1>6. s \in Status /\ s # "absent"
  BY <1>1, <1>2, <1>3, <1>4, <1>5 DEF Knows, CopyHeld, Whole, Doc, Status, Live
<1>7. PICK x : x = [d EXCEPT !.stop = TRUE, !.status = s]
  OBVIOUS
<1>8. x \in Doc /\ x.status = s /\ x.extra = d.extra
  <2>1. x \in Doc
    BY <1>4, <1>6, <1>7, DocTypes
  <2>2. x.status = s /\ x.extra = d.extra
    BY <1>4, <1>7 DEF Doc
  <2>3. QED BY <2>1, <2>2
<1>9. x = [d EXCEPT !.stop = TRUE,
              !.status = IF @ \notin Live THEN @
                         ELSE IF Alive(c) THEN "pause_requested" ELSE "paused"]
  BY <1>4, <1>5, <1>7 DEF Doc
<1>10. Dump(c, x)
  BY <1>1, <1>2, <1>9 DEF StopDump
<1>11. Whole(x, c)
  BY <1>1, <1>2, <1>3, <1>4, <1>6, <1>8 DEF Knows, CopyHeld, Whole
<1>12. ASSUME NEW i \in Launch, worker[i].camp = c, worker[i].at \in Stepping
       PROVE x.status # "paused"
  <2>1. Registered(i) /\ d.status # "paused"
    BY <1>1, <1>2, <1>3, <1>4, <1>12 DEF Knows, Registered, Stepping
  <2>2. Alive(c)
    BY <1>3, <1>12, <2>1, CallFacts, CalmFacts
  <2>3. QED BY <1>5, <1>8, <2>1, <2>2
<1>13. PICK r : r = call'[k]
  OBVIOUS
<1>14. r.at = "idle" /\ \A l \in Caller : l # k => call'[l] = call[l]
  BY <1>13 DEF StopDump, CallGoes, NoCall, TypeInv, CallsOK
<1>15. Knows(r)'
  BY <1>14 DEF Knows, CopyHeld, Unwatched
<1>16. UNCHANGED <<protocol, thread, worker, granted>>
  BY DEF StopDump
<1>17. QED
  BY <1>1, <1>3, <1>4, <1>8, <1>10, <1>11, <1>12, <1>13, <1>14, <1>15, <1>16,
     CallDumps

LEMMA GhostCalm ==
    ASSUME TypeInv, CalmInv, calm, NEW k \in Caller, GhostDump(k)
    PROVE CalmInv'
<1>1. PICK c : c = call[k].camp
  OBVIOUS
<1>2. PICK d : d = call[k].spec
  OBVIOUS
<1>3. call[k].at = "ghost" /\ Dump(c, d) /\ UNCHANGED <<protocol, thread, worker, granted>>
  BY <1>1, <1>2 DEF GhostDump, CallGoes, Rest, history
<1>4. /\ c \in Campaign /\ d \in Doc /\ Whole(d, c) /\ call[k] \in Call
      /\ \A i \in Launch : worker[i].camp = c => ~Registered(i)
  BY <1>1, <1>2, <1>3, CallFacts DEF Knows, CopyHeld, Unwatched
<1>5. PICK r : r = call'[k]
  OBVIOUS
<1>6. /\ r.at = "alive" /\ r.camp = c /\ r.spec = d
      /\ \A l \in Caller : l # k => call'[l] = call[l]
  BY <1>1, <1>2, <1>5 DEF GhostDump, CallGoes, TypeInv, CallsOK, Call
<1>7. Knows(r)'
  BY <1>3, <1>4, <1>6 DEF Knows, Unwatched, Whole
<1>8. \A i \in Launch :
         worker[i].camp = c /\ worker[i].at \in Stepping => d.status # "paused"
  BY <1>4 DEF Registered, Stepping
<1>9. QED BY <1>1, <1>3, <1>4, <1>5, <1>6, <1>7, <1>8, CallDumps

LEMMA LaunchCalm ==
    ASSUME TypeInv, OneHolder, CalmInv, calm, NEW k \in Caller, LaunchDump(k)
    PROVE CalmInv'
<1>1. PICK c : c = call[k].camp
  OBVIOUS
<1>2. PICK d : d = call[k].spec
  OBVIOUS
<1>3. PICK x : x = [d EXCEPT !.stop = FALSE, !.status = "queued", !.harvest = FALSE]
  OBVIOUS
<1>4. /\ call[k].at = "dump" /\ Dump(c, x)
      /\ UNCHANGED <<protocol, thread, worker, granted>>
  BY <1>1, <1>2, <1>3 DEF LaunchDump, CallTakes
<1>5. /\ c \in Campaign /\ d \in Doc /\ Whole(d, c) /\ call[k] \in Call
      /\ \A l \in Caller : call[l].at # "spawn"
  BY <1>1, <1>2, <1>4, CallFacts DEF Knows, CopyHeld
<1>6. x \in Doc
  BY <1>3, <1>5, DocTypes DEF Status, Live
<1>7. x.status = "queued" /\ x.extra = d.extra
  BY <1>3, <1>5 DEF Doc
<1>8. \A i \in Launch : ~Registered(i)
  BY <1>4 DEF OneHolder, Launching, Working, Registered
<1>9. PICK r : r = call'[k]
  OBVIOUS
<1>10. /\ r.at = "register" /\ r.camp = c
       /\ \A l \in Caller : l # k => call'[l] = call[l]
  BY <1>1, <1>5, <1>9 DEF LaunchDump, CallTakes, TypeInv, CallsOK, Call
<1>11. doc'[c] = x
  BY <1>4, <1>5 DEF Dump, TypeInv, DocsOK
<1>12. Knows(r)'
  BY <1>7, <1>10, <1>11 DEF Knows, CopyHeld, Unwatched
<1>13. Whole(x, c)
  BY <1>5, <1>7 DEF Whole
<1>14. \A i \in Launch :
          worker[i].camp = c /\ worker[i].at \in Stepping => x.status # "paused"
  BY <1>7
<1>15. QED
  BY <1>1, <1>4, <1>5, <1>6, <1>9, <1>10, <1>12, <1>13, <1>14, CallDumps

(* reclaim_orphaned_campaigns leaves running campaigns alone.               *)
LEMMA ReclaimCalm ==
    ASSUME TypeInv, CalmInv, calm, NEW k \in Caller, Reclaim(k)
    PROVE CalmInv'
<1>1. call[k].at = "reclaim" /\ UNCHANGED <<protocol, thread, worker, granted>>
  BY DEF Reclaim, CallGoes, Rest, history
<1>2. /\ \A l \in Caller : l # k => call[l].at = "idle"
      /\ \A l \in Caller : call[l].at # "spawn"
      /\ Knows(call[k]) /\ call[k] \in Call
  BY <1>1, CallFacts
<1>3. /\ RoundsKnown /\ WorkersKnown
      /\ \A i \in Launch : Registered(i) =>
            worker[i].camp \in Campaign /\ Alive(worker[i].camp)
  BY <1>2, CalmFacts
<1>4. ASSUME NEW e \in Campaign
      PROVE /\ Alive(e) => doc'[e] = doc[e]
            /\ doc'[e].status = "absent" <=> doc[e].status = "absent"
            /\ doc'[e].extra = doc[e].extra
  <2>1. PICK busy \in BOOLEAN :
           doc' = [g \in Campaign |-> IF Alive(g) THEN doc[g] ELSE Reclaimed(g, busy)]
    BY DEF Reclaim
  <2>2. /\ Reclaimed(e, busy).status = "absent" <=> doc[e].status = "absent"
        /\ Reclaimed(e, busy).extra = doc[e].extra
    BY DEF Reclaimed, Live, TypeInv, DocsOK, Doc
  <2>3. QED BY <2>1, <2>2
<1>5. RoundsKnown'
  BY <1>1, <1>3, <1>4 DEF RoundsKnown
<1>6. ASSUME NEW i \in Launch, Registered(i)
      PROVE /\ thread'[worker[i].camp] = i
            /\ doc'[worker[i].camp].status # "absent"
            /\ granted'[worker[i].camp] = granted[worker[i].camp]
            /\ worker[i].at \in Stepping => doc'[worker[i].camp].status # "paused"
  BY <1>1, <1>3, <1>4, <1>6 DEF WorkersKnown
<1>7. PICK r : r = call'[k]
  OBVIOUS
<1>8. /\ r.at = "acquire" /\ r.camp = call[k].camp /\ r.spec = call[k].spec
      /\ \A l \in Caller : l # k => call'[l] = call[l]
  BY <1>2, <1>7 DEF Reclaim, CallGoes, TypeInv, CallsOK, Call
<1>9. Knows(r)'
  BY <1>1, <1>2, <1>8 DEF Knows, CopyHeld, Unwatched, Whole
<1>10. QED BY <1>1, <1>2, <1>5, <1>6, <1>7, <1>8, <1>9, CallCalm

(* A wait drops the entry of the thread it read, and of no other.           *)
LEMMA AwaitCalm ==
    ASSUME TypeInv, CalmInv, calm, NEW k \in Caller, AwaitPop(k)
    PROVE CalmInv'
<1>1. PICK c : c = call[k].camp
  OBVIOUS
<1>2. call[k].at = "join" /\ UNCHANGED <<doc, protocol, worker, granted>>
  BY DEF AwaitPop, CallGoes, history
<1>3. /\ \A l \in Caller : l # k => call[l].at = "idle"
      /\ \A l \in Caller : call[l].at # "spawn"
      /\ Knows(call[k]) /\ call[k] \in Call /\ c \in Campaign
  BY <1>1, <1>2, CallFacts
<1>4. /\ RoundsKnown /\ WorkersKnown /\ \A i \in Launch : worker[i].at # "created"
      /\ \A i \in Launch : Registered(i) =>
            worker[i].camp \in Campaign /\ Alive(worker[i].camp)
  BY <1>3, CalmFacts
<1>5. RoundsKnown'
  BY <1>2, <1>4 DEF RoundsKnown
<1>6. ASSUME NEW i \in Launch, Registered(i) PROVE thread'[worker[i].camp] = i
  <2>1. thread[worker[i].camp] = i /\ Started(i)
    BY <1>4, <1>6 DEF WorkersKnown, Registered, Started
  <2>2. CASE worker[i].camp = c
    <3>1. i # NoLaunch
      BY BoundAssumption DEF Launch, NoLaunch
    <3>2. call[k].thread = i
      BY <1>1, <1>2, <1>3, <2>1, <2>2, <3>1 DEF Knows
    <3>3. Started(call[k].thread) /\ Alive(c)
      BY <1>4, <1>6, <2>1, <2>2, <3>2
    <3>4. QED BY <1>1, <2>1, <3>3 DEF AwaitPop
  <2>3. CASE worker[i].camp # c
    BY <1>1, <1>4, <1>6, <2>1, <2>3 DEF AwaitPop, TypeInv, RestOK
  <2>4. QED BY <2>2, <2>3
<1>7. ASSUME NEW i \in Launch, Registered(i)
      PROVE /\ thread'[worker[i].camp] = i
            /\ doc'[worker[i].camp].status # "absent"
            /\ granted'[worker[i].camp] = granted[worker[i].camp]
            /\ worker[i].at \in Stepping => doc'[worker[i].camp].status # "paused"
  BY <1>2, <1>4, <1>6, <1>7 DEF WorkersKnown
<1>8. PICK r : r = call'[k]
  OBVIOUS
<1>9. /\ r.at = "recheck" /\ r.camp = call[k].camp /\ r.spec = call[k].spec
      /\ \A l \in Caller : l # k => call'[l] = call[l]
  BY <1>3, <1>8 DEF AwaitPop, CallGoes, TypeInv, CallsOK, Call
<1>10. Knows(r)'
  BY <1>2, <1>3, <1>9 DEF Knows, CopyHeld, Unwatched, Whole
<1>11. QED BY <1>2, <1>3, <1>5, <1>7, <1>8, <1>9, <1>10, CallCalm

(* An extension writes protocol.json first, campaign.json after it.         *)
LEMMA ProtocolCalm ==
    ASSUME TypeInv, CalmInv, calm, NEW k \in Caller, DumpProtocol(k)
    PROVE CalmInv'
<1>1. PICK c : c = call[k].camp
  OBVIOUS
<1>2. call[k].at = "protocol" /\ UNCHANGED <<doc, thread, worker, granted>>
  BY DEF DumpProtocol, CallGoes, history
<1>3. /\ \A l \in Caller : l # k => call[l].at = "idle"
      /\ \A l \in Caller : call[l].at # "spawn"
      /\ Knows(call[k]) /\ call[k] \in Call /\ c \in Campaign
  BY <1>1, <1>2, CallFacts
<1>4. RoundsKnown /\ WorkersKnown
  BY <1>3, CalmFacts
<1>5. /\ protocol \in [Campaign -> Nat] /\ granted \in [Campaign -> Nat]
      /\ protocol' = [protocol EXCEPT ![c] = protocol[c] + 1]
  BY <1>1, <1>2, <1>3 DEF DumpProtocol, Knows, TypeInv, RestOK
<1>6. /\ protocol[c] \in Nat /\ granted[c] \in Nat /\ protocol'[c] = protocol[c] + 1
      /\ granted[c] <= protocol[c]
      /\ \A e \in Campaign : e # c => protocol'[e] = protocol[e]
  BY <1>3, <1>4, <1>5 DEF RoundsKnown
<1>7. granted[c] + 1 <= protocol'[c] /\ granted[c] <= protocol'[c]
  BY <1>6
<1>8. RoundsKnown'
  BY <1>2, <1>4, <1>6, <1>7 DEF RoundsKnown
<1>9. \A i \in Launch : Registered(i) =>
         /\ thread'[worker[i].camp] = i
         /\ doc'[worker[i].camp].status # "absent"
         /\ granted'[worker[i].camp] = granted[worker[i].camp]
         /\ worker[i].at \in Stepping => doc'[worker[i].camp].status # "paused"
  BY <1>2, <1>4 DEF WorkersKnown
<1>10. PICK r : r = call'[k]
  OBVIOUS
<1>11. /\ r.at = "extended" /\ r.camp = c /\ r.spec = call[k].spec
       /\ \A l \in Caller : l # k => call'[l] = call[l]
  BY <1>1, <1>3, <1>10 DEF DumpProtocol, CallGoes, TypeInv, CallsOK, Call
<1>12. Knows(r)'
  <2>1. granted'[r.camp] + 1 <= protocol'[r.camp]
    BY <1>2, <1>7, <1>11
  <2>2. Whole(r.spec, r.camp)' /\ \A i \in Launch :
           worker'[i].camp = r.camp => ~Registered(i)'
    BY <1>1, <1>2, <1>3, <1>11 DEF Knows, CopyHeld, Unwatched, Whole,
       Registered
  <2>3. QED BY <1>11, <2>1, <2>2 DEF Knows
<1>13. QED BY <1>2, <1>3, <1>8, <1>9, <1>10, <1>11, <1>12, CallCalm

LEMMA ExtendedCalm ==
    ASSUME TypeInv, CalmInv, calm, NEW k \in Caller, ExtendDump(k)
    PROVE CalmInv'
<1>1. PICK c : c = call[k].camp
  OBVIOUS
<1>2. PICK d : d = call[k].spec
  OBVIOUS
<1>3. call[k].at = "extended" /\ UNCHANGED <<protocol, thread, worker>>
  BY DEF ExtendDump, CallGoes
<1>4. /\ \A l \in Caller : l # k => call[l].at = "idle"
      /\ \A l \in Caller : call[l].at # "spawn"
      /\ Knows(call[k]) /\ call[k] \in Call /\ c \in Campaign /\ d \in Doc
  BY <1>1, <1>2, <1>3, CallFacts
<1>5. RoundsKnown /\ WorkersKnown
  BY <1>4, CalmFacts
<1>6. /\ d.status # "absent" /\ d.extra = 1 + granted[c]
      /\ granted[c] + 1 <= protocol[c]
      /\ \A i \in Launch : worker[i].camp = c => ~Registered(i)
  BY <1>1, <1>2, <1>3, <1>4 DEF Knows, CopyHeld, Unwatched, Whole
<1>7. PICK n : n = d.extra + 1
  OBVIOUS
<1>8. /\ doc'[c] = [d EXCEPT !.extra = n, !.status = "paused", !.stop = TRUE]
      /\ \A e \in Campaign : e # c => doc'[e] = doc[e] /\ granted'[e] = granted[e]
      /\ granted'[c] = granted[c] + 1 /\ granted[c] \in Nat
  BY <1>1, <1>2, <1>4, <1>7 DEF ExtendDump, Dump, TypeInv, DocsOK, RestOK, Doc
<1>9. doc'[c].status = "paused" /\ doc'[c].extra = n
  BY <1>4, <1>8 DEF Doc
<1>10. n = 1 + granted'[c] /\ granted'[c] <= protocol'[c]
  <2>1. granted'[c] = granted[c] + 1 /\ granted[c] \in Nat /\ d.extra = 1 + granted[c]
    BY <1>6, <1>8
  <2>2. n = 1 + granted'[c]
    BY <1>7, <2>1
  <2>3. QED BY <1>3, <1>6, <1>8, <2>2
<1>11. RoundsKnown'
  BY <1>3, <1>5, <1>8, <1>9, <1>10 DEF RoundsKnown
<1>12. ASSUME NEW i \in Launch, Registered(i)
       PROVE /\ thread'[worker[i].camp] = i
             /\ doc'[worker[i].camp].status # "absent"
             /\ granted'[worker[i].camp] = granted[worker[i].camp]
             /\ worker[i].at \in Stepping => doc'[worker[i].camp].status # "paused"
  <2>1. worker[i].camp \in Campaign /\ worker[i].camp # c
    BY <1>6, <1>12 DEF TypeInv, WorkersOK, Working, Registered
  <2>2. QED BY <1>3, <1>5, <1>8, <1>12, <2>1 DEF WorkersKnown
<1>13. PICK r : r = call'[k]
  OBVIOUS
<1>14. /\ r.at \in {"resume", "idle"}
       /\ \A l \in Caller : l # k => call'[l] = call[l]
  BY <1>4, <1>13 DEF ExtendDump, CallGoes, NoCall, TypeInv, CallsOK, Call
<1>15. Knows(r)'
  BY <1>14 DEF Knows, CopyHeld, Unwatched
<1>16. QED BY <1>3, <1>4, <1>11, <1>12, <1>13, <1>14, <1>15, CallCalm

(* What there is to know of the workers when only one may be registered.    *)
LEMMA OneAlone ==
    ASSUME NEW i \in Launch,
           \A j \in Launch : j # i => worker'[j].at \in {"none", "dead"},
           thread'[worker'[i].camp] = i,
           doc'[worker'[i].camp].status \notin {"absent", "paused"},
           worker'[i].at = "created" =>
              \E k \in Caller : call'[k].at = "spawn" /\ call'[k].thread = i,
           worker'[i].at \notin Copied
    PROVE WorkersKnown'
<1>1. worker'[i].at \notin {"mark", "save"}
  BY DEF Copied
<1>2. ASSUME NEW j \in Launch, j # i
      PROVE worker'[j].at \notin Stepping \cup Copied /\ ~Registered(j)'
            /\ worker'[j].at \notin {"created", "mark", "save"}
  BY <1>2 DEF Registered, Stepping, Copied
<1>3. QED BY <1>1, <1>2 DEF WorkersKnown

(* The worker is registered before it is started.                           *)
LEMMA RegisterCalm ==
    ASSUME TypeInv, OneHolder, CalmInv, calm, NEW k \in Caller, Register(k)
    PROVE CalmInv'
<1>1. PICK c : c = call[k].camp
  OBVIOUS
<1>2. PICK i : i = launches + 1
  OBVIOUS
<1>3. /\ call[k].at = "register" /\ UNCHANGED <<doc, protocol, granted>>
      /\ call' = [call EXCEPT ![k].at = "spawn", ![k].thread = i]
      /\ worker' = [worker EXCEPT ![i] = [NoWorker EXCEPT !.at = "created", !.camp = c]]
      /\ thread' = [thread EXCEPT ![c] = i]
  BY <1>1, <1>2 DEF Register, history
<1>4. i \in Launch
  BY <1>2, BoundAssumption DEF Register, TypeInv, RestOK, Launch
<1>5. /\ \A l \in Caller : l # k => call[l].at = "idle"
      /\ \A l \in Caller : call[l].at # "spawn"
      /\ Knows(call[k]) /\ call[k] \in Call /\ c \in Campaign
  BY <1>1, <1>3, CallFacts
<1>6. RoundsKnown /\ doc[c].status \notin {"absent", "paused"}
  BY <1>1, <1>3, <1>5 DEF CalmInv, Knows
<1>7. \A j \in Launch : ~Working(j)
  BY <1>3 DEF OneHolder, Launching
<1>8. /\ worker'[i].at = "created" /\ worker'[i].camp = c /\ thread'[c] = i
      /\ \A j \in Launch : j # i => worker'[j].at \in {"none", "dead"}
  BY <1>3, <1>4, <1>5, <1>7 DEF TypeInv, WorkersOK, RestOK, NoWorker, Working
<1>9. /\ call'[k].at = "spawn" /\ call'[k].thread = i
      /\ \A l \in Caller : l # k => call'[l].at = "idle"
  BY <1>3, <1>5 DEF TypeInv, CallsOK, Call
<1>10. RoundsKnown' /\ OneCall'
  BY <1>3, <1>6, <1>9 DEF RoundsKnown, OneCall
<1>11. WorkersKnown'
  <2>1. /\ thread'[worker'[i].camp] = i
        /\ doc'[worker'[i].camp].status \notin {"absent", "paused"}
    BY <1>3, <1>6, <1>8
  <2>2. \E l \in Caller : call'[l].at = "spawn" /\ call'[l].thread = i
    BY <1>9
  <2>3. worker'[i].at \notin Copied
    BY <1>8 DEF Copied
  <2>4. QED BY <1>4, <1>8, <2>1, <2>2, <2>3, OneAlone
<1>12. ASSUME NEW l \in Caller PROVE Knows(call[l])'
  <2>1. call'[l].at \in {"spawn", "idle"}
    BY <1>9
  <2>2. QED BY <2>1 DEF Knows, CopyHeld, Unwatched
<1>13. QED BY <1>10, <1>11, <1>12 DEF CalmInv

LEMMA SpawnCalm ==
    ASSUME TypeInv, OneHolder, CalmInv, calm, NEW k \in Caller, Spawn(k)
    PROVE CalmInv'
<1>1. PICK i : i = call[k].thread
  OBVIOUS
<1>2. /\ call[k].at = "spawn" /\ call' = [call EXCEPT ![k] = NoCall]
      /\ worker' = [worker EXCEPT ![i].at = "load"]
      /\ UNCHANGED <<doc, protocol, thread, granted>>
  BY <1>1 DEF Spawn, CallGoes, history
<1>3. i \in Launch /\ worker[i].at = "created"
  BY <1>1, <1>2 DEF OneHolder
<1>4. \A j \in Launch : j # i => ~Working(j)
  BY <1>3 DEF OneHolder, Working
<1>5. /\ OneCall /\ WorkersKnown /\ RoundsKnown
      /\ \A l \in Caller : l # k => call[l].at = "idle"
  BY <1>2 DEF CalmInv, OneCall
<1>6. Registered(i) /\ worker[i].at \in Stepping
  BY <1>3 DEF Registered, Stepping
<1>7. /\ worker'[i].at = "load" /\ worker'[i].camp = worker[i].camp
      /\ \A j \in Launch : j # i => worker'[j].at \in {"none", "dead"}
  BY <1>2, <1>3, <1>4 DEF TypeInv, WorkersOK, Worker, Working
<1>8. \A l \in Caller : call'[l].at = "idle"
  BY <1>2, <1>5 DEF TypeInv, CallsOK, NoCall
<1>9. RoundsKnown' /\ OneCall'
  BY <1>2, <1>5, <1>8 DEF RoundsKnown, OneCall
<1>10. WorkersKnown'
  <2>1. /\ thread'[worker'[i].camp] = i /\ doc'[worker'[i].camp].status # "absent"
        /\ doc'[worker'[i].camp].status # "paused"
    BY <1>2, <1>3, <1>5, <1>6, <1>7 DEF WorkersKnown
  <2>2. worker'[i].at # "created" /\ worker'[i].at \notin Copied
    BY <1>7 DEF Copied
  <2>3. doc'[worker'[i].camp].status \notin {"absent", "paused"}
    BY <2>1
  <2>4. QED BY <1>3, <1>7, <2>1, <2>2, <2>3, OneAlone
<1>11. ASSUME NEW l \in Caller PROVE Knows(call[l])'
  BY <1>8 DEF Knows, CopyHeld, Unwatched
<1>12. QED BY <1>9, <1>10, <1>11 DEF CalmInv

(* The calls that look at a registry or a document before they go on.       *)
LEMMA LooksCalm ==
    ASSUME TypeInv, CalmInv, calm, NEW k \in Caller,
           ResumeLoad(k) \/ ExtendLoad(k) \/ AwaitRead(k) \/ ReadProtocol(k)
    PROVE CalmInv'
<1>1. PICK c : c = call[k].camp
  OBVIOUS
<1>2. call[k].at \in {"resume", "extend", "wait", "read"}
  BY DEF ResumeLoad, ExtendLoad, AwaitRead, ReadProtocol, CallTakes
<1>3. PICK d : d = doc[c]
  OBVIOUS
<1>4. /\ \A l \in Caller : call[l].at # "spawn"
      /\ Knows(call[k]) /\ call[k] \in Call /\ c \in Campaign /\ d \in Doc
  BY <1>1, <1>2, <1>3, CallFacts
<1>5. /\ RoundsKnown
      /\ \A i \in Launch : Registered(i) =>
            worker[i].camp \in Campaign /\ Alive(worker[i].camp)
  BY <1>4, CalmFacts
<1>6. PICK r : r = call'[k]
  OBVIOUS
<1>7. /\ \A l \in Caller : l # k => call'[l] = call[l]
      /\ UNCHANGED <<doc, protocol, thread, worker, granted>>
  BY DEF ResumeLoad, ExtendLoad, AwaitRead, ReadProtocol, CallTakes, Rest,
     history, TypeInv, CallsOK
<1>8. d.status # "absent" => Whole(d, c)
  BY <1>3, <1>4, <1>5 DEF RoundsKnown, Whole
<1>9. Knows(r)
  <2>1. CASE ResumeLoad(k)
    <3>1. CASE /\ ~Alive(c) /\ (Ghost(d) \/ MidGpuOrphan(d))
               /\ CallTakes(k, "resume", "ghost",
                     [d EXCEPT !.status = "paused", !.stop = TRUE, !.pid = NoPid,
                               !.harvest = @ \/ MidGpuOrphan(d)])
      <4>1. PICK x : x = [d EXCEPT !.status = "paused", !.stop = TRUE, !.pid = NoPid,
                                   !.harvest = @ \/ MidGpuOrphan(d)]
        OBVIOUS
      <4>2. x.status = "paused" /\ x.extra = d.extra
        BY <1>4, <4>1 DEF Doc
      <4>3. call' = [call EXCEPT ![k].at = "ghost", ![k].spec = x]
        BY <3>1, <4>1 DEF CallTakes
      <4>4. r.at = "ghost" /\ r.camp = c /\ r.spec = x
        BY <1>1, <1>4, <1>6, <4>3 DEF TypeInv, CallsOK, Call
      <4>5. Whole(x, c)
        BY <1>8, <3>1, <4>2 DEF Ghost, MidGpuOrphan, Whole
      <4>6. \A i \in Launch : worker[i].camp = r.camp => ~Registered(i)
        BY <1>5, <3>1, <4>4
      <4>7. QED BY <4>4, <4>5, <4>6 DEF Knows
    <3>2. CASE Resumable(d) /\ CallTakes(k, "resume", "alive", d)
      <4>1. r.at = "alive" /\ r.camp = c /\ r.spec = d
        BY <1>1, <1>4, <1>6, <3>2 DEF CallTakes, TypeInv, CallsOK, Call
      <4>2. Whole(d, c)
        BY <1>8, <3>2 DEF Resumable, Final
      <4>3. QED BY <4>1, <4>2 DEF Knows, Unwatched
    <3>3. QED BY <1>1, <1>3, <2>1, <3>1, <3>2 DEF ResumeLoad
  <2>2. CASE ExtendLoad(k)
    <3>1. r.at = "read" /\ r.camp = c /\ r.spec = d
      BY <1>1, <1>3, <1>4, <1>6, <2>2 DEF ExtendLoad, CallTakes, TypeInv,
         CallsOK, Call
    <3>2. Whole(d, c) /\ call[k].at = "extend"
      BY <1>1, <1>3, <1>8, <2>2 DEF ExtendLoad, CallTakes, Extendable
    <3>3. \A i \in Launch : worker[i].camp = r.camp => ~Registered(i)
      BY <1>1, <1>4, <3>1, <3>2 DEF Knows, Unwatched
    <3>4. QED BY <3>1, <3>2, <3>3 DEF Knows
  <2>3. CASE AwaitRead(k)
    <3>1. PICK t : t = thread[c]
      OBVIOUS
    <3>2. call[k].at = "wait" /\ Whole(call[k].spec, c)
      BY <1>1, <1>4, <2>3 DEF AwaitRead, Knows, CopyHeld
    <3>3. /\ r.at = IF t = NoLaunch THEN "recheck" ELSE "join"
          /\ r.camp = c /\ r.spec = call[k].spec /\ r.thread = t
      BY <1>1, <1>4, <1>6, <2>3, <3>1 DEF AwaitRead, TypeInv, CallsOK, Call
    <3>4. QED BY <3>1, <3>2, <3>3 DEF Knows, Unwatched
  <2>4. CASE ReadProtocol(k)
    <3>1. call[k].at = "read"
      BY <2>4 DEF ReadProtocol
    <3>2. /\ r.at = "protocol" /\ r.camp = c /\ r.spec = call[k].spec
          /\ r.max = protocol[c]
      BY <1>1, <1>4, <1>6, <2>4 DEF ReadProtocol, TypeInv, CallsOK, Call
    <3>3. /\ Whole(r.spec, c)
          /\ \A i \in Launch : worker[i].camp = r.camp => ~Registered(i)
      BY <1>1, <1>4, <3>1, <3>2 DEF Knows, CopyHeld, Unwatched
    <3>4. QED BY <3>2, <3>3 DEF Knows
  <2>5. QED BY <2>1, <2>2, <2>3, <2>4
<1>10. QED BY <1>2, <1>6, <1>7, <1>9, CallStays

LEMMA CallStepCalm ==
    ASSUME TypeInv, OneHolder, CalmInv, calm, NEW k \in Caller, CallStep(k)
    PROVE CalmInv'
<1>1. CASE StopDump(k) \/ GhostDump(k) \/ AwaitPop(k) \/ Reclaim(k)
  BY <1>1, StopCalm, GhostCalm, AwaitCalm, ReclaimCalm
<1>2. CASE LaunchDump(k) \/ DumpProtocol(k) \/ ExtendDump(k)
  BY <1>2, LaunchCalm, ProtocolCalm, ExtendedCalm
<1>3. CASE Register(k) \/ Spawn(k)
  BY <1>3, RegisterCalm, SpawnCalm
<1>4. CASE ResumeLoad(k) \/ ExtendLoad(k) \/ AwaitRead(k) \/ ReadProtocol(k)
  BY <1>4, LooksCalm
<1>5. CASE AliveCheck(k) \/ Recheck(k) \/ Acquire(k)
  <2>1. \E from \in {"alive", "recheck", "acquire"},
           to \in {"wait", "reclaim", "dump", "idle"} : CallGoes(k, from, to)
    BY <1>5 DEF AliveCheck, Recheck, Acquire
  <2>2. UNCHANGED <<doc, protocol, thread, worker, granted>>
    BY <1>5 DEF AliveCheck, Recheck, Acquire, Rest, history
  <2>3. QED BY <2>1, <2>2, GoesCalm DEF CallLabel, CopyHeld, Unwatched
<1>6. CASE ResumeRefused(k) \/ NotReady(k) \/ Busy(k) \/ LaunchFails(k) \/ ExtendRefused(k)
  <2>1. \E from \in {"resume", "reclaim", "acquire", "dump", "extend"} :
           CallGoes(k, from, "idle")
    BY <1>6 DEF ResumeRefused, NotReady, Busy, LaunchFails, ExtendRefused
  <2>2. UNCHANGED <<doc, protocol, thread, worker, granted>>
    BY <1>6 DEF ResumeRefused, NotReady, Busy, LaunchFails, ExtendRefused,
       Rest, history
  <2>3. QED BY <2>1, <2>2, GoesCalm DEF CallLabel
<1>7. QED BY <1>1, <1>2, <1>3, <1>4, <1>5, <1>6 DEF CallStep

LEMMA BeginCalm ==
    ASSUME TypeInv, CalmInv, NEW k \in Caller, NEW c \in Campaign, NEW spec,
           NEW to,
           Begin(k, c, to, spec),
           \/ to = "reclaim" /\ spec = Fresh(boot) /\ doc[c].status = "absent"
           \/ to = "stop" /\ spec = doc[c] /\ doc[c].status # "absent"
           \/ to = "resume"
           \/ to = "extend" /\ ~Alive(c)
    PROVE CalmInv'
<1> SUFFICES ASSUME calm' PROVE CalmInv'
  BY DEF CalmInv
<1>1. calm /\ \A l \in Caller : call[l].at = "idle"
  BY DEF Begin
<1>2. /\ RoundsKnown /\ WorkersKnown
      /\ \A i \in Launch : Registered(i) => Alive(worker[i].camp)
  BY <1>1, CalmFacts
<1>3. UNCHANGED <<doc, protocol, thread, worker, granted>>
  BY DEF Begin
<1>4. PICK r : r = call'[k]
  OBVIOUS
<1>5. /\ r.at = to /\ r.camp = c /\ r.spec = spec
      /\ \A l \in Caller : l # k => call'[l] = call[l]
  BY <1>4 DEF Begin, NoCall, TypeInv, CallsOK
<1>6. Knows(r)
  <2>1. CASE to = "reclaim" /\ spec = Fresh(boot) /\ doc[c].status = "absent"
    <3>1. granted[c] = 0 /\ spec.status = "queued" /\ spec.extra = 1
      BY <1>2, <2>1 DEF RoundsKnown, Fresh, Absent
    <3>2. QED BY <1>5, <2>1, <3>1 DEF Knows, Whole, Unwatched
  <2>2. CASE to = "stop" /\ spec = doc[c] /\ doc[c].status # "absent"
    <3>1. Whole(spec, c)
      BY <1>2, <2>2 DEF RoundsKnown, Whole
    <3>2. \A i \in Launch :
             worker[i].camp = c /\ worker[i].at \in Stepping => spec.status # "paused"
      BY <1>2, <2>2 DEF WorkersKnown
    <3>3. QED BY <1>5, <2>2, <3>1, <3>2 DEF Knows, Unwatched
  <2>3. CASE to = "resume"
    BY <1>5, <2>3 DEF Knows, CopyHeld, Unwatched
  <2>4. CASE to = "extend" /\ ~Alive(c)
    BY <1>2, <1>5, <2>4 DEF Knows, CopyHeld
  <2>5. QED BY <2>1, <2>2, <2>3, <2>4
<1>7. /\ RoundsKnown' /\ Knows(r)'
      /\ \A i \in Launch : Registered(i) =>
            /\ thread'[worker[i].camp] = i
            /\ doc'[worker[i].camp].status # "absent"
            /\ granted'[worker[i].camp] = granted[worker[i].camp]
            /\ worker[i].at \in Stepping => doc'[worker[i].camp].status # "paused"
  BY <1>2, <1>3, <1>6 DEF RoundsKnown, WorkersKnown, Knows, Whole, Registered
<1>8. call[k].at # "spawn" /\ UNCHANGED worker
      /\ \A l \in Caller : l # k => call[l].at = "idle" /\ call'[l] = call[l]
  BY <1>1, <1>3, <1>5
<1>9. QED BY <1>1, <1>4, <1>7, <1>8, CallCalm

LEMMA RestartCalm ==
    ASSUME TypeInv, CalmInv, Restart
    PROVE CalmInv'
<1> SUFFICES ASSUME calm' PROVE CalmInv'
  BY DEF CalmInv
<1>1. calm /\ RoundsKnown
  BY DEF Restart, history, CalmInv
<1>2. \A k \in Caller : call'[k].at = "idle"
  BY DEF Restart, NoCall
<1>3. \A i \in Launch : worker'[i].at \in {"none", "dead"}
  BY DEF Restart, NoWorker, DeadWorker
<1>4. ASSUME NEW c \in Campaign
      PROVE /\ doc'[c].status = "absent" <=> doc[c].status = "absent"
            /\ doc'[c].extra = doc[c].extra
  <2>1. PICK busy \in BOOLEAN : doc' = [e \in Campaign |-> Reclaimed(e, busy)]
    BY DEF Restart
  <2>2. /\ Reclaimed(c, busy).status = "absent" <=> doc[c].status = "absent"
        /\ Reclaimed(c, busy).extra = doc[c].extra
    BY DEF Reclaimed, Live, TypeInv, DocsOK, Doc
  <2>3. QED BY <2>1, <2>2
<1>5. RoundsKnown'
  BY <1>1, <1>4 DEF Restart, history, RoundsKnown
<1>6. OneCall' /\ \A k \in Caller : Knows(call[k])'
  BY <1>2 DEF OneCall, Knows, CopyHeld, Unwatched
<1>7. WorkersKnown'
  BY <1>3 DEF WorkersKnown, Registered, Stepping, Copied
<1>8. QED BY <1>5, <1>6, <1>7 DEF CalmInv

(* CalmInv is what the next two theorems rest on.                           *)
LEMMA CalmHolds == Spec => []CalmInv
<1>1. Init => CalmInv
  <2> SUFFICES ASSUME Init PROVE CalmInv
    OBVIOUS
  <2>1. /\ \A i \in Launch : worker[i].at = "none"
        /\ \A k \in Caller : call[k].at = "idle"
        /\ \A c \in Campaign :
              doc[c].status = "absent" /\ granted[c] = 0 /\ protocol[c] = 0
    BY DEF Init, NoWorker, NoCall, Absent
  <2>2. OneCall /\ RoundsKnown /\ WorkersKnown
    BY <2>1 DEF OneCall, RoundsKnown, WorkersKnown, Registered, Stepping,
       Copied
  <2>3. \A k \in Caller : Knows(call[k])
    BY <2>1 DEF Knows, CopyHeld, Unwatched
  <2>4. QED BY <2>2, <2>3 DEF CalmInv
<1>2. Inv /\ CalmInv /\ Inv' /\ [Next]_vars => CalmInv'
  <2> SUFFICES ASSUME TypeInv, OneHolder, CalmInv, TypeInv', [Next]_vars
      PROVE CalmInv'
    BY DEF Inv
  <2>1. ASSUME NEW i \in Launch, WorkerStep(i) PROVE CalmInv'
    <3>1. calm' = calm
      BY <2>1
         DEF WorkerStep, Load, Mark, Top, Pause, Stamp, Step, Save, Last, Gc,
             Crashed, Finally, Release, WorkerTakes, WorkerDumps, WorkerGoes,
             history
    <3>2. QED BY <2>1, <3>1, WorkerStepCalm DEF CalmInv
  <2>2. ASSUME NEW k \in Caller, CallStep(k) PROVE CalmInv'
    <3>1. calm' = calm
      <4>1. CASE \/ StopDump(k) \/ ResumeLoad(k) \/ ResumeRefused(k) \/ GhostDump(k)
                 \/ AliveCheck(k) \/ AwaitRead(k) \/ AwaitPop(k) \/ Recheck(k)
                 \/ Reclaim(k) \/ NotReady(k) \/ Acquire(k)
        BY <4>1
           DEF StopDump, ResumeLoad, ResumeRefused, GhostDump, AliveCheck,
               AwaitRead, AwaitPop, Recheck, Reclaim, NotReady, Acquire, Rest,
               history
      <4>2. CASE \/ Busy(k) \/ LaunchDump(k) \/ LaunchFails(k) \/ Register(k) \/ Spawn(k)
                 \/ ExtendLoad(k) \/ ExtendRefused(k) \/ ReadProtocol(k) \/ DumpProtocol(k)
                 \/ ExtendDump(k)
        BY <4>2 DEF Busy, LaunchDump, LaunchFails, Register, Spawn, ExtendLoad,
                    ExtendRefused, ReadProtocol, DumpProtocol, ExtendDump,
                       Rest, history
      <4>3. QED BY <2>2, <4>1, <4>2 DEF CallStep
    <3>2. QED BY <2>2, <3>1, CallStepCalm DEF CalmInv
  <2>3. ASSUME NEW k \in Caller, NEW c \in Campaign,
               Start(k, c) \/ Stop(k, c) \/ Resume(k, c) \/ Extend(k, c)
        PROVE CalmInv'
    BY <2>3, BeginCalm DEF Start, Stop, Resume, Extend
  <2>4. CASE Restart
    BY <2>4, RestartCalm
  <2>5. CASE UNCHANGED vars
    BY <2>5
       DEF vars, history, CalmInv, OneCall, WorkersKnown, RoundsKnown, Knows,
           Whole, Registered
  <2>6. QED BY <2>1, <2>2, <2>3, <2>4, <2>5 DEF Next
<1>3. QED BY <1>1, <1>2, InvInductive, PTL DEF Spec

(* As long as no two API calls overlap, a campaign that reads paused has no
   worker inside a step, and none that is about to begin one: what resume and
   the console take "paused" to mean. *)
THEOREM PausedIsIdle == Spec => []PausedMeansIdle
<1>1. CalmInv => PausedMeansIdle
  BY DEF CalmInv, WorkersKnown, Stepping, PausedMeansIdle
<1>2. QED BY <1>1, CalmHolds, PTL

(* As long as no two API calls overlap, no worker's older copy takes a granted
   round away, whenever the worker, the calls and the restarts of the server
   dump campaign.json, and protocol.json is never behind it. *)
THEOREM GrantsKept == Spec => []ExtensionsKept
<1>1. CalmInv => ExtensionsKept
  BY DEF CalmInv, RoundsKnown, ExtensionsKept
<1>2. QED BY <1>1, CalmHolds, PTL

-----------------------------------------------------------------------------
(* The lease.  Campaign takes acquire_live_execute and release as one step  *)
(* each; LiveGpuLease has their file operations, by the threads of several  *)
(* processes.                                                               *)

(* The lease variables keep their types. *)
THEOREM LeaseTypes == LeaseSpec => []LeaseTypeOK
<1>1. LeaseInit => LeaseTypeOK
  BY DEF LeaseInit, LeaseTypeOK, Label, Acquiring
<1>2. LeaseTypeOK /\ [LeaseNext]_leaseVars => LeaseTypeOK'
  <2> SUFFICES ASSUME LeaseTypeOK, [LeaseNext]_leaseVars PROVE LeaseTypeOK'
    OBVIOUS
  <2> USE HostAssumption DEF LeaseTypeOK, Label, Acquiring, Holding, LeaseFile
  <2>1. ASSUME NEW t \in Thread, NEW o \in Owner, BeginAcquire(t, o)
        PROVE LeaseTypeOK'
    BY <2>1 DEF BeginAcquire, Goto
  <2>2. ASSUME NEW t \in Thread, NEW from \in Label, Refuse(t, from)
        PROVE LeaseTypeOK'
    BY <2>2 DEF Refuse, Goto
  <2>3. ASSUME NEW t \in Thread, CheckLease(t) PROVE LeaseTypeOK'
    BY <2>2, <2>3 DEF CheckLease, Goto
  <2>4. ASSUME NEW t \in Thread, CheckRows(t) \/ DockerBusy(t)
        PROVE LeaseTypeOK'
    BY <2>2, <2>4 DEF CheckRows, DockerBusy, Goto
  <2>5. ASSUME NEW t \in Thread, ReadStale(t) PROVE LeaseTypeOK'
    BY <2>2, <2>5 DEF ReadStale, Goto
  <2>6. ASSUME NEW t \in Thread, UnlinkStale(t) \/ Remove(t) PROVE LeaseTypeOK'
    BY <2>6 DEF UnlinkStale, Remove, Goto
  <2>7. ASSUME NEW t \in Thread, Create(t) PROVE LeaseTypeOK'
    BY <2>2, <2>7 DEF Create, Goto
  <2>8. ASSUME NEW t \in Thread, Write(t) PROVE LeaseTypeOK'
    <3>1. pc' \in [Thread -> Label] BY <2>8 DEF Write, Goto
    <3>2. own[t] \in Owner \cup {NoOwner} /\ HostOf[t] \in Process
      OBVIOUS
    <3>3. file' \in LeaseFile \cup {NoFile}
      BY <2>8, <3>2 DEF Write
    <3>4. QED BY <2>8, <3>1, <3>3 DEF Write
  <2>9. ASSUME NEW t \in Thread, Publish(t) \/ Retire(t) PROVE LeaseTypeOK'
    BY <2>9 DEF Publish, Retire, Goto
  <2>10. ASSUME NEW t \in Thread, ReadOwner(t) PROVE LeaseTypeOK'
    BY <2>2, <2>10 DEF ReadOwner, Goto
  <2>11. ASSUME NEW p \in Process, Crash(p) PROVE LeaseTypeOK'
    BY <2>11 DEF Crash
  <2>12. CASE UNCHANGED leaseVars
    BY <2>12 DEF leaseVars
  <2>13. QED
    BY <2>1, <2>3, <2>4, <2>5, <2>6, <2>7, <2>8, <2>9, <2>10, <2>11, <2>12
       DEF LeaseNext, LeaseStep
<1>3. QED BY <1>1, <1>2, PTL DEF LeaseSpec

(* A readable lease always carries the owner and pid of its maker, whose
   control is between the write and the removal. *)
THEOREM LeaseAccounted == LeaseSpec => []PayloadOwned
<1>1. LeaseInit => PayloadOwned
  BY DEF LeaseInit, PayloadOwned, HasPayload
<1>2. LeaseTypeOK /\ PayloadOwned /\ [LeaseNext]_leaseVars => PayloadOwned'
  <2> SUFFICES ASSUME LeaseTypeOK, PayloadOwned, [LeaseNext]_leaseVars
      PROVE PayloadOwned'
    OBVIOUS
  <2> USE HostAssumption, NoneAssumption, FileAssumption
      DEF LeaseTypeOK, Holding, LeaseFile, PayloadOwned, HasPayload
  <2>1. ASSUME NEW t \in Thread, NEW o \in Owner, BeginAcquire(t, o)
        PROVE PayloadOwned'
    BY <2>1 DEF BeginAcquire, Goto
  <2>2. ASSUME NEW t \in Thread, NEW from \in Label \ Holding, Refuse(t, from)
        PROVE PayloadOwned'
    BY <2>2 DEF Refuse, Goto
  <2>3. ASSUME NEW t \in Thread, CheckLease(t) \/ CheckRows(t) \/ DockerBusy(t)
        PROVE PayloadOwned'
    BY <2>2, <2>3 DEF CheckLease, CheckRows, DockerBusy, Goto, Label, Acquiring
  <2>4. ASSUME NEW t \in Thread, ReadStale(t) PROVE PayloadOwned'
    BY <2>2, <2>4 DEF ReadStale, Goto, Label, Acquiring
  <2>5. ASSUME NEW t \in Thread, UnlinkStale(t) \/ Remove(t)
        PROVE PayloadOwned'
    BY <2>5 DEF UnlinkStale, Remove, Goto
  <2>6. ASSUME NEW t \in Thread, Create(t) PROVE PayloadOwned'
    BY <2>2, <2>6 DEF Create, Goto, Label, Acquiring
  <2>7. ASSUME NEW t \in Thread, Write(t) PROVE PayloadOwned'
    BY <2>7 DEF Write, Goto
  <2>8. ASSUME NEW t \in Thread, Publish(t) \/ Retire(t) PROVE PayloadOwned'
    BY <2>8 DEF Publish, Retire, Goto
  <2>9. ASSUME NEW t \in Thread, ReadOwner(t) PROVE PayloadOwned'
    <3> PICK from \in {"held", "retired"} :
          IF HasPayload /\ file.owner = own[t]
          THEN Goto(t, from, "remove") /\ UNCHANGED <<alive, file, row, own>>
          ELSE Refuse(t, from)
      BY <2>9 DEF ReadOwner
    <3>1. CASE HasPayload /\ file.owner = own[t]
      BY <3>1 DEF Goto
    <3>2. CASE HasPayload /\ file.owner # own[t]
      BY <3>2 DEF Refuse, Goto
    <3>3. CASE ~HasPayload
      BY <3>3 DEF Refuse, Goto
    <3>4. QED BY <3>1, <3>2, <3>3
  <2>10. ASSUME NEW p \in Process, Crash(p) PROVE PayloadOwned'
    BY <2>10 DEF Crash
  <2>11. CASE UNCHANGED leaseVars
    BY <2>11 DEF leaseVars
  <2>12. QED
    BY <2>1, <2>3, <2>4, <2>5, <2>6, <2>7, <2>8, <2>9, <2>10, <2>11
       DEF LeaseNext, LeaseStep
<1>3. QED BY <1>1, <1>2, LeaseTypes, PTL DEF LeaseSpec

(* Nobody is locked out by a lease that a living process already gave up. *)
THEOREM LiveLease == LeaseSpec => []LiveLeaseHasHolder
<1>1. LeaseTypeOK /\ PayloadOwned => LiveLeaseHasHolder
  BY HostAssumption, NoneAssumption, FileAssumption
     DEF LeaseTypeOK, PayloadOwned, LiveLeaseHasHolder, HoldsLease, Running,
         HasPayload, LeaseFile
<1>2. QED BY <1>1, LeaseAccounted, LeaseTypes, PTL

(* Until a process dies, the lease path names the file of its holder. *)
THEOREM PathHeld == LeaseSpec => []PathFollowsHolder
<1>1. LeaseInit => PathFollowsHolder
  BY DEF LeaseInit, PathFollowsHolder, Holding
<1>2. LeaseTypeOK /\ PayloadOwned /\ PathFollowsHolder /\ [LeaseNext]_leaseVars
        => PathFollowsHolder'
  <2> SUFFICES ASSUME LeaseTypeOK, PayloadOwned, PathFollowsHolder,
             [LeaseNext]_leaseVars,
                      alive' = Process
               PROVE PathFollowsHolder'
    BY DEF PathFollowsHolder
  <2> USE HostAssumption, NoneAssumption, FileAssumption
      DEF LeaseTypeOK, Holding, LeaseFile, PathFollowsHolder, HasPayload,
         PayloadOwned
  <2>0. ASSUME NEW p \in Process, Crash(p) PROVE FALSE
    BY <2>0 DEF Crash
  <2>1. ASSUME NEW t \in Thread, NEW o \in Owner, BeginAcquire(t, o)
        PROVE PathFollowsHolder'
    BY <2>1 DEF BeginAcquire, Goto
  <2>2. ASSUME NEW t \in Thread, NEW from \in Label, Refuse(t, from)
        PROVE PathFollowsHolder'
    BY <2>2 DEF Refuse, Goto
  <2>3. ASSUME NEW t \in Thread, CheckLease(t) \/ CheckRows(t) \/ DockerBusy(t)
        PROVE PathFollowsHolder'
    BY <2>2, <2>3 DEF CheckLease, CheckRows, DockerBusy, Goto, Label, Acquiring
  <2>4. ASSUME NEW t \in Thread, ReadStale(t) PROVE PathFollowsHolder'
    BY <2>2, <2>4 DEF ReadStale, Goto, Label, Acquiring
  <2>5. ASSUME NEW t \in Thread, UnlinkStale(t) \/ Remove(t)
        PROVE PathFollowsHolder'
    BY <2>5 DEF UnlinkStale, Remove, Goto
  <2>6. ASSUME NEW t \in Thread, Create(t) PROVE PathFollowsHolder'
    BY <2>2, <2>6 DEF Create, Goto, Label, Acquiring
  <2>7. ASSUME NEW t \in Thread, Write(t) PROVE PathFollowsHolder'
    BY <2>7 DEF Write, Goto
  <2>8. ASSUME NEW t \in Thread, Publish(t) \/ Retire(t)
        PROVE PathFollowsHolder'
    BY <2>8 DEF Publish, Retire, Goto
  <2>9. ASSUME NEW t \in Thread, ReadOwner(t) PROVE PathFollowsHolder'
    BY <2>2, <2>9 DEF ReadOwner, Goto, Label
  <2>10. CASE UNCHANGED leaseVars
    BY <2>10 DEF leaseVars
  <2>11. QED
    BY <2>0, <2>1, <2>3, <2>4, <2>5, <2>6, <2>7, <2>8, <2>9, <2>10
       DEF LeaseNext, LeaseStep
<1>3. QED BY <1>1, <1>2, LeaseTypes, LeaseAccounted, PTL DEF LeaseSpec

(* Until a process dies, two campaigns never hold the live lease at once. *)
THEOREM Exclusive == LeaseSpec => []ExclusiveUntilCrash
<1>1. PathFollowsHolder => ExclusiveUntilCrash
  BY DEF PathFollowsHolder, ExclusiveUntilCrash, SecondExecuteRefused,
     HoldsLease
<1>2. QED BY <1>1, PathHeld, PTL
=============================================================================
