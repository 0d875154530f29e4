-------------------------- MODULE ManagerRunProofs --------------------------
(* Proofs about Manager.step for any stop rules, any budget of rounds, and  *)
(* any number of crashes and git errors.                                    *)
EXTENDS ManagerRun, FiniteSetTheorems, TLAPS

-----------------------------------------------------------------------------
(* The run facts *)

LEMMA ToFacts ==
    ASSUME NEW f \in RunFacts, NEW s \in RunStates
    PROVE  /\ To(f, s) \in RunFacts
           /\ To(f, s).rs = s
           /\ To(f, s).ev = f.ev
           /\ To(f, s).rd = f.rd
BY DEF To, RunFacts

LEMMA JudgedConsistent ==
    ASSUME NEW f \in RunFacts, Judged(f)
    PROVE  Consistent(f)
BY DEF Judged, Consistent, RunFacts, RunStates, Scientific

\* One transition of judged facts is legal.
LEMMA OneStep ==
    ASSUME NEW f \in RunFacts, NEW s \in RunTransitions(f.rs) \cap RunStates,
           Judged(f), Judged(To(f, s))
    PROVE  Reach(f, To(f, s))
<1>1. Legal(f, To(f, s))
  BY ToFacts, JudgedConsistent DEF Legal
<1>2. Legal(To(f, s), To(f, s))
  BY ToFacts, JudgedConsistent DEF Legal
<1>3. QED BY <1>1, <1>2 DEF Reach

\* Two transitions, such as APPROVED through RUNNING to FAILED.
LEMMA TwoSteps ==
    ASSUME NEW f \in RunFacts, NEW m \in RunTransitions(f.rs) \cap RunStates,
           NEW s \in RunTransitions(m) \cap RunStates,
           Judged(f), Judged(To(f, m)), Judged(To(f, s))
    PROVE  Reach(f, To(f, s))
<1>1. Legal(f, To(f, m))
  BY ToFacts, JudgedConsistent DEF Legal
<1>2. Legal(To(f, m), To(f, s))
  BY ToFacts, JudgedConsistent DEF Legal
<1>3. QED BY <1>1, <1>2 DEF Reach

\* A verdict or a decision changes no run state.
LEMMA SameState ==
    ASSUME NEW f \in RunFacts, NEW g \in RunFacts, g.rs = f.rs,
           Judged(f), Judged(g)
    PROVE  Reach(f, g)
<1>1. f.rs \in RunStates /\ To(f, f.rs) = f
  BY DEF To, RunFacts
<1>2. Legal(f, f) /\ Legal(f, g)
  BY JudgedConsistent DEF Legal
<1>3. QED BY <1>1, <1>2 DEF Reach

\* Halting is a legal way to stop, from any state.
LEMMA HaltLegal ==
    ASSUME NEW f \in RunFacts, Judged(f)
    PROVE  /\ HaltFacts(f) \in RunFacts
           /\ Judged(HaltFacts(f))
           /\ Reach(f, HaltFacts(f))
           /\ HaltFacts(f).rs = "STOPPED"
           /\ HaltFacts(f).rd = f.rd
<1>1. f.rs \in RunStates
  BY DEF RunFacts
<1>2. To(f, "STOPPED") \in RunFacts /\ Judged(To(f, "STOPPED"))
      /\ To(f, "STOPPED").rs = "STOPPED" /\ To(f, "STOPPED").rd = f.rd
  BY ToFacts DEF Judged, RunStates
<1>3. CASE f.rs = "STOPPED"
  <2>1. HaltFacts(f) = f
    BY <1>3 DEF HaltFacts, RunTransitions
  <2>2. QED BY <1>3, <2>1, SameState
<1>4. CASE f.rs \in {"APPROVED", "CONTRACTED", "RUNNING"}
  <2>1. HaltFacts(f) = To(f, "STOPPED")
    BY <1>4 DEF HaltFacts, RunTransitions
  <2>2. /\ "BLOCKED" \in RunTransitions(f.rs) \cap RunStates
        /\ "STOPPED" \in RunTransitions("BLOCKED") \cap RunStates
    BY <1>4 DEF RunTransitions, RunStates
  <2>3. Judged(To(f, "BLOCKED"))
    BY <1>4, ToFacts DEF Judged, RunStates
  <2>4. QED BY <1>2, <2>1, <2>2, <2>3, TwoSteps
<1>5. CASE f.rs \notin {"STOPPED", "APPROVED", "CONTRACTED", "RUNNING"}
  <2>1. "STOPPED" \in RunTransitions(f.rs) \cap RunStates
    BY <1>1, <1>5 DEF RunTransitions, RunStates
  <2>2. HaltFacts(f) = To(f, "STOPPED")
    BY <2>1 DEF HaltFacts
  <2>3. QED BY <1>2, <2>1, <2>2, OneStep
<1>6. QED BY <1>3, <1>4, <1>5

-----------------------------------------------------------------------------
(* Types *)

LEMMA CountTypes ==
    ASSUME NEW c \in Counters
    PROVE  /\ Failed(c) \in Counters
           /\ [c EXCEPT !.rejects = @ + 1] \in Counters
           /\ [c EXCEPT !.discards = @ + 1] \in Counters
           /\ [c EXCEPT !.discards = 0] \in Counters
           /\ [c EXCEPT !.extra = @ + 1] \in Counters
BY DEF Counters, Failed

LEMMA InitialTypes ==
    /\ InitialFacts \in RunFacts
    /\ Judged(InitialFacts)
    /\ InitialFacts.rs = "CREATED" /\ InitialFacts.rd = "PENDING"
BY DEF InitialFacts, RunFacts, RunStates, EvidenceStatuses, Decisions, Judged

LEMMA DocTypes ==
    ASSUME TypeOK
    PROVE  /\ doc.round \in Nat /\ doc.facts \in RunFacts
           /\ mem.doc \in Document /\ mem.status \in Counters
           /\ mem.doc.round \in Nat /\ mem.doc.facts \in RunFacts
           /\ doc \in Document /\ status \in Counters /\ files \in Files
           /\ files.plan \in Nat
BY DEF TypeOK, Document, Files

LEMMA SeqAt ==
    ASSUME NEW R, NEW s \in Seq(R), NEW i \in 0..Len(s), i # 0
    PROVE  s[i] \in R
OBVIOUS

\* What a handler saves and writes is well typed.
LEMMA SaveTypes ==
    ASSUME TypeOK, NEW r \in Nat, NEW f \in RunFacts, NEW c \in Counters,
           NEW then \in {"record", "apply", "status"}, Save(r, f, c, then),
           files' \in Files, lessons' \subseteq Tag, UNCHANGED archive
    PROVE  TypeOK'
BY DEF TypeOK, Save, Document, faults

THEOREM TypeCorrect == Spec => []TypeOK
<1>1. Init => TypeOK
  <2> SUFFICES ASSUME Init PROVE TypeOK
    OBVIOUS
  <2>1. NoOutcome \in Outcome
    BY ConstantsAssumption DEF NoOutcome, Outcome, ExecStatus, Tag
  <2>2. doc \in Document /\ status \in Counters /\ files \in Files
    <3>1. PICK first \in FirstRounds :
             /\ doc = [round |-> first, facts |-> InitialFacts]
             /\ files = [plan |-> first, contract |-> NoRound,
                         review |-> NoRound, handle |-> NoOutcome,
                         result |-> NoOutcome]
      BY DEF Init
    <3>2. first \in Nat
      BY ConstantsAssumption
    <3>3. QED
      BY <2>1, <3>1, <3>2, InitialTypes DEF Init, Document, Counters, Files,
         Tag
  <2>3. commits \in Seq([round: Nat, line: SUBSET Nat]) /\ Len(commits) = 0
    BY DEF Init
  <2>4. QED
    BY <2>2, <2>3, ConstantsAssumption DEF Init, TypeOK, Rest, Tag
<1>2. TypeOK /\ [Next]_vars => TypeOK'
  <2> SUFFICES ASSUME TypeOK, [Next]_vars PROVE TypeOK'
    OBVIOUS
  <2> USE DocTypes
  <2>1. CASE SaveRun
    BY <2>1 DEF SaveRun, TypeOK, history, faults
  <2>2. CASE SaveStatus
    BY <2>2 DEF SaveStatus, TypeOK, Rest, history, faults
  <2>3. CASE Halt
    <3>1. HaltFacts(doc.facts) \in RunFacts
      BY ToFacts DEF HaltFacts, RunStates
    <3>2. QED BY <2>3, <3>1, SaveTypes DEF Halt, TypeOK
  <2>4. CASE NeedPlan
    <3>1. To(doc.facts, "PLANNED") \in RunFacts
      BY ToFacts DEF RunStates
    <3>2. QED BY <2>4, <3>1, SaveTypes DEF NeedPlan, TypeOK
  <2>5. CASE NeedMaterialize
    <3>1. /\ To(doc.facts, "MATERIALIZED") \in RunFacts
          /\ To(doc.facts, "BLOCKED") \in RunFacts
      BY ToFacts DEF RunStates
    <3>2. [files EXCEPT !.contract = files.plan] \in Files
      BY DEF Files, Tag
    <3>3. lessons' \subseteq Tag /\ UNCHANGED archive
      BY <2>5 DEF NeedMaterialize, TypeOK
    <3>4. QED BY <2>5, <3>1, <3>2, <3>3, CountTypes,
             SaveTypes DEF NeedMaterialize
  <2>6. CASE NeedGate
    <3>1. \E s \in {"APPROVED", "GATED", "BLOCKED"} :
             Save(doc.round, To(doc.facts, s), status, "status")
      BY <2>6 DEF NeedGate
    <3>2. \A s \in {"APPROVED", "GATED", "BLOCKED"} : To(doc.facts, s) \in RunFacts
      BY ToFacts DEF RunStates
    <3>3. UNCHANGED <<files, lessons, archive>>
      BY <2>6 DEF NeedGate
    <3>4. QED BY <3>1, <3>2, <3>3, SaveTypes DEF TypeOK
  <2>7. CASE NeedHuman
    <3>1. To(doc.facts, "APPROVED") \in RunFacts
      BY ToFacts DEF RunStates
    <3>2. QED BY <2>7, <3>1, SaveTypes DEF NeedHuman, TypeOK
  <2>8. CASE RefuseExecution
    <3>1. To(doc.facts, "BLOCKED") \in RunFacts
      BY ToFacts DEF RunStates
    <3>2. QED BY <2>8, <3>1, SaveTypes DEF RefuseExecution, TypeOK
  <2>9. CASE NeedExecution
    <3>1. /\ To(doc.facts, "FAILED") \in RunFacts
          /\ To(doc.facts, "RUNNING") \in RunFacts
      BY ToFacts DEF RunStates
    <3>2. lessons' \subseteq Tag /\ UNCHANGED archive
      BY <2>9 DEF NeedExecution, TypeOK
    <3>3. files' \in Files
      <4>1. \A s \in ExecStatus, fatal \in BOOLEAN :
               [files EXCEPT !.handle = [round |-> files.contract, status |-> s,
                                         fatal |-> fatal]] \in Files
        BY DEF Files, Outcome
      <4>2. QED BY <2>9, <4>1 DEF NeedExecution
    <3>4. \E f \in {"FAILED", "RUNNING"}, c \in {status, Failed(status)} :
             Save(doc.round, To(doc.facts, f), c, "status")
      BY <2>9 DEF NeedExecution
    <3>5. QED BY <3>1, <3>2, <3>3, <3>4, CountTypes, SaveTypes
  <2>10. CASE NeedParse
    <3>1. /\ To(doc.facts, "FAILED") \in RunFacts
          /\ To(doc.facts, "COMPLETED") \in RunFacts
      BY ToFacts DEF RunStates
    <3>2. lessons' \subseteq Tag /\ UNCHANGED archive
      BY <2>10 DEF NeedParse, TypeOK
    <3>3. files' \in Files
      <4>1. [files.handle EXCEPT !.status = Normalize(@)] \in Outcome
        BY DEF Files, Outcome, Normalize, ExecStatus
      <4>2. QED BY <2>10, <4>1 DEF NeedParse, Files
    <3>4. \E f \in {"FAILED", "COMPLETED"}, c \in {status, Failed(status)} :
             Save(doc.round, To(doc.facts, f), c, "record")
      BY <2>10 DEF NeedParse
    <3>5. QED BY <3>1, <3>2, <3>3, <3>4, CountTypes, SaveTypes
  <2>11. CASE RetryExecution
    <3>1. To(doc.facts, "APPROVED") \in RunFacts
      BY ToFacts DEF RunStates
    <3>2. QED BY <2>11, <3>1, SaveTypes DEF RetryExecution, TypeOK
  <2>12. CASE NeedEvidence
    <3>1. \A ev \in EvidenceStatuses : [doc.facts EXCEPT !.ev = ev] \in RunFacts
      BY DEF RunFacts
    <3>2. \E ev \in EvidenceStatuses :
             Save(doc.round, [doc.facts EXCEPT !.ev = ev], status, "status")
      BY <2>12 DEF NeedEvidence, Verdicts, EvidenceStatuses
    <3>3. UNCHANGED <<files, lessons, archive>>
      BY <2>12 DEF NeedEvidence
    <3>4. QED BY <3>1, <3>2, <3>3, SaveTypes DEF TypeOK
  <2>13. CASE NeedReview
    <3>1. \A rd \in Scientific : [doc.facts EXCEPT !.rd = rd] \in RunFacts
      BY DEF RunFacts, Decisions
    <3>2. files.result.round \in Tag /\ files' \in Files
      BY <2>13 DEF NeedReview, Files, Outcome
    <3>3. lessons' \subseteq Tag /\ UNCHANGED archive
      BY <2>13, <3>2 DEF NeedReview, TypeOK
    <3>4. \E rd \in Scientific, c \in {[status EXCEPT !.discards = @ + 1],
                                       [status EXCEPT !.discards = 0]} :
             Save(doc.round, [doc.facts EXCEPT !.rd = rd], c, "apply")
      BY <2>13 DEF NeedReview
    <3>5. QED BY <3>1, <3>2, <3>3, <3>4, CountTypes, SaveTypes
  <2>14. CASE NeedMemory
    <3>1. To(doc.facts, "MEMORY_WRITTEN") \in RunFacts
      BY ToFacts DEF RunStates
    <3>2. lessons' \subseteq Tag
      BY <2>14 DEF NeedMemory, Files, TypeOK
    <3>3. QED BY <2>14, <3>1, <3>2, SaveTypes DEF NeedMemory
  <2>15. CASE RecordExperiment
    <3>1. /\ commits' \in Seq([round: Nat, line: SUBSET Nat])
          /\ git' \in [exp: 0..Len(commits'), best: 0..Len(commits'),
                      head: 0..Len(commits')]
      <4>1. CASE UNCHANGED <<git, commits>>
        BY <4>1 DEF TypeOK
      <4>2. CASE CommitExperiment(doc.round)
        <5>1. Lineage(git.head) \in SUBSET Nat
          <6>0. commits \in Seq([round: Nat, line: SUBSET Nat])
            BY DEF TypeOK
          <6>1. git.head \in 0..Len(commits)
            BY DEF TypeOK
          <6>2. ASSUME git.head # 0
                PROVE  commits[git.head] \in [round: Nat, line: SUBSET Nat]
            BY <6>0, <6>1, <6>2, SeqAt
          <6>3. CASE git.head = 0
            BY <6>3 DEF Lineage
          <6>4. CASE git.head # 0
            BY <6>1, <6>2, <6>4 DEF Lineage
          <6>5. QED BY <6>3, <6>4
        <5>2. [round |-> doc.round, line |-> Lineage(git.head)]
                 \in [round: Nat, line: SUBSET Nat]
          BY <5>1
        <5>3. /\ commits' \in Seq([round: Nat, line: SUBSET Nat])
              /\ Len(commits') = Len(commits) + 1
              /\ Len(commits) \in Nat
          <6>1. commits \in Seq([round: Nat, line: SUBSET Nat])
            BY DEF TypeOK
          <6>2. QED BY <4>2, <5>2, <6>1 DEF CommitExperiment
        <5>4. git' \in [exp: 0..Len(commits'), best: 0..Len(commits'),
                       head: 0..Len(commits')]
          <6>1. Len(commits) + 1 \in 0..Len(commits')
            BY <5>3
          <6>2. /\ git.best \in 0..Len(commits')
                /\ git = [exp |-> git.exp, best |-> git.best, head |-> git.head]
            BY <5>3 DEF TypeOK
          <6>3. git' = [exp |-> Len(commits) + 1, best |-> git.best,
                        head |-> Len(commits) + 1]
            BY <4>2, <6>2 DEF CommitExperiment
          <6>4. QED BY <6>1, <6>2, <6>3
        <5>5. QED BY <5>3, <5>4
      <4>3. QED BY <2>15, <4>1, <4>2 DEF RecordExperiment, GitFails
    <3>2. gitErrors' \in Nat
      BY <2>15 DEF RecordExperiment, GitFails, TypeOK
    <3>3. QED BY <2>15, <3>1, <3>2 DEF RecordExperiment, GitStep, TypeOK,
             history
  <2>16. CASE ApplyReview
    <3>1. UNCHANGED commits /\ gitErrors' \in Nat
      BY <2>16 DEF ApplyReview, GitFails, TypeOK
    <3>2. git' \in [exp: 0..Len(commits), best: 0..Len(commits),
                   head: 0..Len(commits)]
      BY <2>16 DEF ApplyReview, GitFails, MovePointers, TypeOK
    <3>3. QED BY <2>16, <3>1, <3>2 DEF ApplyReview, GitStep, TypeOK, history
  <2>17. CASE NextRound
    <3>1. files' \in Files
      BY <2>17 DEF NextRound, Files
    <3>2. /\ DOMAIN archive' \subseteq Nat
          /\ \A r \in DOMAIN archive' : archive'[r] \in RunFacts
      BY <2>17 DEF NextRound, TypeOK
    <3>3. QED BY <2>17, <3>1, <3>2 DEF NextRound, TypeOK, faults
  <2>18. CASE NextRoundHalts
    <3>1. HaltFacts(doc.facts) \in RunFacts
      BY ToFacts DEF HaltFacts, RunStates
    <3>2. QED BY <2>18, <3>1, SaveTypes DEF NextRoundHalts, TypeOK
  <2>19. CASE InitializeRun
    <3>1. To(InitialFacts, "PLANNED") \in RunFacts
      BY InitialTypes, ToFacts DEF RunStates
    <3>2. doc' \in Document /\ mem'.doc \in Document
      BY <2>19, <3>1, InitialTypes DEF InitializeRun, Document
    <3>3. mem' \in [doc: Document, status: Counters,
                    then: {"record", "apply", "status"}]
      BY <2>19, <3>2, CountTypes DEF InitializeRun
    <3>4. QED BY <2>19, <3>2, <3>3 DEF InitializeRun, TypeOK, history, faults
  <2>20. CASE Reopen
    BY <2>20 DEF Reopen, TypeOK, disk, history, faults
  <2>21. CASE Crash
    BY <2>21 DEF Crash, TypeOK, Rest, disk, history
  <2>22. CASE UNCHANGED vars
    BY <2>22 DEF TypeOK, vars, disk, history, faults
  <2>23. QED
    BY <2>1, <2>2, <2>3, <2>4, <2>5, <2>6, <2>7, <2>8, <2>9, <2>10, <2>11,
       <2>12, <2>13, <2>14, <2>15, <2>16, <2>17, <2>18, <2>19, <2>20, <2>21,
       <2>22 DEF Next, Step
<1>3. QED BY <1>1, <1>2, PTL DEF Spec

-----------------------------------------------------------------------------
(* The documents fit the files *)

LEMMA Saved ==
    ASSUME NEW r, NEW f, NEW c, NEW then, Save(r, f, c, then)
    PROVE  /\ mem'.doc.round = r /\ mem'.doc.facts = f /\ mem'.status = c
           /\ pc' = "save"
           /\ UNCHANGED <<doc, status, git, commits, confirm, faults>>
BY DEF Save

\* A handler that saves reachable facts, and leaves files both documents fit.
LEMMA SavedFits ==
    ASSUME NEW f \in RunFacts, NEW c, NEW then, Save(doc.round, f, c, then),
           Reach(doc.facts, f), Fits(doc)', Fits(mem.doc)'
    PROVE  DocsFit'
BY Saved DEF DocsFit

\* Files untouched, the document on disk fits as before.
LEMMA DocKept ==
    ASSUME Fits(doc), UNCHANGED <<doc, files>>,
           lessons \subseteq lessons', approved \subseteq approved'
    PROVE  Fits(doc)'
BY DEF Fits

\* What the facts are when a handler runs.
LEMMA Called ==
    ASSUME TypeOK, DocsFit, NEW action, Handles(action)
    PROVE  /\ pc = "idle" /\ Fits(doc) /\ Judged(doc.facts)
           /\ action = "NEED_PLAN" => doc.facts.rs = "CREATED"
           /\ action = "NEED_MATERIALIZE" => doc.facts.rs = "PLANNED"
           /\ action = "NEED_GATE" => doc.facts.rs = "MATERIALIZED"
           /\ action = "NEED_EXECUTION" =>
                 doc.facts.rs \in {"APPROVED", "CONTRACTED"}
           /\ action = "NEED_PARSE" => doc.facts.rs = "RUNNING"
           /\ action = "RETRY_EXECUTION" => doc.facts.rs = "FAILED"
           /\ action = "NEED_EVIDENCE_CHECK" =>
                 doc.facts.rs = "COMPLETED" /\ doc.facts.ev = "PENDING"
           /\ action = "NEED_REVIEW" =>
                 doc.facts.rs = "COMPLETED" /\ doc.facts.ev = "VALID"
           /\ action = "NEED_MEMORY" => doc.facts.rs = "COMPLETED"
           /\ action = "NEXT_ROUND" => doc.facts.rs = "MEMORY_WRITTEN"
BY DocTypes DEF Handles, NextAction, DocsFit, Fits, RunFacts, RunStates

\* One transition of the document at hand, and what it keeps.
LEMMA Moves ==
    ASSUME TypeOK, Fits(doc),
           NEW s \in RunTransitions(doc.facts.rs) \cap RunStates,
           s \notin {"COMPLETED", "MEMORY_WRITTEN", "STOPPED"} =>
              doc.facts.rs \notin {"COMPLETED", "MEMORY_WRITTEN", "STOPPED"}
    PROVE  /\ To(doc.facts, s) \in RunFacts
           /\ To(doc.facts, s).rs = s /\ To(doc.facts, s).rd = doc.facts.rd
           /\ Judged(To(doc.facts, s))
           /\ Reach(doc.facts, To(doc.facts, s))
<1>1. doc.facts \in RunFacts /\ Judged(doc.facts)
  BY DocTypes DEF Fits
<1>2. Judged(To(doc.facts, s))
  BY <1>1, ToFacts DEF Judged
<1>3. QED BY <1>1, <1>2, ToFacts, OneStep

LEMMA HaltFits ==
    ASSUME TypeOK, DocsFit, UNCHANGED <<files, lessons, approved>>,
           Save(doc.round, HaltFacts(doc.facts), status, "status")
    PROVE  DocsFit'
<1>1. doc.facts \in RunFacts /\ Judged(doc.facts) /\ Fits(doc)
  BY DocTypes DEF Fits, DocsFit
<1>2. Fits(doc)'
  BY <1>1, DocKept, Saved
<1>3. Fits(mem.doc)'
  BY <1>1, HaltLegal, Saved, DocTypes DEF Fits
<1>4. QED BY <1>1, <1>2, <1>3, HaltLegal, SavedFits

\* A handler that makes one transition: what is left to show is that the
\* files fit the document on disk and the one to be saved.
LEMMA MoveFits ==
    ASSUME TypeOK, DocsFit,
           NEW s \in RunTransitions(doc.facts.rs) \cap RunStates,
           s \notin {"COMPLETED", "MEMORY_WRITTEN", "STOPPED"} =>
              doc.facts.rs \notin {"COMPLETED", "MEMORY_WRITTEN", "STOPPED"},
           NEW c, NEW then, Save(doc.round, To(doc.facts, s), c, then),
           Fits(doc)', Fits(mem.doc)'
    PROVE  DocsFit'
<1>1. Fits(doc)
  BY DEF DocsFit
<1>2. QED BY <1>1, Moves, SavedFits

\* A handler that touches no file: the document to be saved inherits what the
\* one on disk has, so only what its state newly asks for is left to show.
LEMMA PlainMoveFits ==
    ASSUME TypeOK, DocsFit,
           NEW s \in RunTransitions(doc.facts.rs) \cap RunStates,
           s \notin {"COMPLETED", "MEMORY_WRITTEN", "STOPPED"} =>
              doc.facts.rs \notin {"COMPLETED", "MEMORY_WRITTEN", "STOPPED"},
           NEW c, NEW then, Save(doc.round, To(doc.facts, s), c, then),
           UNCHANGED files, lessons \subseteq lessons',
           approved \subseteq approved', Fits(mem.doc)'
    PROVE  DocsFit'
<1>1. Fits(doc)'
  BY Saved, DocKept DEF DocsFit
<1>2. QED BY <1>1, MoveFits

LEMMA PlanFits == ASSUME TypeOK, DocsFit, NeedPlan PROVE DocsFit'
<1>1. doc.facts.rs = "CREATED" /\ Fits(doc) /\ UNCHANGED <<files, lessons, approved>>
  BY Called DEF NeedPlan, history
<1>2. files.plan = doc.round
  BY <1>1 DEF Fits
<1>3. Save(doc.round, To(doc.facts, "PLANNED"), status, "status")
  BY <1>2 DEF NeedPlan
<1>4. "PLANNED" \in RunTransitions(doc.facts.rs) \cap RunStates
  BY <1>1 DEF RunTransitions, RunStates
<1>5. Fits(mem.doc)'
  BY <1>1, <1>3, <1>4, Moves, Saved DEF Fits
<1>6. QED BY <1>1, <1>3, <1>4, <1>5, PlainMoveFits

LEMMA MaterializeFits == ASSUME TypeOK, DocsFit, NeedMaterialize PROVE DocsFit'
<1>1. doc.facts.rs = "PLANNED" /\ Fits(doc) /\ UNCHANGED <<lessons, approved>>
  BY Called DEF NeedMaterialize, history
<1>2. {"MATERIALIZED", "BLOCKED"} \subseteq RunTransitions(doc.facts.rs) \cap RunStates
  BY <1>1 DEF RunTransitions, RunStates
<1>3. CASE /\ files' = [files EXCEPT !.contract = files.plan]
           /\ Save(doc.round, To(doc.facts, "MATERIALIZED"), status, "status")
  <2>1. /\ files'.plan = files.plan /\ files'.contract = files.plan
        /\ files'.handle = files.handle /\ files'.result = files.result
        /\ files'.review = files.review
    BY <1>3, DocTypes DEF Files
  <2>2. Fits(doc)'
    BY <1>1, <1>3, <2>1, Saved DEF Fits
  <2>3. Fits(mem.doc)'
    BY <1>1, <1>2, <1>3, <2>1, Moves, Saved DEF Fits
  <2>4. QED BY <1>1, <1>2, <1>3, <2>2, <2>3, MoveFits
<1>4. CASE /\ files' = files
           /\ Save(doc.round, To(doc.facts, "BLOCKED"),
                   [status EXCEPT !.rejects = @ + 1], "status")
  <2>1. Fits(mem.doc)'
    BY <1>1, <1>2, <1>4, Moves, Saved DEF Fits
  <2>2. QED BY <1>1, <1>2, <1>4, <2>1, PlainMoveFits
<1>5. QED BY <1>3, <1>4 DEF NeedMaterialize

LEMMA GateFits == ASSUME TypeOK, DocsFit, NeedGate PROVE DocsFit'
<1>1. /\ doc.facts.rs = "MATERIALIZED" /\ Fits(doc)
      /\ UNCHANGED <<files, lessons>> /\ approved \subseteq approved'
  BY Called DEF NeedGate
<1>2. {"APPROVED", "GATED", "BLOCKED"} \subseteq RunTransitions(doc.facts.rs) \cap RunStates
  BY <1>1 DEF RunTransitions, RunStates
<1>3. PICK s \in {"APPROVED", "GATED", "BLOCKED"} :
          /\ Save(doc.round, To(doc.facts, s), status, "status")
          /\ s = "APPROVED" => files.contract \in approved'
  BY DEF NeedGate
<1>4. Fits(mem.doc)'
  BY <1>1, <1>2, <1>3, Moves, Saved DEF Fits
<1>5. QED BY <1>1, <1>2, <1>3, <1>4, PlainMoveFits

LEMMA HumanFits == ASSUME TypeOK, DocsFit, NeedHuman PROVE DocsFit'
<1>1. /\ doc.facts.rs = "GATED" /\ Fits(doc)
      /\ UNCHANGED <<files, lessons>> /\ approved \subseteq approved'
      /\ files.contract \in approved'
  BY Called DEF NeedHuman
<1>2. "APPROVED" \in RunTransitions(doc.facts.rs) \cap RunStates
  BY <1>1 DEF RunTransitions, RunStates
<1>3. Save(doc.round, To(doc.facts, "APPROVED"), status, "status")
  BY DEF NeedHuman
<1>4. Fits(mem.doc)'
  BY <1>1, <1>2, <1>3, Moves, Saved DEF Fits
<1>5. QED BY <1>1, <1>2, <1>3, <1>4, PlainMoveFits

LEMMA RefuseFits == ASSUME TypeOK, DocsFit, RefuseExecution PROVE DocsFit'
<1>1. /\ doc.facts.rs \in {"APPROVED", "CONTRACTED"} /\ Fits(doc)
      /\ UNCHANGED <<files, lessons, approved>>
  BY Called DEF RefuseExecution, history
<1>2. "BLOCKED" \in RunTransitions(doc.facts.rs) \cap RunStates
  BY <1>1 DEF RunTransitions, RunStates
<1>3. Save(doc.round, To(doc.facts, "BLOCKED"), status, "status")
  BY DEF RefuseExecution
<1>4. Fits(mem.doc)'
  BY <1>1, <1>2, <1>3, Moves, Saved DEF Fits
<1>5. QED BY <1>1, <1>2, <1>3, <1>4, PlainMoveFits

LEMMA RetryFits == ASSUME TypeOK, DocsFit, RetryExecution PROVE DocsFit'
<1>1. /\ doc.facts.rs = "FAILED" /\ Fits(doc)
      /\ UNCHANGED <<files, lessons, approved>>
  BY Called DEF RetryExecution, history
<1>2. "APPROVED" \in RunTransitions(doc.facts.rs) \cap RunStates
  BY <1>1 DEF RunTransitions, RunStates
<1>3. Save(doc.round, To(doc.facts, "APPROVED"), status, "status")
  BY DEF RetryExecution
<1>4. Fits(mem.doc)'
  BY <1>1, <1>2, <1>3, Moves, Saved DEF Fits
<1>5. QED BY <1>1, <1>2, <1>3, <1>4, PlainMoveFits

LEMMA ExecutionFits == ASSUME TypeOK, DocsFit, NeedExecution PROVE DocsFit'
<1>1. /\ doc.facts.rs \in {"APPROVED", "CONTRACTED"} /\ Fits(doc)
      /\ Judged(doc.facts) /\ doc.facts \in RunFacts
      /\ UNCHANGED <<lessons, approved>>
  BY Called, DocTypes DEF NeedExecution
<1>2. PICK s \in {"FAILED", "RUNNING"}, c \in {status, Failed(status)} :
          /\ Save(doc.round, To(doc.facts, s), c, "status")
          /\ \/ files' = files /\ s = "FAILED"
             \/ \E x \in ExecStatus, fatal \in BOOLEAN :
                   files' = [files EXCEPT !.handle =
                      [round |-> files.contract, status |-> x, fatal |-> fatal]]
  BY DEF NeedExecution
<1>3. /\ files'.plan = files.plan /\ files'.contract = files.contract
      /\ files'.result = files.result /\ files'.review = files.review
      /\ s = "RUNNING" => files'.handle.round = files.contract
  BY <1>2, DocTypes DEF Files
<1>4. /\ To(doc.facts, s) \in RunFacts /\ Judged(To(doc.facts, s))
      /\ To(doc.facts, s).rs = s /\ To(doc.facts, s).rd = "PENDING"
  BY <1>1, ToFacts DEF Judged, RunStates
<1>5. Fits(doc)'
  BY <1>1, <1>2, <1>3, Saved DEF Fits
<1>6. Fits(mem.doc)'
  BY <1>1, <1>2, <1>3, <1>4, Saved DEF Fits
<1>7. Reach(doc.facts, To(doc.facts, s))
  <2>1. Judged(To(doc.facts, "RUNNING"))
    BY <1>1, ToFacts DEF Judged, RunStates
  <2>2. /\ "RUNNING" \in RunTransitions(doc.facts.rs) \cap RunStates
        /\ "FAILED" \in RunTransitions("RUNNING") \cap RunStates
    BY <1>1 DEF RunTransitions, RunStates
  <2>3. CASE s = "RUNNING"
    BY <1>1, <1>4, <2>2, <2>3, OneStep
  <2>4. CASE s = "FAILED"
    BY <1>1, <1>4, <2>1, <2>2, <2>4, TwoSteps
  <2>5. QED BY <2>3, <2>4
<1>8. QED BY <1>2, <1>4, <1>5, <1>6, <1>7, SavedFits

LEMMA ParseFits == ASSUME TypeOK, DocsFit, NeedParse PROVE DocsFit'
<1>1. /\ doc.facts.rs = "RUNNING" /\ Fits(doc)
      /\ UNCHANGED <<lessons, approved>>
  BY Called DEF NeedParse, history
<1>2. {"FAILED", "COMPLETED"} \subseteq RunTransitions(doc.facts.rs) \cap RunStates
  BY <1>1 DEF RunTransitions, RunStates
<1>3. PICK s \in {"FAILED", "COMPLETED"}, c \in {status, Failed(status)} :
          Save(doc.round, To(doc.facts, s), c, "record")
  BY DEF NeedParse
<1>4. /\ files'.plan = files.plan /\ files'.contract = files.contract
      /\ files'.handle = files.handle /\ files'.review = files.review
      /\ files'.result.round = files.handle.round
  BY DocTypes DEF NeedParse, Files, Outcome
<1>5. Fits(doc)'
  BY <1>1, <1>3, <1>4, Saved DEF Fits
<1>6. Fits(mem.doc)'
  BY <1>1, <1>2, <1>3, <1>4, Moves, Saved DEF Fits
<1>7. QED BY <1>1, <1>2, <1>3, <1>5, <1>6, MoveFits

LEMMA EvidenceFits == ASSUME TypeOK, DocsFit, NeedEvidence PROVE DocsFit'
<1>1. /\ doc.facts.rs = "COMPLETED" /\ doc.facts.ev = "PENDING" /\ Fits(doc)
      /\ Judged(doc.facts) /\ doc.facts \in RunFacts
      /\ UNCHANGED <<files, lessons, approved>>
  BY Called, DocTypes DEF NeedEvidence, history
<1>2. PICK ev \in EvidenceStatuses :
          Save(doc.round, [doc.facts EXCEPT !.ev = ev], status, "status")
  BY DEF NeedEvidence, Verdicts, EvidenceStatuses
<1>3. DEFINE g == [doc.facts EXCEPT !.ev = ev]
<1>4. /\ g \in RunFacts /\ g.rs = "COMPLETED" /\ g.rd = "PENDING" /\ Judged(g)
  BY <1>1 DEF RunFacts, Judged
<1>5. Fits(doc)'
  BY <1>1, <1>2, Saved, DocKept
<1>6. mem'.doc.facts = g /\ mem'.doc.round = doc.round
  BY <1>2, Saved
<1>7. Reach(doc.facts, g)
  BY <1>1, <1>4, SameState
<1>8. Save(doc.round, g, status, "status")
  BY <1>2
<1> HIDE DEF g
<1>9. Fits(mem.doc)'
  BY <1>1, <1>4, <1>6 DEF Fits
<1>10. QED BY <1>4, <1>5, <1>7, <1>8, <1>9, SavedFits

LEMMA ReviewFits == ASSUME TypeOK, DocsFit, NeedReview PROVE DocsFit'
<1>1. /\ doc.facts.rs = "COMPLETED" /\ doc.facts.ev = "VALID" /\ Fits(doc)
      /\ Judged(doc.facts) /\ doc.facts \in RunFacts
      /\ UNCHANGED approved /\ lessons \subseteq lessons'
  BY Called, DocTypes DEF NeedReview, history
<1>2. PICK rd \in Scientific, c \in {[status EXCEPT !.discards = @ + 1],
                                      [status EXCEPT !.discards = 0]} :
          Save(doc.round, [doc.facts EXCEPT !.rd = rd], c, "apply")
  BY DEF NeedReview
<1>3. DEFINE g == [doc.facts EXCEPT !.rd = rd]
<1>4. /\ g \in RunFacts /\ g.rs = "COMPLETED" /\ Judged(g)
  BY <1>1 DEF RunFacts, Decisions, Judged
<1>5. /\ files'.plan = files.plan /\ files'.contract = files.contract
      /\ files'.handle = files.handle /\ files'.result = files.result
      /\ files'.review = files.result.round
  BY DocTypes DEF NeedReview, Files
<1>6. mem'.doc.facts = g /\ mem'.doc.round = doc.round
  BY <1>2, Saved
<1>7. Reach(doc.facts, g)
  BY <1>1, <1>4, SameState
<1>8. Save(doc.round, g, c, "apply")
  BY <1>2
<1>9. Fits(doc)'
  BY <1>1, <1>2, <1>5, Saved DEF Fits
<1> HIDE DEF g
<1>10. Fits(mem.doc)'
  BY <1>1, <1>4, <1>5, <1>6 DEF Fits
<1>11. QED BY <1>4, <1>7, <1>8, <1>9, <1>10, SavedFits

LEMMA MemoryFits == ASSUME TypeOK, DocsFit, NeedMemory PROVE DocsFit'
<1>1. /\ doc.facts.rs = "COMPLETED" /\ Fits(doc) /\ Judged(doc.facts)
      /\ UNCHANGED <<files, approved>> /\ lessons \subseteq lessons'
  BY Called DEF NeedMemory, history
<1>2. "MEMORY_WRITTEN" \in RunTransitions(doc.facts.rs) \cap RunStates
  BY <1>1 DEF RunTransitions, RunStates
<1>3. Save(doc.round, To(doc.facts, "MEMORY_WRITTEN"), status, "status")
  BY DEF NeedMemory
<1>4. doc.facts.rd # "PENDING" => doc.round \in lessons'
  <2>1. ASSUME doc.facts.rd # "PENDING"
        PROVE  /\ doc.facts.ev = "VALID" /\ files.review = doc.round
               /\ files.review # NoRound
    BY <1>1, <2>1, DocTypes DEF Judged, Fits, NoRound
  <2>2. QED BY <2>1 DEF NeedMemory
<1>5. Fits(mem.doc)'
  BY <1>1, <1>2, <1>3, <1>4, Moves, Saved DEF Fits
<1>6. QED BY <1>1, <1>2, <1>3, <1>5, PlainMoveFits

LEMMA NextRoundFits == ASSUME TypeOK, DocsFit, NextRound PROVE DocsFit'
<1>1. /\ doc.facts.rs = "MEMORY_WRITTEN" /\ Fits(doc)
      /\ UNCHANGED <<doc, lessons, approved>> /\ pc' = "init"
      /\ NextAction(doc.facts) = "NEXT_ROUND"
  BY Called DEF NextRound, Handles, history
<1>2. /\ files'.plan = files.plan + 1 /\ files'.contract = files.contract
      /\ files'.handle = files.handle /\ files'.result = files.result
      /\ files'.review = files.review
  BY DocTypes DEF NextRound, Files
<1>3. Fits(doc)' /\ files'.plan > doc.round
  BY <1>1, <1>2, DocTypes DEF Fits
<1>4. QED BY <1>1, <1>3 DEF DocsFit

LEMMA InitializeFits == ASSUME TypeOK, DocsFit, InitializeRun PROVE DocsFit'
<1>1. /\ doc' = [round |-> files.plan, facts |-> InitialFacts]
      /\ mem'.doc = [round |-> files.plan, facts |-> To(InitialFacts, "PLANNED")]
      /\ pc' = "save" /\ UNCHANGED <<files, lessons, approved>>
  BY DEF InitializeRun, history
<1>2. /\ To(InitialFacts, "PLANNED") \in RunFacts
      /\ To(InitialFacts, "PLANNED").rs = "PLANNED"
      /\ To(InitialFacts, "PLANNED").rd = "PENDING"
      /\ Judged(To(InitialFacts, "PLANNED"))
  BY InitialTypes, ToFacts DEF Judged, RunStates
<1>3. "PLANNED" \in RunTransitions(InitialFacts.rs) \cap RunStates
  BY InitialTypes DEF RunTransitions, RunStates
<1>4. Reach(InitialFacts, To(InitialFacts, "PLANNED"))
  BY <1>2, <1>3, InitialTypes, OneStep
<1>5. Fits(doc)' /\ Fits(mem.doc)'
  BY <1>1, <1>2, InitialTypes, DocTypes DEF Fits
<1>6. QED BY <1>1, <1>4, <1>5 DEF DocsFit

\* The files hold what the document on disk, and the one about to replace it,
\* need of them, wherever the process dies.
THEOREM DocumentsFit == Spec => []DocsFit
<1>1. Init => DocsFit
  <2> SUFFICES ASSUME Init PROVE DocsFit
    OBVIOUS
  <2>1. Fits(doc)
    BY ConstantsAssumption, InitialTypes DEF Init, Fits
  <2>2. QED BY <2>1 DEF Init, DocsFit
<1>2. TypeOK /\ DocsFit /\ [Next]_vars => DocsFit'
  <2> SUFFICES ASSUME TypeOK, DocsFit, [Next]_vars PROVE DocsFit'
    OBVIOUS
  <2>1. CASE SaveRun
    <3>1. /\ pc = "save" /\ pc' # "save" /\ pc' # "init" /\ doc' = mem.doc
          /\ UNCHANGED <<files, lessons, approved, mem>>
      BY <2>1 DEF SaveRun, TypeOK, history
    <3>2. Fits(doc)'
      BY <3>1 DEF DocsFit, Fits
    <3>3. QED BY <3>1, <3>2 DEF DocsFit
  <2>2. CASE SaveStatus \/ RecordExperiment \/ ApplyReview \/ Crash
    <3>1. /\ pc' \notin {"save", "init"}
          /\ UNCHANGED <<doc, files, lessons, approved>>
      BY <2>2 DEF SaveStatus, RecordExperiment, ApplyReview, GitStep, Crash,
                  disk, history
    <3>2. QED BY <3>1, DocKept DEF DocsFit
  <2>3. CASE Reopen \/ UNCHANGED vars
    <3>1. UNCHANGED <<doc, files, lessons, approved, pc, mem>>
      BY <2>3 DEF Reopen, vars, disk, history
    <3>2. QED BY <3>1 DEF DocsFit, Fits
  <2>4. CASE Halt \/ NextRoundHalts
    BY <2>4, HaltFits DEF Halt, NextRoundHalts, history
  <2>5. QED
    BY <2>1, <2>2, <2>3, <2>4, PlanFits, MaterializeFits, GateFits, HumanFits,
       RefuseFits, RetryFits, ExecutionFits, ParseFits, EvidenceFits,
       ReviewFits, MemoryFits, NextRoundFits, InitializeFits DEF Next, Step
<1>3. QED BY <1>1, <1>2, TypeCorrect, PTL DEF Spec

\* The run document on disk obeys the cross-field rules, wherever the process
\* dies.
THEOREM FactsAlwaysConsistent == Spec => []FactsConsistent
<1>1. TypeOK /\ DocsFit => FactsConsistent
  BY DocTypes, JudgedConsistent DEF DocsFit, Fits, FactsConsistent
<1>2. QED BY <1>1, TypeCorrect, DocumentsFit, PTL

\* No handler ever reads another round's file.
THEOREM NoStaleFiles == Spec => []FilesOfThisRound
<1>1. DocsFit => FilesOfThisRound
  BY DEF DocsFit, Fits, FilesOfThisRound
<1>2. QED BY <1>1, DocumentsFit, PTL

-----------------------------------------------------------------------------
(* Memory, gate and budget *)

\* A reviewed round that has a successor is remembered.
THEOREM SuccessorsRemember == Spec => []SuccessorRemembers
<1>1. Init => SuccessorRemembers
  BY DEF Init, SuccessorRemembers
<1>2. TypeOK /\ DocsFit /\ SuccessorRemembers /\ [Next]_vars
         => SuccessorRemembers'
  <2> SUFFICES ASSUME TypeOK, DocsFit, SuccessorRemembers, [Next]_vars
               PROVE  SuccessorRemembers'
    OBVIOUS
  <2>1. CASE NextRound
    <3>1. doc.facts.rs = "MEMORY_WRITTEN" /\ Fits(doc) /\ UNCHANGED lessons
      BY <2>1, Called DEF NextRound
    <3>2. doc.facts.rd # "PENDING" => doc.round \in lessons
      BY <3>1 DEF Fits
    <3>3. QED BY <2>1, <3>1, <3>2 DEF NextRound, SuccessorRemembers
  <2>2. CASE ~NextRound
    <3>1. UNCHANGED archive /\ lessons \subseteq lessons'
      BY <2>2 DEF Next, Step, vars, disk, SaveRun, SaveStatus, Halt, NeedPlan,
         NeedMaterialize, NeedGate, NeedHuman, RefuseExecution, NeedExecution,
         NeedParse, RetryExecution, NeedEvidence, NeedReview, NeedMemory,
         RecordExperiment, ApplyReview, GitStep, NextRoundHalts, InitializeRun,
         Reopen, Crash
    <3>2. QED BY <3>1 DEF SuccessorRemembers
  <2>3. QED BY <2>1, <2>2
<1>3. QED BY <1>1, <1>2, TypeCorrect, DocumentsFit, PTL DEF Spec

\* Nothing is executed before it passed the gate, nor at or past max_rounds.
THEOREM ExecutionInBounds == Spec => []ExecutedInBounds
<1>1. Init => ExecutedInBounds
  BY DEF Init, ExecutedInBounds
<1>2. TypeOK /\ DocsFit /\ ExecutedInBounds /\ [Next]_vars => ExecutedInBounds'
  <2> SUFFICES ASSUME TypeOK, DocsFit, ExecutedInBounds, [Next]_vars
               PROVE  ExecutedInBounds'
    OBVIOUS
  <2>1. CASE NeedExecution
    <3>1. /\ doc.facts.rs \in {"APPROVED", "CONTRACTED"} /\ Fits(doc)
          /\ gpu' = gpu \cup {files.contract} /\ UNCHANGED approved
          /\ ~StopRule(status, doc.round)
      BY <2>1, Called DEF NeedExecution, Handles
    <3>2. files.contract = doc.round /\ doc.round \in approved
      BY <3>1 DEF Fits
    <3>3. MaxRounds # NoLimit => doc.round < MaxRounds
      BY <3>1, DocTypes, ConstantsAssumption DEF StopRule, Reached
    <3>4. QED BY <3>1, <3>2, <3>3 DEF ExecutedInBounds
  <2>2. CASE ~NeedExecution
    <3>1. UNCHANGED gpu /\ approved \subseteq approved'
      BY <2>2
         DEF Next, Step, vars, history, SaveRun, SaveStatus, Halt, NeedPlan,
             NeedMaterialize, NeedGate, NeedHuman, RefuseExecution, NeedParse,
             RetryExecution, NeedEvidence, NeedReview, NeedMemory,
             RecordExperiment, ApplyReview, GitStep, NextRound, NextRoundHalts,
             InitializeRun, Reopen, Crash
    <3>2. QED BY <3>1 DEF ExecutedInBounds
  <2>3. QED BY <2>1, <2>2
<1>3. QED BY <1>1, <1>2, TypeCorrect, DocumentsFit, PTL DEF Spec

\* The rounds started, with those a crash may have lost, stay in the budget.
LEMMA BudgetInductive == Spec => []BudgetKept
<1>1. Init => BudgetKept
  <2> SUFFICES ASSUME Init PROVE BudgetKept
    OBVIOUS
  <2>1. DOMAIN archive = {} /\ Started = 0 /\ crashes = 0 /\ status.extra = 0
    BY DEF Init, Started
  <2>2. QED BY <2>1, FS_EmptySet, ConstantsAssumption DEF BudgetKept
<1>2. TypeOK /\ TypeOK' /\ BudgetKept /\ [Next]_vars => BudgetKept'
  <2> SUFFICES ASSUME TypeOK, TypeOK', BudgetKept, [Next]_vars
      PROVE BudgetKept'
    OBVIOUS
  <2>1. /\ status.extra \in Nat /\ mem.status.extra \in Nat /\ crashes \in Nat
        /\ MaxExtra \in Nat /\ Cardinality(DOMAIN archive) \in Nat
    BY ConstantsAssumption, FS_CardinalityType
       DEF TypeOK, Counters, BudgetKept
  <2>2. CASE NextRound
    <3>1. /\ pc = "idle" /\ pc' = "init" /\ status.extra < MaxExtra
          /\ DOMAIN archive' = DOMAIN archive \cup {doc.round}
          /\ UNCHANGED <<status, crashes>>
      BY <2>2 DEF NextRound, Handles, faults
    <3>2. /\ IsFiniteSet(DOMAIN archive')
          /\ Cardinality(DOMAIN archive') \in Nat
          /\ Cardinality(DOMAIN archive') <= Cardinality(DOMAIN archive) + 1
      BY <2>1, <3>1, FS_AddElement, FS_CardinalityType DEF BudgetKept
    <3>3. QED BY <2>1, <3>1, <3>2 DEF BudgetKept, Started
  <2>3. CASE InitializeRun
    <3>1. /\ pc = "init" /\ pc' = "save" /\ UNCHANGED <<status, archive, crashes>>
          /\ mem'.status.extra = status.extra + 1
      BY <2>1, <2>3, DocTypes DEF InitializeRun, faults, Counters
    <3>2. QED BY <2>1, <3>1 DEF BudgetKept, Started
  <2>4. CASE SaveStatus
    <3>1. /\ pc = "status" /\ pc' = "idle" /\ UNCHANGED <<archive, crashes>>
          /\ status' = mem.status
      BY <2>4 DEF SaveStatus, faults
    <3>2. QED BY <2>1, <3>1 DEF BudgetKept, Started
  <2>5. CASE Crash
    <3>1. /\ pc' = "idle" /\ UNCHANGED <<archive, status>>
          /\ crashes' = crashes + 1
      BY <2>5 DEF Crash, disk
    <3>2. QED BY <2>1, <3>1 DEF BudgetKept, Started
  <2>6. CASE SaveRun \/ RecordExperiment \/ ApplyReview
    <3>1. /\ pc \notin {"idle", "init"} /\ pc' \notin {"idle", "init"}
          /\ UNCHANGED <<archive, status, mem, crashes>>
      BY <2>6 DEF SaveRun, RecordExperiment, ApplyReview, GitStep, TypeOK,
         faults
    <3>2. QED BY <3>1 DEF BudgetKept, Started
  <2>7. CASE Reopen \/ UNCHANGED vars
    <3>1. UNCHANGED <<archive, status, mem, crashes, pc>>
      BY <2>7 DEF Reopen, vars, disk, faults
    <3>2. QED BY <3>1 DEF BudgetKept, Started
  <2>8. ASSUME NEW r, NEW f, NEW c, NEW then, Save(r, f, c, then), pc = "idle",
               c.extra = status.extra, UNCHANGED archive
        PROVE  BudgetKept'
    <3>1. /\ pc' = "save" /\ UNCHANGED <<archive, status, crashes>>
          /\ mem'.status.extra = status.extra
      BY <2>8, Saved DEF faults
    <3>2. QED BY <2>1, <2>8, <3>1 DEF BudgetKept, Started
  <2>9. /\ Failed(status).extra = status.extra
        /\ [status EXCEPT !.rejects = @ + 1].extra = status.extra
        /\ \A n : [status EXCEPT !.discards = n].extra = status.extra
    BY DocTypes DEF Failed, Counters
  <2>10. CASE Halt \/ NextRoundHalts \/ NeedPlan \/ NeedHuman \/ RefuseExecution
              \/ RetryExecution \/ NeedMemory
    BY <2>8, <2>10 DEF Halt, NextRoundHalts, NeedPlan, NeedHuman,
       RefuseExecution, RetryExecution, NeedMemory, Handles
  <2>11. CASE NeedMaterialize \/ NeedGate \/ NeedExecution
    BY <2>8, <2>9, <2>11 DEF NeedMaterialize, NeedGate, NeedExecution, Handles
  <2>12. CASE NeedParse \/ NeedEvidence \/ NeedReview
    BY <2>8, <2>9, <2>12 DEF NeedParse, NeedEvidence, NeedReview, Handles
  <2>13. QED
    BY <2>2, <2>3, <2>4, <2>5, <2>6, <2>7, <2>10, <2>11, <2>12 DEF Next, Step
<1>3. QED BY <1>1, <1>2, TypeCorrect, PTL DEF Spec

\* Even when crashes lose the counter of rounds, each crash costs at most one
\* round beyond max_extra_rounds.
THEOREM BudgetHolds == Spec => []RoundsWithinBudget
<1>1. TypeOK /\ BudgetKept => RoundsWithinBudget
  <2> SUFFICES ASSUME TypeOK, BudgetKept PROVE RoundsWithinBudget
    OBVIOUS
  <2>1. /\ Cardinality(DOMAIN archive) \in Nat
        /\ status.extra \in Nat /\ mem.status.extra \in Nat
        /\ crashes \in Nat /\ MaxExtra \in Nat
    BY FS_CardinalityType, ConstantsAssumption DEF BudgetKept, TypeOK, Counters
  <2>2. Started \in Nat
    BY <2>1 DEF Started
  <2>3. QED BY <2>1, <2>2 DEF BudgetKept, RoundsWithinBudget
<1>2. QED BY <1>1, TypeCorrect, BudgetInductive, PTL

-----------------------------------------------------------------------------
(* The run document implements the lifecycle of the freeze *)

\* The instance speaks of the same states, rules and transitions.
LEMMA SameVocabulary ==
    /\ Lifecycle!InitialFacts = InitialFacts
    /\ Lifecycle!RunStates = RunStates
    /\ Lifecycle!RunFacts = RunFacts
    /\ \A f, s : Lifecycle!To(f, s) = To(f, s)
    /\ \A f, g : Legal(f, g) => Lifecycle!Legal(f, g)
    /\ \A f : NextAction(f) = Lifecycle!NextAction(f)
<1>1. /\ Lifecycle!InitialFacts = InitialFacts
      /\ Lifecycle!RunStates = RunStates
      /\ \A f, s : Lifecycle!To(f, s) = To(f, s)
  BY DEF Lifecycle!InitialFacts, InitialFacts, Lifecycle!RunStates, RunStates,
         Lifecycle!To, To
<1>2. Lifecycle!RunFacts = RunFacts
  BY <1>1 DEF Lifecycle!RunFacts, RunFacts, Lifecycle!EvidenceStatuses,
     EvidenceStatuses, Lifecycle!Decisions, Decisions, Lifecycle!Scientific,
     Scientific
<1>3. \A f : Lifecycle!Consistent(f) = Consistent(f)
  BY DEF Lifecycle!Consistent, Consistent, Lifecycle!Scientific, Scientific
<1>4. \A s : Lifecycle!RunTransitions(s) = RunTransitions(s)
  BY DEF Lifecycle!RunTransitions, RunTransitions
<1>5. \A f, g : Legal(f, g) => Lifecycle!Legal(f, g)
  BY <1>3, <1>4 DEF Lifecycle!Legal, Legal
<1>6. \A f : NextAction(f) = Lifecycle!NextAction(f)
  BY DEF Lifecycle!NextAction, NextAction
<1>7. QED BY <1>1, <1>2, <1>5, <1>6

\* Every step of the Manager, and every crash, moves the document on disk as
\* the lifecycle allows, or not at all.
THEOREM Implements == Spec => ImplementsLifecycle
<1>1. Init => Lifecycle!Init
  <2> SUFFICES ASSUME Init PROVE Lifecycle!Init
    OBVIOUS
  <2>1. QED BY SameVocabulary, ConstantsAssumption DEF Init, Lifecycle!Init
<1>2. TypeOK /\ TypeOK' /\ DocsFit /\ [Next]_vars
         => [Lifecycle!Next]_(Lifecycle!vars)
  <2> SUFFICES ASSUME TypeOK, TypeOK', DocsFit, [Next]_vars
               PROVE  [Lifecycle!Next]_(Lifecycle!vars)
    OBVIOUS
  <2>1. CASE SaveRun
    <3>1. /\ doc' = mem.doc /\ mem.doc.round = doc.round
          /\ Reach(doc.facts, mem.doc.facts)
      BY <2>1 DEF SaveRun, DocsFit
    <3>2. Lifecycle!Advance
      BY <3>1, DocTypes, SameVocabulary DEF Lifecycle!Advance, Reach
    <3>3. QED BY <3>2 DEF Lifecycle!Next
  <2>2. CASE InitializeRun
    <3>1. /\ pc = "init"
          /\ doc' = [round |-> files.plan, facts |-> InitialFacts]
      BY <2>2 DEF InitializeRun
    <3>2. NextAction(doc.facts) = "NEXT_ROUND" /\ files.plan > doc.round
      BY <3>1 DEF DocsFit
    <3>3. Lifecycle!NextRound
      BY <3>1, <3>2, DocTypes, SameVocabulary DEF Lifecycle!NextRound
    <3>4. QED BY <3>3 DEF Lifecycle!Next
  <2>3. CASE ~SaveRun /\ ~InitializeRun
    <3>1. UNCHANGED doc
      BY <2>3, Saved DEF Next, Step, vars, disk, SaveStatus, Halt, NeedPlan,
         NeedMaterialize, NeedGate, NeedHuman, RefuseExecution, NeedExecution,
         NeedParse, RetryExecution, NeedEvidence, NeedReview, NeedMemory,
         RecordExperiment, ApplyReview, GitStep, NextRound, NextRoundHalts,
         Reopen, Crash, Save
    <3>2. QED BY <3>1 DEF Lifecycle!vars
  <2>4. QED BY <2>1, <2>2, <2>3
<1>3. QED
  BY <1>1, <1>2, TypeCorrect, DocumentsFit, PTL
     DEF Spec, ImplementsLifecycle, Lifecycle!Spec

\* The run document and the files beside it fit together at every point,
\* crashes between their writes included.
THEOREM SoundDocuments == Spec => []DocumentsSound
<1>1. FactsConsistent /\ FilesOfThisRound => DocumentsSound
  BY DEF DocumentsSound
<1>2. QED BY <1>1, FactsAlwaysConsistent, NoStaleFiles, PTL

\* What is executed passed the gate, every round that has a successor left its
\* lesson, and there are no more of them than the budget and the crashes allow.
THEOREM RoundsAccountedFor == Spec => []RoundsAccounted
<1>1. ExecutedInBounds /\ SuccessorRemembers /\ RoundsWithinBudget => RoundsAccounted
  BY DEF RoundsAccounted
<1>2. QED BY <1>1, ExecutionInBounds, SuccessorsRemember, BudgetHolds, PTL

-----------------------------------------------------------------------------
(* BestUnlessFaulty.  A KEEP moves best_sha to the newest experiment, a     *)
(* DISCARD moves HEAD back to best_sha: both are right because HEAD builds  *)
(* on no discarded round but the one whose review is about to be applied,   *)
(* and best_sha on no round that is still to be decided.                    *)
Undisturbed == crashes = 0 /\ gitErrors = 0

VerdictOn(c) == DecisionOn(commits[c].round)

Clean(c) == \A b \in Lineage(c) : VerdictOn(b) # "DISCARD"

Undecided == doc.facts.rd = "PENDING" \/ pc = "apply"

CommitsFit ==
    \A c \in 1..Len(commits) :
       commits[c].line \subseteq 1..(c - 1) /\ commits[c].round <= doc.round

\* What a step is about to save, and what comes after it.
StepFits ==
    /\ pc = "save" =>
          \/ /\ mem.then = "record"
             /\ doc.facts.rs = "RUNNING" /\ mem.doc.facts.rd = doc.facts.rd
          \/ /\ mem.then = "apply"
             /\ doc.facts.rs = "COMPLETED" /\ mem.doc.facts.rs = "COMPLETED"
             /\ doc.facts.rd = "PENDING"
          \/ /\ mem.then = "status" /\ mem.doc.facts.rd = doc.facts.rd
             /\ mem.doc.facts.rs = "COMPLETED" => doc.facts.rs = "COMPLETED"
    /\ pc = "record" => doc.facts.rd = "PENDING"
    /\ pc = "apply" => doc.facts.rs = "COMPLETED"
    /\ pc = "init" => doc.round \in DOMAIN archive /\ archive[doc.round] = doc.facts

PointersFit ==
    /\ git.best # 0 => VerdictOn(git.best) = "KEEP"
    /\ Clean(git.best)
    /\ \/ pc = "apply" /\ doc.facts.rd = "DISCARD"
       \/ Clean(git.head)
    /\ Undecided => \A b \in Lineage(git.best) : commits[b].round # doc.round
    /\ doc.facts.rs = "COMPLETED" /\ pc # "record" /\ Undecided =>
          /\ git.exp = git.head /\ git.exp # 0
          /\ commits[git.exp].round = doc.round

GitKept ==
    Undisturbed /\ HasGit => CommitsFit /\ StepFits /\ PointersFit

NoGit == ~HasGit => git.best = 0


LEMMA CommitTypes ==
    ASSUME TypeOK
    PROVE  /\ commits \in Seq([round: Nat, line: SUBSET Nat]) /\ Len(commits) \in Nat
           /\ git.exp \in 0..Len(commits) /\ git.best \in 0..Len(commits)
           /\ git.head \in 0..Len(commits)
           /\ git = [exp |-> git.exp, best |-> git.best, head |-> git.head]
           /\ \A c \in 1..Len(commits) : commits[c].round \in Nat
<1>1. /\ commits \in Seq([round: Nat, line: SUBSET Nat])
      /\ git \in [exp: 0..Len(commits), best: 0..Len(commits), head: 0..Len(commits)]
  BY DEF TypeOK
<1>2. Len(commits) \in Nat
  BY <1>1
<1> DEFINE R == [round: Nat, line: SUBSET Nat]
<1>4. ASSUME NEW c \in 1..Len(commits) PROVE commits[c].round \in Nat
  <2>1. \A S : commits \in Seq(S) => commits[c] \in S
    BY <1>2
  <2>2. commits[c] \in R
    BY <1>1, <2>1
  <2>3. QED BY <2>2
<1>3. /\ git.exp \in 0..Len(commits) /\ git.best \in 0..Len(commits)
      /\ git.head \in 0..Len(commits)
      /\ git = [exp |-> git.exp, best |-> git.best, head |-> git.head]
  BY <1>1
<1>5. QED BY <1>1, <1>2, <1>3, <1>4

\* The commits that a commit builds on are commits.
LEMMA LineageFits ==
    ASSUME TypeOK, CommitsFit, NEW c \in 0..Len(commits)
    PROVE  Lineage(c) \subseteq 1..Len(commits)
<1>1. CASE c = 0
  BY <1>1 DEF Lineage
<1>2. CASE c # 0
  <2>1. c \in 1..Len(commits) /\ Len(commits) \in Nat
    BY <1>2, CommitTypes
  <2>2. commits[c].line \subseteq 1..(c - 1)
    BY <2>1 DEF CommitsFit
  <2>3. QED BY <1>2, <2>1, <2>2 DEF Lineage
<1>3. QED BY <1>1, <1>2

\* While the commits and the decisions on their rounds stay, so do the
\* pointers: what is left to show is what the new place of the step asks for.
LEMMA PointersStay ==
    ASSUME TypeOK, CommitsFit, PointersFit, UNCHANGED <<git, commits>>,
           doc'.round = doc.round,
           \A c \in 1..Len(commits) : VerdictOn(c)' = VerdictOn(c),
           ~(pc = "apply" /\ doc.facts.rd = "DISCARD"),
           Undecided' => Undecided,
           doc'.facts.rs = "COMPLETED" /\ pc' # "record" /\ Undecided' =>
              doc.facts.rs = "COMPLETED" /\ pc # "record"
    PROVE  CommitsFit' /\ PointersFit'
<1>1. CommitsFit'
  BY DEF CommitsFit
<1>2. \A c \in 0..Len(commits) : Lineage(c) \subseteq 1..Len(commits)
  BY LineageFits
<1>3. /\ Clean(git.best) /\ Clean(git.head)
      /\ git.best \in 0..Len(commits) /\ git.head \in 0..Len(commits)
      /\ Len(commits) \in Nat
  BY CommitTypes DEF PointersFit
<1>4. Clean(git.best)' /\ Clean(git.head)'
  <2>1. ASSUME NEW c \in 0..Len(commits), Clean(c) PROVE Clean(c)'
    BY <1>2, <2>1 DEF Clean, Lineage
  <2>2. PICK b : b = git.best
    OBVIOUS
  <2>3. PICK h : h = git.head
    OBVIOUS
  <2>4. Clean(b)' /\ Clean(h)'
    BY <1>3, <2>1, <2>2, <2>3
  <2>5. b = git'.best /\ h = git'.head
    BY <2>2, <2>3
  <2>6. QED BY <2>4, <2>5 DEF Clean
<1>5. (git.best # 0 => VerdictOn(git.best) = "KEEP")'
  <2>1. PICK b \in 0..Len(commits) : b = git.best
    BY <1>3
  <2>2. b # 0 => VerdictOn(b) = "KEEP" /\ b \in 1..Len(commits)
    BY <1>3, <2>1 DEF PointersFit
  <2>3. b # 0 => VerdictOn(b)' = "KEEP"
    BY <2>2
  <2>4. QED BY <2>1, <2>3 DEF VerdictOn
<1>6. Undecided' => \A b \in Lineage(git.best)' : commits'[b].round # doc'.round
  BY DEF PointersFit, Lineage
<1>7. doc'.facts.rs = "COMPLETED" /\ pc' # "record" /\ Undecided' =>
         /\ git'.exp = git'.head /\ git'.exp # 0
         /\ commits'[git'.exp].round = doc'.round
  BY DEF PointersFit
<1>8. QED BY <1>1, <1>4, <1>5, <1>6, <1>7 DEF PointersFit, VerdictOn


\* A handler that has called Save: nothing it may not undo is on disk yet.
LEMMA SavedKept ==
    ASSUME TypeOK, CommitsFit, PointersFit, pc = "idle",
           NEW f, NEW c, NEW then, Save(doc.round, f, c, then),
              UNCHANGED archive,
           \/ then = "record" /\ doc.facts.rs = "RUNNING" /\ f.rd = doc.facts.rd
           \/ /\ then = "apply" /\ doc.facts.rs = "COMPLETED" /\ f.rs = "COMPLETED"
              /\ doc.facts.rd = "PENDING"
           \/ /\ then = "status" /\ f.rd = doc.facts.rd
              /\ f.rs = "COMPLETED" => doc.facts.rs = "COMPLETED"
    PROVE  CommitsFit' /\ StepFits' /\ PointersFit'
<1>1. /\ mem'.doc.facts = f /\ mem'.then = then /\ pc' = "save"
      /\ UNCHANGED <<doc, git, commits, archive>>
  BY DEF Save
<1>2. StepFits'
  BY <1>1 DEF StepFits
<1>3. \A b \in 1..Len(commits) : VerdictOn(b)' = VerdictOn(b)
  BY <1>1 DEF VerdictOn, DecisionOn
<1>4. Undecided' => Undecided
  BY <1>1 DEF Undecided
<1>5. QED BY <1>1, <1>2, <1>3, <1>4, PointersStay

\* The handlers that save and go on to manager_status.json.
LEMMA MoveKept ==
    ASSUME TypeOK, CommitsFit, PointersFit, pc = "idle",
           NEW s \in RunStates \ {"COMPLETED"}, NEW c,
           Save(doc.round, To(doc.facts, s), c, "status"), UNCHANGED archive
    PROVE  CommitsFit' /\ StepFits' /\ PointersFit'
<1>1. PICK f : f = To(doc.facts, s)
  OBVIOUS
<1>2. f.rd = doc.facts.rd /\ f.rs = s
  BY <1>1, DocTypes, ToFacts
<1>3. QED BY <1>1, <1>2, SavedKept

LEMMA HandlersKeep ==
    ASSUME TypeOK, DocsFit, CommitsFit, PointersFit,
           \/ Halt \/ NeedPlan \/ NeedMaterialize \/ NeedGate \/ NeedHuman
           \/ RefuseExecution \/ NeedExecution \/ NeedParse \/ RetryExecution
           \/ NeedEvidence \/ NeedReview \/ NeedMemory \/ NextRoundHalts
    PROVE  CommitsFit' /\ StepFits' /\ PointersFit'
<1>1. doc.facts \in RunFacts /\ Fits(doc) /\ Judged(doc.facts)
  BY DocTypes DEF DocsFit, Fits
<1>2. CASE Halt \/ NextRoundHalts
  <2>1. /\ pc = "idle" /\ UNCHANGED archive
        /\ Save(doc.round, HaltFacts(doc.facts), status, "status")
    BY <1>2 DEF Halt, NextRoundHalts, Handles
  <2>2. PICK f : f = HaltFacts(doc.facts)
    OBVIOUS
  <2>3. f.rs = "STOPPED" /\ f.rd = doc.facts.rd
    BY <1>1, <2>2, HaltLegal
  <2>4. QED BY <2>1, <2>2, <2>3, SavedKept
<1>3. CASE NeedPlan
  <2>1. pc = "idle" /\ doc.facts.rs = "CREATED" /\ files.plan = doc.round
    BY <1>1, <1>3, Called DEF NeedPlan, Fits
  <2>2. Save(doc.round, To(doc.facts, "PLANNED"), status, "status") /\ UNCHANGED archive
    BY <1>3, <2>1 DEF NeedPlan
  <2>3. QED BY <2>1, <2>2, MoveKept DEF RunStates
<1>4. CASE NeedMaterialize \/ NeedGate \/ NeedHuman \/ RefuseExecution \/ RetryExecution
  <2>1. pc = "idle" /\ UNCHANGED archive
    BY <1>4
       DEF NeedMaterialize, NeedGate, NeedHuman, RefuseExecution,
           RetryExecution, Handles
  <2>2. PICK s \in {"MATERIALIZED", "BLOCKED", "APPROVED", "GATED"},
             c \in {status, [status EXCEPT !.rejects = @ + 1]} :
           Save(doc.round, To(doc.facts, s), c, "status")
    BY <1>4 DEF NeedMaterialize, NeedGate, NeedHuman, RefuseExecution,
       RetryExecution
  <2>3. QED BY <2>1, <2>2, MoveKept DEF RunStates
<1>5. CASE NeedExecution
  <2>1. pc = "idle" /\ UNCHANGED archive
    BY <1>5 DEF NeedExecution, Handles
  <2>2. PICK s \in {"FAILED", "RUNNING"}, c \in {status, Failed(status)} :
           Save(doc.round, To(doc.facts, s), c, "status")
    BY <1>5 DEF NeedExecution
  <2>3. QED BY <2>1, <2>2, MoveKept DEF RunStates
<1>6. CASE NeedParse
  <2>1. pc = "idle" /\ UNCHANGED archive /\ doc.facts.rs = "RUNNING"
    BY <1>6, Called DEF NeedParse
  <2>2. PICK s \in {"FAILED", "COMPLETED"}, c \in {status, Failed(status)} :
           Save(doc.round, To(doc.facts, s), c, "record")
    BY <1>6 DEF NeedParse
  <2>3. PICK f : f = To(doc.facts, s)
    OBVIOUS
  <2>4. f.rd = doc.facts.rd
    BY <1>1, <2>3, ToFacts DEF RunStates
  <2>5. QED BY <2>1, <2>2, <2>3, <2>4, SavedKept
<1>7. CASE NeedEvidence
  <2>1. pc = "idle" /\ UNCHANGED archive /\ doc.facts.rs = "COMPLETED"
    BY <1>7, Called DEF NeedEvidence
  <2>2. PICK ev : Save(doc.round, [doc.facts EXCEPT !.ev = ev], status, "status")
    BY <1>7 DEF NeedEvidence
  <2>3. PICK f : f = [doc.facts EXCEPT !.ev = ev]
    OBVIOUS
  <2>4. f.rd = doc.facts.rd
    BY <1>1, <2>3 DEF RunFacts
  <2>5. QED BY <2>1, <2>2, <2>3, <2>4, SavedKept
<1>8. CASE NeedReview
  <2>1. pc = "idle" /\ UNCHANGED archive /\ doc.facts.rs = "COMPLETED"
    BY <1>8, Called DEF NeedReview
  <2>2. doc.facts.rd = "PENDING"
    BY <1>1, <1>8, <2>1 DEF NeedReview, Handles, NextAction
  <2>3. PICK rd, c : Save(doc.round, [doc.facts EXCEPT !.rd = rd], c, "apply")
    BY <1>8 DEF NeedReview
  <2>4. PICK f : f = [doc.facts EXCEPT !.rd = rd]
    OBVIOUS
  <2>5. f.rs = "COMPLETED"
    BY <1>1, <2>1, <2>4 DEF RunFacts
  <2>6. QED BY <2>1, <2>2, <2>3, <2>4, <2>5, SavedKept
<1>9. CASE NeedMemory
  <2>1. pc = "idle" /\ UNCHANGED archive
    BY <1>9 DEF NeedMemory, Handles
  <2>2. Save(doc.round, To(doc.facts, "MEMORY_WRITTEN"), status, "status")
    BY <1>9 DEF NeedMemory
  <2>3. QED BY <2>1, <2>2, MoveKept DEF RunStates
<1>10. QED BY <1>2, <1>3, <1>4, <1>5, <1>6, <1>7, <1>8, <1>9


\* experiment_run.json is replaced: a decision becomes one, of a round that
\* best_sha does not build on.
LEMMA SaveRunKept ==
    ASSUME TypeOK, DocsFit, CommitsFit, StepFits, PointersFit, SaveRun
    PROVE  CommitsFit' /\ StepFits' /\ PointersFit'
<1>1. /\ pc = "save" /\ doc' = mem.doc /\ pc' = mem.then
      /\ UNCHANGED <<archive, git, commits, mem>>
  BY DEF SaveRun
<1>2. doc'.round = doc.round /\ doc.facts \in RunFacts /\ Judged(doc.facts)
  BY <1>1, DocTypes DEF DocsFit, Fits
<1>3. \A b \in 1..Len(commits) :
         commits[b].round # doc.round => VerdictOn(b)' = VerdictOn(b)
  BY <1>1, <1>2 DEF VerdictOn, DecisionOn
<1>4. ASSUME doc'.facts.rd = doc.facts.rd
      PROVE  \A b \in 1..Len(commits) : VerdictOn(b)' = VerdictOn(b)
  BY <1>1, <1>2, <1>4 DEF VerdictOn, DecisionOn
<1>5. CASE mem.then = "record"
  <2>1. /\ doc.facts.rs = "RUNNING" /\ doc'.facts.rd = doc.facts.rd
        /\ doc.facts.rd = "PENDING" /\ pc' = "record"
    BY <1>1, <1>2, <1>5 DEF StepFits, Judged
  <2>2. StepFits' /\ (Undecided' => Undecided)
    BY <2>1 DEF StepFits, Undecided
  <2>3. QED BY <1>1, <1>2, <1>4, <2>1, <2>2, PointersStay
<1>6. CASE mem.then = "status"
  <2>1. /\ doc'.facts.rd = doc.facts.rd /\ pc' = "status"
        /\ doc'.facts.rs = "COMPLETED" => doc.facts.rs = "COMPLETED"
    BY <1>1, <1>6 DEF StepFits
  <2>2. StepFits' /\ (Undecided' => Undecided)
    BY <2>1 DEF StepFits, Undecided
  <2>3. QED BY <1>1, <1>2, <1>4, <2>1, <2>2, PointersStay
<1>7. CASE mem.then = "apply"
  <2>1. /\ doc.facts.rs = "COMPLETED" /\ doc'.facts.rs = "COMPLETED"
        /\ doc.facts.rd = "PENDING" /\ pc' = "apply"
    BY <1>1, <1>7 DEF StepFits
  <2>2. StepFits' /\ CommitsFit' /\ Undecided
    BY <1>1, <1>2, <2>1 DEF StepFits, CommitsFit, Undecided
  <2>3. PICK b \in 0..Len(commits) : b = git.best
    BY CommitTypes
  <2>4. PICK h \in 0..Len(commits) : h = git.head
    BY CommitTypes
  <2>5. /\ Lineage(b) \subseteq 1..Len(commits) /\ Lineage(h) \subseteq 1..Len(commits)
        /\ b # 0 => b \in Lineage(b)
    BY LineageFits DEF Lineage
  <2>6. /\ Clean(b) /\ (b # 0 => VerdictOn(b) = "KEEP")
        /\ \A c \in Lineage(b) : commits[c].round # doc.round
    BY <2>2, <2>3 DEF PointersFit
  <2>7. Lineage(b)' = Lineage(b) /\ Lineage(h)' = Lineage(h)
    BY <1>1 DEF Lineage
  <2>8. Clean(b)' /\ (b # 0 => VerdictOn(b)' = "KEEP")
    BY <1>3, <2>5, <2>6, <2>7 DEF Clean
  <2>9. doc'.facts.rd = "DISCARD" \/ Clean(h)'
    <3>1. SUFFICES ASSUME doc'.facts.rd # "DISCARD", NEW c \in Lineage(h)
                   PROVE  VerdictOn(c)' # "DISCARD"
      BY <2>7 DEF Clean
    <3>2. CASE commits[c].round = doc.round
      BY <1>1, <1>2, <3>1, <3>2 DEF VerdictOn, DecisionOn
    <3>3. CASE commits[c].round # doc.round
      <4>1. VerdictOn(c) # "DISCARD"
        BY <1>1, <2>4 DEF PointersFit, Clean
      <4>2. QED BY <1>3, <2>5, <3>1, <3>3, <4>1
    <3>4. QED BY <3>2, <3>3
  <2>10. /\ git.exp = git.head /\ git.exp # 0
         /\ commits[git.exp].round = doc.round
    BY <1>1, <2>1, <2>2 DEF PointersFit
  <2>11. b = git'.best /\ h = git'.head
    BY <1>1, <2>3, <2>4
  <2>12. (git.best # 0 => VerdictOn(git.best) = "KEEP")' /\ Clean(git.best)'
    BY <2>8, <2>11 DEF VerdictOn, Clean
  <2>13. (pc = "apply" /\ doc.facts.rd = "DISCARD")' \/ Clean(git.head)'
    BY <2>1, <2>9, <2>11 DEF Clean
  <2>14. \A c \in Lineage(git.best)' : commits'[c].round # doc'.round
    BY <1>1, <1>2, <2>3, <2>6, <2>7, <2>11
  <2>15. QED BY <1>1, <1>2, <2>2, <2>10, <2>12, <2>13, <2>14 DEF PointersFit
<1>8. QED BY <1>1, <1>5, <1>6, <1>7 DEF TypeOK

\* The rest of the step, and another Manager.
LEMMA RestKept ==
    ASSUME TypeOK, CommitsFit, StepFits, PointersFit,
           SaveStatus \/ Reopen \/ UNCHANGED vars
    PROVE  CommitsFit' /\ StepFits' /\ PointersFit'
<1>1. CASE SaveStatus \/ Reopen
  <2>1. /\ pc \in {"idle", "status"} /\ pc' = "idle"
        /\ UNCHANGED <<doc, archive, git, commits>>
    BY <1>1 DEF SaveStatus, Reopen, disk
  <2>2. \A b \in 1..Len(commits) : VerdictOn(b)' = VerdictOn(b)
    BY <2>1 DEF VerdictOn, DecisionOn
  <2>3. StepFits' /\ (Undecided' => Undecided)
    BY <2>1 DEF StepFits, Undecided
  <2>4. QED BY <2>1, <2>2, <2>3, PointersStay
<1>2. CASE UNCHANGED vars
  BY <1>2
     DEF vars, disk, CommitsFit, StepFits, PointersFit, Undecided, Clean,
         Lineage, VerdictOn, DecisionOn
<1>3. QED BY <1>1, <1>2

LEMMA RecordKept ==
    ASSUME TypeOK, CommitsFit, StepFits, PointersFit, HasGit,
           RecordExperiment, gitErrors' = gitErrors
    PROVE  CommitsFit' /\ StepFits' /\ PointersFit'
<1>1. /\ pc = "record" /\ pc' = "status" /\ UNCHANGED <<doc, archive, mem>>
  BY DEF RecordExperiment, GitStep
<1>2. PICK n : n = Len(commits) + 1
  OBVIOUS
<1>3. /\ commits' = Append(commits, [round |-> doc.round, line |-> Lineage(git.head)])
      /\ git' = [git EXCEPT !.exp = n, !.head = n]
  <2>1. ~GitFails
    BY DEF GitFails, TypeOK
  <2>2. QED BY <1>2, <2>1 DEF RecordExperiment, CommitExperiment
<1>4. /\ Len(commits) \in Nat /\ n \in Nat /\ n # 0 /\ Len(commits') = n
      /\ \A c \in 1..Len(commits) : commits'[c] = commits[c] /\ c # n
      /\ commits'[n].round = doc.round /\ commits'[n].line = Lineage(git.head)
      /\ \A c \in 1..n : c = n \/ c \in 1..Len(commits)
  BY <1>2, <1>3, CommitTypes
<1>5. PICK b \in 0..Len(commits) : b = git.best
  BY CommitTypes
<1>6. PICK h \in 0..Len(commits) : h = git.head
  BY CommitTypes
<1>7. git'.exp = n /\ git'.head = n /\ git'.best = b
  BY <1>3, <1>5, CommitTypes
<1>8. Lineage(b) \subseteq 1..Len(commits) /\ Lineage(h) \subseteq 1..Len(commits)
  BY LineageFits
<1>9. doc.facts.rd = "PENDING" /\ doc.round \in Nat
  BY <1>1, DocTypes DEF StepFits
<1>10. \A c \in 1..Len(commits) : VerdictOn(c)' = VerdictOn(c)
  BY <1>1, <1>4 DEF VerdictOn, DecisionOn
<1>11. Lineage(b)' = Lineage(b) /\ Lineage(n)' = Lineage(h) \cup {n}
  <2>1. b # 0 => b \in 1..Len(commits)
    OBVIOUS
  <2>2. QED BY <1>4, <1>6, <2>1 DEF Lineage
<1>12. CommitsFit'
  <2>1. n - 1 = Len(commits)
    BY <1>2, <1>4
  <2>2. commits'[n].line \subseteq 1..(n - 1) /\ commits'[n].round <= doc'.round
    BY <1>1, <1>4, <1>6, <1>8, <1>9, <2>1
  <2>3. ASSUME NEW c \in 1..Len(commits)
        PROVE  commits'[c].line \subseteq 1..(c - 1) /\ commits'[c].round <= doc'.round
    BY <1>1, <1>4 DEF CommitsFit
  <2>4. QED BY <1>4, <2>2, <2>3 DEF CommitsFit
<1>13. StepFits'
  BY <1>1 DEF StepFits
<1>14. Clean(b)' /\ Clean(n)'
  <2>1. Clean(b) /\ Clean(h)
    BY <1>1, <1>5, <1>6 DEF PointersFit
  <2>2. VerdictOn(n)' = "PENDING"
    BY <1>1, <1>4, <1>9 DEF VerdictOn, DecisionOn
  <2>3. QED BY <1>8, <1>10, <1>11, <2>1, <2>2 DEF Clean
<1>15. b # 0 => VerdictOn(b)' = "KEEP"
  BY <1>5, <1>10 DEF PointersFit
<1>16. \A c \in Lineage(b)' : commits'[c].round # doc'.round
  BY <1>1, <1>4, <1>5, <1>8, <1>9, <1>11 DEF PointersFit, Undecided
<1>17. /\ (git.best # 0 => VerdictOn(git.best) = "KEEP")'
       /\ Clean(git.best)' /\ Clean(git.head)'
       /\ \A c \in Lineage(git.best)' : commits'[c].round # doc'.round
  BY <1>7, <1>14, <1>15, <1>16 DEF Clean, VerdictOn, Lineage
<1>18. QED BY <1>1, <1>4, <1>7, <1>12, <1>13, <1>17 DEF PointersFit

LEMMA ApplyKept ==
    ASSUME TypeOK, CommitsFit, StepFits, PointersFit, HasGit,
           ApplyReview, gitErrors' = gitErrors
    PROVE  CommitsFit' /\ StepFits' /\ PointersFit'
<1>1. pc = "apply" /\ pc' = "status" /\ UNCHANGED <<doc, archive, mem>>
  BY DEF ApplyReview, GitStep
<1>2. git' = MovePointers(doc.facts.rd) /\ commits' = commits
  <2>1. ~GitFails
    BY DEF GitFails, TypeOK
  <2>2. QED BY <2>1 DEF ApplyReview
<1>3. CommitsFit' /\ StepFits'
  BY <1>1, <1>2 DEF CommitsFit, StepFits
<1>4. PICK b \in 0..Len(commits) : b = git.best
  BY CommitTypes
<1>5. PICK h \in 0..Len(commits) : h = git.head
  BY CommitTypes
<1>6. /\ git.exp = h /\ h # 0 /\ commits[h].round = doc.round
      /\ Clean(b) /\ (b # 0 => VerdictOn(b) = "KEEP")
      /\ doc.facts.rd = "DISCARD" \/ Clean(h)
      /\ \A c \in Lineage(b) : commits[c].round # doc.round
  BY <1>1, <1>4, <1>5 DEF PointersFit, StepFits, Undecided
<1>7. /\ \A c : VerdictOn(c)' = VerdictOn(c) /\ Lineage(c)' = Lineage(c)
      /\ \A c : Clean(c) => Clean(c)'
  BY <1>1, <1>2 DEF VerdictOn, DecisionOn, Lineage, Clean
<1>8. PICK e : e = git'.best
  OBVIOUS
<1>9. PICK g : g = git'.head
  OBVIOUS
<1>10. /\ e # 0 => VerdictOn(e)' = "KEEP"
       /\ Clean(e)' /\ Clean(g)'
       /\ doc.facts.rd = "PENDING" =>
             /\ \A c \in Lineage(e)' : commits[c].round # doc.round
             /\ git' = git
  <2>1. CASE doc.facts.rd = "KEEP"
    <3>1. e = h /\ g = h
      BY <1>2, <1>4, <1>5, <1>6, <1>8, <1>9, <2>1, CommitTypes DEF MovePointers
    <3>2. VerdictOn(h) = "KEEP"
      BY <1>6, <2>1 DEF VerdictOn, DecisionOn
    <3>3. QED BY <1>6, <1>7, <2>1, <3>1, <3>2
  <2>2. CASE doc.facts.rd = "DISCARD"
    <3>1. e = b /\ g = b
      BY <1>2, <1>4, <1>5, <1>8, <1>9, <2>2, CommitTypes DEF MovePointers
    <3>2. QED BY <1>6, <1>7, <2>2, <3>1
  <2>3. CASE doc.facts.rd \notin {"KEEP", "DISCARD"}
    <3>1. git' = git /\ e = b /\ g = h
      BY <1>2, <1>4, <1>5, <1>8, <1>9, <2>3 DEF MovePointers
    <3>2. QED BY <1>6, <1>7, <2>3, <3>1
  <2>4. QED BY <2>1, <2>2, <2>3
<1>11. /\ (git.best # 0 => VerdictOn(git.best) = "KEEP")'
       /\ Clean(git.best)' /\ Clean(git.head)'
  BY <1>8, <1>9, <1>10 DEF Clean, VerdictOn
<1>12. Undecided' => doc.facts.rd = "PENDING"
  BY <1>1 DEF Undecided
<1>13. Undecided' => \A c \in Lineage(git.best)' : commits'[c].round # doc'.round
  BY <1>1, <1>2, <1>8, <1>10, <1>12 DEF Lineage
<1>14. Undecided' => /\ git'.exp = git'.head /\ git'.exp # 0
                     /\ commits'[git'.exp].round = doc'.round
  BY <1>1, <1>2, <1>5, <1>6, <1>10, <1>12
<1>15. QED BY <1>3, <1>11, <1>13, <1>14 DEF PointersFit


\* The old round is archived with the decision that was taken on it.
LEMMA NextRoundKept ==
    ASSUME TypeOK, CommitsFit, StepFits, PointersFit, NextRound
    PROVE  CommitsFit' /\ StepFits' /\ PointersFit'
<1>1. /\ pc = "idle" /\ pc' = "init" /\ UNCHANGED <<doc, git, commits>>
      /\ archive' = [r \in DOMAIN archive \cup {doc.round} |->
                        IF r = doc.round THEN doc.facts ELSE archive[r]]
  BY DEF NextRound, Handles
<1>2. \A b \in 1..Len(commits) : VerdictOn(b)' = VerdictOn(b)
  BY <1>1 DEF VerdictOn, DecisionOn
<1>3. StepFits' /\ (Undecided' => Undecided)
  BY <1>1 DEF StepFits, Undecided
<1>4. QED BY <1>1, <1>2, <1>3, PointersStay

\* The new run is of a round no commit is of.
LEMMA InitializeKept ==
    ASSUME TypeOK, DocsFit, CommitsFit, StepFits, PointersFit, InitializeRun
    PROVE  CommitsFit' /\ StepFits' /\ PointersFit'
<1>1. PICK r : r = files.plan
  OBVIOUS
<1>2. /\ pc = "init" /\ pc' = "save" /\ UNCHANGED <<archive, git, commits>>
      /\ doc' = [round |-> r, facts |-> InitialFacts]
      /\ mem'.doc.facts = To(InitialFacts, "PLANNED") /\ mem'.then = "status"
  BY <1>1 DEF InitializeRun
<1>3. /\ doc'.round = r /\ doc'.facts.rs = "CREATED" /\ doc'.facts.rd = "PENDING"
      /\ mem'.doc.facts.rs = "PLANNED" /\ mem'.doc.facts.rd = "PENDING"
  BY <1>2, InitialTypes, ToFacts DEF RunStates
<1>4. StepFits'
  BY <1>2, <1>3 DEF StepFits
<1>5. r \in Nat /\ doc.round \in Nat /\ r > doc.round
  BY <1>1, <1>2, DocTypes DEF DocsFit
<1>6. \A c \in 1..Len(commits) : /\ commits[c].round <= doc.round
                                 /\ commits[c].round <= r /\ commits[c].round # r
  <2>1. ASSUME NEW c \in 1..Len(commits)
        PROVE  commits[c].round \in Nat /\ commits[c].round <= doc.round
    BY CommitTypes DEF CommitsFit
  <2>2. QED BY <1>5, <2>1
<1>7. CommitsFit'
  BY <1>2, <1>3, <1>6 DEF CommitsFit
<1>8. ASSUME NEW c \in 1..Len(commits) PROVE VerdictOn(c)' = VerdictOn(c)
  <2>1. CASE commits[c].round = doc.round
    <3>1. VerdictOn(c) = doc.facts.rd /\ archive[doc.round].rd = doc.facts.rd
          /\ doc.round \in DOMAIN archive
      BY <1>2, <2>1 DEF VerdictOn, DecisionOn, StepFits
    <3>2. QED BY <1>2, <1>3, <1>6, <2>1, <3>1 DEF VerdictOn, DecisionOn
  <2>2. CASE commits[c].round # doc.round
    BY <1>2, <1>3, <1>6, <2>2 DEF VerdictOn, DecisionOn
  <2>3. QED BY <2>1, <2>2
<1>9. PICK b \in 0..Len(commits) : b = git.best
  BY CommitTypes
<1>10. PICK h \in 0..Len(commits) : h = git.head
  BY CommitTypes
<1>11. /\ Lineage(b) \subseteq 1..Len(commits) /\ Lineage(h) \subseteq 1..Len(commits)
       /\ b # 0 => b \in 1..Len(commits)
  BY LineageFits
<1>12. Clean(b) /\ Clean(h) /\ (b # 0 => VerdictOn(b) = "KEEP")
  BY <1>2, <1>9, <1>10 DEF PointersFit
<1>13. Lineage(b)' = Lineage(b) /\ Lineage(h)' = Lineage(h)
  BY <1>2 DEF Lineage
<1>14. Clean(b)' /\ Clean(h)' /\ (b # 0 => VerdictOn(b)' = "KEEP")
  BY <1>8, <1>11, <1>12, <1>13 DEF Clean
<1>15. b = git'.best /\ h = git'.head
  BY <1>2, <1>9, <1>10
<1>16. /\ (git.best # 0 => VerdictOn(git.best) = "KEEP")'
       /\ Clean(git.best)' /\ Clean(git.head)'
       /\ \A c \in Lineage(git.best)' : commits'[c].round # doc'.round
  BY <1>2, <1>3, <1>6, <1>11, <1>13, <1>14, <1>15 DEF Clean, VerdictOn, Lineage
<1>17. QED BY <1>3, <1>4, <1>7, <1>16 DEF PointersFit

LEMMA GitHolds == Spec => [](GitKept /\ NoGit)
<1>1. Init => GitKept /\ NoGit
  <2> SUFFICES ASSUME Init PROVE GitKept /\ NoGit
    OBVIOUS
  <2>1. /\ git.best = 0 /\ git.head = 0 /\ Len(commits) = 0 /\ pc = "idle"
        /\ doc.facts.rs = "CREATED"
    BY InitialTypes DEF Init
  <2>2. CommitsFit /\ StepFits /\ PointersFit
    BY <2>1 DEF CommitsFit, StepFits, PointersFit, Clean, Lineage
  <2>3. QED BY <2>1, <2>2 DEF GitKept, NoGit
<1>2. TypeOK /\ DocsFit /\ GitKept /\ NoGit /\ [Next]_vars => GitKept' /\ NoGit'
  <2> SUFFICES ASSUME TypeOK, DocsFit, GitKept, NoGit, [Next]_vars
               PROVE  GitKept' /\ NoGit'
    OBVIOUS
  <2>1. NoGit'
    <3>1. CASE git' = git
      BY <3>1 DEF NoGit
    <3>2. CASE RecordExperiment \/ ApplyReview
      BY <3>2 DEF RecordExperiment, ApplyReview, GitFails, NoGit
    <3>3. CASE \/ SaveRun \/ SaveStatus \/ NextRound \/ InitializeRun \/ Reopen \/ Crash
               \/ UNCHANGED vars
      <4>1. git' = git
        BY <3>3 DEF SaveRun, SaveStatus, NextRound, InitializeRun, Reopen,
           Crash, vars, disk
      <4>2. QED BY <3>1, <4>1
    <3>4. CASE \/ Halt \/ NeedPlan \/ NeedMaterialize \/ NeedGate \/ NeedHuman
               \/ RefuseExecution \/ NeedExecution \/ NeedParse \/ RetryExecution
               \/ NeedEvidence \/ NeedReview \/ NeedMemory \/ NextRoundHalts
      <4>1. \E r, f, c, then : Save(r, f, c, then)
        BY <3>4
           DEF Halt, NeedPlan, NeedMaterialize, NeedGate, NeedHuman,
               RefuseExecution, NeedExecution, NeedParse, RetryExecution,
               NeedEvidence, NeedReview, NeedMemory, NextRoundHalts
      <4>2. QED BY <3>1, <4>1 DEF Save
    <3>5. QED BY <3>2, <3>3, <3>4 DEF Next, Step
  <2>2. SUFFICES ASSUME Undisturbed', HasGit
                 PROVE  CommitsFit' /\ StepFits' /\ PointersFit'
    BY <2>1 DEF GitKept
  <2>3. ~Crash
    BY <2>2 DEF Crash, Undisturbed, TypeOK
  <2>4. Undisturbed /\ gitErrors' = gitErrors
    <3>1. CASE RecordExperiment \/ ApplyReview
      BY <2>2, <3>1 DEF RecordExperiment, ApplyReview, GitStep, GitFails,
         Undisturbed, TypeOK
    <3>2. CASE \/ SaveRun \/ SaveStatus \/ NextRound \/ InitializeRun \/ Reopen
               \/ UNCHANGED vars
      BY <2>2, <3>2
         DEF SaveRun, SaveStatus, NextRound, InitializeRun, Reopen, vars,
             faults, Undisturbed
    <3>3. CASE \/ Halt \/ NeedPlan \/ NeedMaterialize \/ NeedGate \/ NeedHuman
               \/ RefuseExecution \/ NeedExecution \/ NeedParse \/ RetryExecution
               \/ NeedEvidence \/ NeedReview \/ NeedMemory \/ NextRoundHalts
      <4>1. \E r, f, c, then : Save(r, f, c, then)
        BY <3>3
           DEF Halt, NeedPlan, NeedMaterialize, NeedGate, NeedHuman,
               RefuseExecution, NeedExecution, NeedParse, RetryExecution,
               NeedEvidence, NeedReview, NeedMemory, NextRoundHalts
      <4>2. QED BY <2>2, <4>1 DEF Save, faults, Undisturbed
    <3>4. QED BY <2>3, <3>1, <3>2, <3>3 DEF Next, Step
  <2>5. CommitsFit /\ StepFits /\ PointersFit
    BY <2>2, <2>4 DEF GitKept
  <2>6. QED
    BY <2>2, <2>3, <2>4, <2>5, HandlersKeep, SaveRunKept, RestKept, RecordKept,
       ApplyKept, NextRoundKept, InitializeKept DEF Next, Step
<1>3. QED BY <1>1, <1>2, TypeCorrect, DocumentsFit, PTL DEF Spec

\* As long as no process dies and no git command fails, best_sha is an
\* experiment that was kept and builds on none that was discarded, whatever
\* was retried, replicated or halted on the way.
THEOREM BestKept == Spec => []BestUnlessFaulty
<1>1. TypeOK /\ GitKept /\ NoGit => BestUnlessFaulty
  <2> SUFFICES ASSUME TypeOK, GitKept, NoGit, Undisturbed, git.best # 0
               PROVE  BestWasKept
    BY DEF BestUnlessFaulty, BestWasKept, Undisturbed
  <2>1. PointersFit
    BY DEF GitKept, NoGit
  <2>2. QED BY <2>1 DEF PointersFit, Clean, Lineage, VerdictOn, BestWasKept
<1>2. QED BY <1>1, TypeCorrect, GitHolds, PTL
=============================================================================
