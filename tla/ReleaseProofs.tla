---------------------------- MODULE ReleaseProofs ----------------------------
(* Proofs about releases, for any number of patches, candidates, request    *)
(* threads, overlaps, crashes and reworks.                                  *)
EXTENDS Release, SequenceTheorems, TLAPS

-----------------------------------------------------------------------------
(* Types and data.                                                          *)

(* A candidate is of a patch. *)
LEMMA CandOf == \A m \in Cand : Of(m) \in Patch
BY DEF Cand, Of

(* A caller is idle, or it holds a candidate and a copy of its row. *)
LEMMA CallTypes ==
  ASSUME TypeOK, NEW c \in Caller
  PROVE  /\ call[c] = Idle <=> Doing(c, "idle")
         /\ call[c] # Idle => /\ call[c] \in Working
                              /\ call[c].m \in Cand /\ call[c].row \in CandRow
                              /\ call[c].at \in CallLabel \ {"idle"}
BY DEF TypeOK, Doing, Idle, Working

(* A status written into a candidate's row leaves a row and its merge. *)
LEMMA RowStatus ==
  ASSUME NEW r \in CandRow, NEW s \in CandStatus
  PROVE  /\ [r EXCEPT !.status = s] \in CandRow
         /\ [r EXCEPT !.status = s].status = s
         /\ [r EXCEPT !.status = s].merge = r.merge
BY DEF CandRow

(* So do the other columns. *)
LEMMA RowUpdates ==
  ASSUME NEW r \in CandRow
  PROVE  /\ [r EXCEPT !.applied = TRUE] \in CandRow
         /\ [r EXCEPT !.applied = TRUE].status = r.status
         /\ [r EXCEPT !.applied = TRUE].merge = r.merge
         /\ [r EXCEPT !.commit = TRUE] \in CandRow
         /\ [r EXCEPT !.commit = TRUE].status = r.status
         /\ [r EXCEPT !.commit = TRUE].merge = r.merge
         /\ \A k \in Nat : /\ [r EXCEPT !.merge = k] \in CandRow
                           /\ [r EXCEPT !.merge = k].status = r.status
                           /\ [r EXCEPT !.merge = k].merge = k
BY DEF CandRow

(* The row a candidate begins with. *)
LEMMA FreshRow ==
  /\ NoCand \in CandRow /\ NoCand.status = "absent" /\ NoCand.merge = 0
  /\ \A s \in CandStatus : /\ [NoCand EXCEPT !.status = s] \in CandRow
                           /\ [NoCand EXCEPT !.status = s].status = s
                           /\ [NoCand EXCEPT !.status = s].merge = 0
BY DEF CandRow, NoCand, CandStatus

(* A merge is put at the end of main, *)
LEMMA Appended ==
  ASSUME TypeOK, NEW e \in Entry, main' = Append(main, e)
  PROVE  /\ main' \in Seq(Entry)
         /\ DOMAIN main = 1..Len(main) /\ Len(main) \in Nat
         /\ DOMAIN main' = 1..(Len(main) + 1) /\ Len(main') = Len(main) + 1
         /\ \A i \in DOMAIN main : main'[i] = main[i]
         /\ main'[Len(main) + 1] = e
BY DEF TypeOK

(* and so is a revert, which marks the merge it takes back. *)
LEMMA Undone ==
  ASSUME TypeOK, NEW i \in DOMAIN main, NEW e \in Entry,
         main' = Append([main EXCEPT ![i].undone = TRUE], e)
  PROVE  /\ main' \in Seq(Entry)
         /\ DOMAIN main = 1..Len(main) /\ Len(main) \in Nat
         /\ DOMAIN main' = 1..(Len(main) + 1) /\ Len(main') = Len(main) + 1
         /\ \A j \in DOMAIN main \ {i} : main'[j] = main[j]
         /\ main'[i] = [main[i] EXCEPT !.undone = TRUE]
         /\ main'[Len(main) + 1] = e
<1>1. main \in Seq(Entry) /\ DOMAIN main = 1..Len(main) /\ Len(main) \in Nat
  BY DEF TypeOK
<1>2. main[i] \in Entry /\ i \in 1..Len(main)
  BY <1>1, ElementOfSeq
<1> DEFINE u == [main[i] EXCEPT !.undone = TRUE]
           s == [main EXCEPT ![i] = u]
<1>3. u \in Entry
  BY <1>2 DEF Entry
<1>4. [main EXCEPT ![i].undone = TRUE] = s
  OBVIOUS
<1> HIDE DEF u
<1>5. /\ s \in Seq(Entry) /\ Len(s) = Len(main)
      /\ \A j \in 1..Len(main) : s[j] = IF j = i THEN u ELSE main[j]
  BY <1>1, <1>2, <1>3, ExceptSeq
<1>6. main' = Append(s, e)
  BY <1>4
<1> HIDE DEF s
<1>7. /\ Append(s, e) \in Seq(Entry) /\ Len(Append(s, e)) = Len(main) + 1
      /\ DOMAIN Append(s, e) = 1..(Len(main) + 1)
      /\ \A j \in 1..Len(main) : Append(s, e)[j] = s[j]
      /\ Append(s, e)[Len(main) + 1] = e
  BY <1>1, <1>5
<1>8. QED BY <1>1, <1>2, <1>5, <1>6, <1>7 DEF u

(* The places of main hold entries. *)
LEMMA MainTypes ==
  ASSUME TypeOK
  PROVE  /\ DOMAIN main = 1..Len(main) /\ Len(main) \in Nat
         /\ \A i \in DOMAIN main : /\ main[i] \in Entry /\ main[i].of \in Cand
                                   /\ main[i].undone \in BOOLEAN
<1>1. main \in Seq(Entry) /\ DOMAIN main = 1..Len(main) /\ Len(main) \in Nat
  BY DEF TypeOK
<1>2. \A i \in DOMAIN main : main[i] \in Entry
  BY <1>1, ElementOfSeq
<1>3. QED BY <1>1, <1>2 DEF Entry

-----------------------------------------------------------------------------
(* The steps.                                                               *)

(* What the copy says of a candidate at each point of a request on it. *)
CopyFits(c) ==
  /\ call[c].at \in {"apply", "applied"} => call[c].row.status = "preparing"
  /\ call[c].at = "tests" => call[c].row.status = "testing"
  /\ call[c].at \in {"commit", "committed"} => call[c].row.status = "committing"
  /\ call[c].at = "merged" => call[c].row.status \in {"committing", "approved"}
  /\ call[c].at \in {"postcheck", "rollback"} => call[c].row.status = "merged"
  /\ call[c].at = "reverted" => call[c].row.status \in {"merged", "failed"}

(* A step of caller c on candidate m: nobody else's row or place changes,   *)
(* the types are kept, and a copy that told the truth still does.           *)
ActsOn(c, m) ==
  /\ cand' \in [Cand -> CandRow]
  /\ call' \in [Caller -> {Idle} \cup Working]
  /\ \A n \in Cand \ {m} : cand'[n] = cand[n]
  /\ \A d \in Caller \ {c} : call'[d] = call[d]
  /\ cand'[m] = cand[m] \/ cand'[m].status # "absent"
  /\ call'[c] # Idle => call'[c].m = m /\ CopyFits(c)'
  /\ (call[c] # Idle => cand[m].status = call[c].row.status)
       => (call'[c] # Idle => cand'[m].status = call'[c].row.status)

(* A caller that turns to the next point of its request. *)
LEMMA Turn ==
  ASSUME TypeOK, NEW c \in Caller, NEW m \in Cand, NEW row \in CandRow,
         NEW l \in CallLabel \ {"idle"}, Goto(c, l, m, row)
  PROVE  /\ call' \in [Caller -> {Idle} \cup Working]
         /\ \A d \in Caller \ {c} : call'[d] = call[d]
         /\ call'[c] # Idle /\ call'[c].at = l
         /\ call'[c].m = m /\ call'[c].row = row
BY DEF TypeOK, Goto, Working, Idle

(* A caller whose request is over. *)
LEMMA TurnBack ==
  ASSUME TypeOK, NEW c \in Caller, Return(c)
  PROVE  /\ call' \in [Caller -> {Idle} \cup Working]
         /\ \A d \in Caller \ {c} : call'[d] = call[d]
         /\ call'[c] = Idle
BY DEF TypeOK, Return

(* A row that is written. *)
LEMMA Saved ==
  ASSUME TypeOK, NEW m \in Cand, NEW row \in CandRow, SaveRow(m, row)
  PROVE  /\ cand' \in [Cand -> CandRow]
         /\ \A n \in Cand \ {m} : cand'[n] = cand[n]
         /\ cand'[m] = row
BY DEF TypeOK, SaveRow

(* The first step of each request. *)
LEMMA RequestActs ==
  ASSUME TypeOK, NEW c \in Caller, NEW m \in Cand, Request(c, m)
  PROVE  ActsOn(c, m) /\ Enter(m) /\ call[c] = Idle /\ Status(m) # "absent"
<1>1. cand[m] \in CandRow
  BY DEF TypeOK
<1>2. ASSUME NEW s \in {"preparing", "testing", "committing"},
             NEW l \in {"apply", "tests", "commit"},
             SaveRow(m, [cand[m] EXCEPT !.status = s]),
             Goto(c, l, m, [cand[m] EXCEPT !.status = s]),
             <<s, l>> \in {<<"preparing", "apply">>, <<"testing", "tests">>,
                           <<"committing", "commit">>}
      PROVE  ActsOn(c, m)
  <2> DEFINE row == [cand[m] EXCEPT !.status = s]
  <2>0. s \in CandStatus
    BY DEF CandStatus
  <2>1. row \in CandRow /\ row.status = s
    BY <1>1, <2>0, RowStatus
  <2>2. SaveRow(m, row) /\ Goto(c, l, m, row)
    BY <1>2
  <2> HIDE DEF row
  <2>3. l \in CallLabel \ {"idle"}
    BY DEF CallLabel
  <2>4. QED BY <1>2, <2>1, <2>2, <2>3, Turn, Saved DEF ActsOn, CopyFits
<1>3. CASE ApplyWorkspace(c, m)
  BY <1>2, <1>3, CallTypes DEF ApplyWorkspace, Enter
<1>4. CASE RunTests(c, m)
  BY <1>2, <1>4, CallTypes DEF RunTests, Enter
<1>5. CASE CommitCandidate(c, m)
  BY <1>2, <1>5, CallTypes DEF CommitCandidate, Enter
<1>6. CASE Finalize(c, m)
  <2>0. Enter(m) /\ call[c] = Idle /\ Status(m) # "absent"
    BY <1>6, CallTypes DEF Finalize, Enter
  <2>1. ASSUME NEW k \in Nat, Goto(c, "merged", m, [cand[m] EXCEPT !.merge = k]),
               UNCHANGED cand
        PROVE  ActsOn(c, m)
    <3> DEFINE row == [cand[m] EXCEPT !.merge = k]
    <3>1. row \in CandRow /\ row.status = Status(m)
      BY <1>1, RowUpdates DEF Status
    <3>2. Goto(c, "merged", m, row) /\ Status(m) \in {"committing", "approved"}
      BY <1>6, <2>1 DEF Finalize
    <3> HIDE DEF row
    <3>3. "merged" \in CallLabel \ {"idle"}
      BY DEF CallLabel
    <3>4. cand' = cand /\ cand \in [Cand -> CandRow]
      BY <2>1 DEF TypeOK
    <3>5. QED BY <3>1, <3>2, <3>3, <3>4, Turn DEF ActsOn, CopyFits, Status
  <2>2. ASSUME SaveRow(m, [cand[m] EXCEPT !.status = "merge_conflict"]), UNCHANGED call
        PROVE  ActsOn(c, m)
    <3>0. "merge_conflict" \in CandStatus
      BY DEF CandStatus
    <3>1. [cand[m] EXCEPT !.status = "merge_conflict"] \in CandRow
          /\ [cand[m] EXCEPT !.status = "merge_conflict"].status = "merge_conflict"
      BY <1>1, <3>0, RowStatus
    <3>2. call \in [Caller -> {Idle} \cup Working]
      BY DEF TypeOK
    <3>3. QED BY <2>0, <2>2, <3>1, <3>2, Saved DEF ActsOn
  <2>3. Len(main) \in Nat /\ Len(main) + 1 \in Nat
    BY MainTypes
  <2>4. QED BY <1>6, <2>0, <2>1, <2>2, <2>3 DEF Finalize
<1>7. CASE Rollback(c, m)
  <2>1. /\ Goto(c, "reverted", m, cand[m]) /\ UNCHANGED cand
        /\ Status(m) \in {"merged", "failed"} /\ Enter(m) /\ Doing(c, "idle")
    BY <1>7 DEF Rollback, Revert
  <2>2. "reverted" \in CallLabel \ {"idle"}
    BY DEF CallLabel
  <2>3. cand' = cand /\ cand \in [Cand -> CandRow]
    BY <2>1 DEF TypeOK
  <2>4. QED
    BY <1>1, <2>1, <2>2, <2>3, Turn, CallTypes DEF ActsOn, CopyFits, Status
<1>8. QED BY <1>3, <1>4, <1>5, <1>6, <1>7 DEF Request

(* Every later step of a request. *)
LEMMA ContinueActs ==
  ASSUME TypeOK, NEW c \in Caller, NEW m \in Cand, call[c].m = m,
         Continue(c), CopyFits(c)
  PROVE  /\ call[c] # Idle /\ ActsOn(c, m)
         /\ UNCHANGED <<patch, overlaps, crashes, reworks>>
<1>0. ~Doing(c, "idle")
  <2>1. \E l \in CallLabel \ {"idle"} : Doing(c, l)
    BY DEF Continue, GitApply, SaveApplied, SaveTests, GitCommit, SaveCommitted,
       SaveMerged, PostCheck, AutoRollback, SaveRolledBack, CallLabel
  <2>2. QED BY <2>1 DEF Doing
<1>1. call[c] # Idle
  BY <1>0, CallTypes
<1>2. PICK row \in CandRow : row = call[c].row
  BY <1>1, CallTypes
<1> USE <1>2
<1>3. UNCHANGED <<patch, overlaps, crashes, reworks>>
  BY DEF Continue, GitApply, SaveApplied, SaveTests, GitCommit, SaveCommitted,
     SaveMerged, PostCheck, AutoRollback, SaveRolledBack
<1> SUFFICES ActsOn(c, m)
  BY <1>1, <1>3
<1>4. cand \in [Cand -> CandRow]
  BY DEF TypeOK
(* The row is written and the request over. *)
<1>5. ASSUME NEW r \in CandRow, SaveRow(m, r), Return(c), r.status # "absent"
      PROVE  ActsOn(c, m)
  BY <1>2, <1>5, Saved, TurnBack DEF ActsOn
(* The row stays and the request goes on. *)
<1>6. ASSUME UNCHANGED cand, NEW l \in CallLabel \ {"idle"}, Goto(c, l, m, row),
             <<call[c].at, l>> \in {<<"apply", "applied">>, <<"commit", "committed">>,
                                    <<"rollback", "reverted">>}
      PROVE  ActsOn(c, m)
  <2>1. /\ call' \in [Caller -> {Idle} \cup Working]
        /\ \A d \in Caller \ {c} : call'[d] = call[d]
        /\ call'[c] # Idle /\ call'[c].at = l /\ call'[c].m = m /\ call'[c].row = row
    BY <1>2, <1>6, Turn
  <2>2. CopyFits(c)'
    BY <1>6, <2>1 DEF CopyFits
  <2>3. QED BY <1>1, <1>4, <1>6, <2>1, <2>2 DEF ActsOn
(* The row is written and the request goes on with it. *)
<1>7. ASSUME NEW r \in CandRow, SaveRow(m, r), NEW l \in {"postcheck", "rollback"},
             Goto(c, l, m, r), r.status = "merged"
      PROVE  ActsOn(c, m)
  <2>1. l \in CallLabel \ {"idle"}
    BY DEF CallLabel
  <2>2. QED BY <1>2, <1>7, <2>1, Turn, Saved DEF ActsOn, CopyFits
(* A verdict in the copy's place, and the request over. *)
<1>8. ASSUME NEW s \in CandStatus \ {"absent"}, SaveRow(m, [row EXCEPT !.status = s]),
             Return(c)
      PROVE  ActsOn(c, m)
  <2>1. /\ [row EXCEPT !.status = s] \in CandRow
        /\ [row EXCEPT !.status = s].status = s
    BY <1>2, RowStatus
  <2>2. QED BY <1>5, <1>8, <2>1
<1>9. CASE GitApply(c)
  <2>1. \/ UNCHANGED cand /\ Goto(c, "applied", m, row) /\ call[c].at = "apply"
        \/ SaveRow(m, [row EXCEPT !.status = "merge_conflict"]) /\ Return(c)
    BY <1>9 DEF GitApply, Doing, Row
  <2>2. QED BY <1>6, <1>8, <2>1 DEF CallLabel, CandStatus
<1>10. CASE SaveApplied(c)
  <2>1. [row EXCEPT !.applied = TRUE] \in CandRow
        /\ [row EXCEPT !.applied = TRUE].status = row.status
    BY <1>2, RowUpdates
  <2>2. row.status = "preparing"
    BY <1>10 DEF SaveApplied, Doing, CopyFits
  <2>3. /\ Return(c)
        /\ \/ SaveRow(m, [row EXCEPT !.applied = TRUE])
           \/ SaveRow(m, [row EXCEPT !.status = "failed"])
    BY <1>10 DEF SaveApplied, Row
  <2>4. "failed" \in CandStatus \ {"absent"}
    BY DEF CandStatus
  <2>5. QED BY <1>5, <1>8, <2>1, <2>2, <2>3, <2>4
<1>11. CASE SaveTests(c)
  <2>1. ASSUME NEW ok \in BOOLEAN,
               SaveRow(m, [row EXCEPT !.tested = ok,
                             !.status = IF ok THEN "waiting_approval" ELSE "failed"]),
               Return(c)
        PROVE  ActsOn(c, m)
    <3> DEFINE s == IF ok THEN "waiting_approval" ELSE "failed"
    <3>1. s \in CandStatus /\ s # "absent"
      BY DEF CandStatus
    <3> HIDE DEF s
    <3>2. /\ [row EXCEPT !.tested = ok, !.status = s] \in CandRow
          /\ [row EXCEPT !.tested = ok, !.status = s].status = s
      BY <3>1 DEF CandRow
    <3>3. SaveRow(m, [row EXCEPT !.tested = ok, !.status = s])
      BY <2>1 DEF s
    <3>4. QED BY <1>5, <2>1, <3>1, <3>2, <3>3
  <2>2. /\ Return(c)
        /\ \/ SaveRow(m, [row EXCEPT !.status = "failed"])
           \/ \E ok \in BOOLEAN :
                SaveRow(m, [row EXCEPT !.tested = ok,
                              !.status = IF ok THEN "waiting_approval" ELSE "failed"])
    BY <1>11 DEF SaveTests, Row
  <2>3. "failed" \in CandStatus \ {"absent"}
    BY DEF CandStatus
  <2>4. QED BY <1>8, <2>1, <2>2, <2>3
<1>12. CASE GitCommit(c)
  <2>1. \/ UNCHANGED cand /\ Goto(c, "committed", m, row) /\ call[c].at = "commit"
        \/ SaveRow(m, [row EXCEPT !.status = "failed"]) /\ Return(c)
    BY <1>12 DEF GitCommit, Doing, Row
  <2>2. QED BY <1>6, <1>8, <2>1 DEF CallLabel, CandStatus
<1>13. CASE SaveCommitted(c)
  <2>1. [row EXCEPT !.commit = TRUE] \in CandRow
        /\ [row EXCEPT !.commit = TRUE].status = row.status
    BY <1>2, RowUpdates
  <2>2. row.status = "committing"
    BY <1>13 DEF SaveCommitted, Doing, CopyFits
  <2>3. /\ Return(c)
        /\ \/ SaveRow(m, [row EXCEPT !.commit = TRUE])
           \/ SaveRow(m, [row EXCEPT !.status = "failed"])
    BY <1>13 DEF SaveCommitted, Row
  <2>4. "failed" \in CandStatus \ {"absent"}
    BY DEF CandStatus
  <2>5. QED BY <1>5, <1>8, <2>1, <2>2, <2>3, <2>4
<1>14. CASE SaveMerged(c)
  <2> DEFINE r == [row EXCEPT !.status = "merged"]
  <2>0. "merged" \in CandStatus
    BY DEF CandStatus
  <2>1. r \in CandRow /\ r.status = "merged"
    BY <2>0, RowStatus
  <2>2. SaveRow(m, r) /\ (Return(c) \/ Goto(c, "postcheck", m, r))
    BY <1>14 DEF SaveMerged, Row
  <2> HIDE DEF r
  <2>3. QED BY <1>5, <1>7, <2>1, <2>2
<1>15. CASE PostCheck(c)
  <2>1. row.status = "merged"
    BY <1>15 DEF PostCheck, Doing, CopyFits
  <2>2. \/ SaveRow(m, row) /\ Return(c)
        \/ SaveRow(m, row) /\ Goto(c, "rollback", m, row)
        \/ SaveRow(m, [row EXCEPT !.status = "failed"]) /\ Return(c)
    BY <1>15 DEF PostCheck, Row
  <2>3. "failed" \in CandStatus \ {"absent"}
    BY DEF CandStatus
  <2>4. QED BY <1>5, <1>7, <1>8, <2>1, <2>2, <2>3
<1>16. CASE AutoRollback(c)
  <2>1. UNCHANGED cand /\ call[c].at = "rollback"
    BY <1>16 DEF AutoRollback, Doing
  <2>2. CASE Return(c)
    BY <1>4, <2>1, <2>2, TurnBack DEF ActsOn
  <2>3. CASE ~Return(c)
    <3>1. Goto(c, "reverted", m, cand[m]) /\ cand[m].status \in {"merged", "failed"}
      BY <1>16, <2>3 DEF AutoRollback, Revert, Status
    <3>2. "reverted" \in CallLabel \ {"idle"} /\ cand[m] \in CandRow
      BY <1>2, <1>4 DEF CallLabel
    <3>3. QED BY <1>2, <1>4, <2>1, <3>1, <3>2, Turn DEF ActsOn, CopyFits
  <2>4. QED BY <2>2, <2>3
<1>17. CASE SaveRolledBack(c)
  <2>1. SaveRow(m, [row EXCEPT !.status = "rolled_back"]) /\ Return(c)
    BY <1>17 DEF SaveRolledBack, Row
  <2>2. "rolled_back" \in CandStatus \ {"absent"}
    BY DEF CandStatus
  <2>3. QED BY <1>8, <2>1, <2>2
<1>18. QED
  BY <1>1, <1>3, <1>9, <1>10, <1>11, <1>12, <1>13, <1>14, <1>15, <1>16, <1>17
     DEF Continue

(* The entries that are added to main. *)
MergeOf(m) == [what |-> "merge", of |-> m, adds |-> ~OnMain(Of(m)),
               undone |-> FALSE, reverts |-> 0]
RevertOf(m, i) == [what |-> "revert", of |-> m, adds |-> FALSE, undone |-> FALSE,
                   reverts |-> i]

LEMMA NewEntries ==
  ASSUME NEW m \in Cand
  PROVE  /\ MergeOf(m) \in Entry
         /\ MergeOf(m).what = "merge" /\ MergeOf(m).of = m
         /\ MergeOf(m).undone = FALSE /\ (MergeOf(m).adds <=> ~OnMain(Of(m)))
         /\ \A i \in Nat : /\ RevertOf(m, i) \in Entry
                           /\ RevertOf(m, i).what = "revert" /\ RevertOf(m, i).of = m
                           /\ RevertOf(m, i).reverts = i
BY DEF Entry, MergeOf, RevertOf

(* How main grows: by the merge of a candidate that is not there yet, or by *)
(* the revert of a merge.                                                   *)
Merges(m) == main' = Append(main, MergeOf(m)) /\ ~MergedIn(m)
Reverts(m, i) == /\ main' = Append([main EXCEPT ![i].undone = TRUE], RevertOf(m, i))
                 /\ i \in ToRevert(m)

LEMMA FinalizeMain ==
  ASSUME NEW c \in Caller, NEW m \in Cand, Finalize(c, m)
  PROVE  UNCHANGED main \/ Merges(m)
BY DEF Finalize, Merges, MergeOf

LEMMA RevertMain ==
  ASSUME NEW c \in Caller, NEW m \in Cand, Revert(c, m)
  PROVE  UNCHANGED main \/ \E i \in ToRevert(m) : Reverts(m, i)
BY DEF Revert, Reverts, RevertOf

LEMMA RequestMain ==
  ASSUME NEW c \in Caller, NEW m \in Cand, Request(c, m)
  PROVE  UNCHANGED main \/ Merges(m) \/ \E i \in ToRevert(m) : Reverts(m, i)
BY FinalizeMain, RevertMain
   DEF Request, ApplyWorkspace, RunTests, CommitCandidate, Rollback

LEMMA ContinueMain ==
  ASSUME NEW c \in Caller, NEW m \in Cand, call[c].m = m, Continue(c)
  PROVE  UNCHANGED main \/ \E i \in ToRevert(m) : Reverts(m, i)
<1>1. CASE AutoRollback(c)
  BY <1>1, RevertMain DEF AutoRollback
<1>2. CASE ~AutoRollback(c)
  BY <1>2
     DEF Continue, GitApply, SaveApplied, SaveTests, GitCommit, SaveCommitted,
         SaveMerged, PostCheck, SaveRolledBack
<1>3. QED BY <1>1, <1>2

LEMMA MainStays ==
  ASSUME Next, ~\E c \in Caller : Continue(c) \/ \E m \in Cand : Request(c, m)
  PROVE  UNCHANGED main
BY DEF Next, PatchNext, Prepare, Approve, Reject, Crash

(* What main has after it grew. *)
LEMMA MainGrown ==
  ASSUME TypeOK, NEW m \in Cand, Merges(m) \/ \E i \in ToRevert(m) : Reverts(m, i)
  PROVE  /\ main' \in Seq(Entry)
         /\ DOMAIN main = 1..Len(main) /\ Len(main) \in Nat
         /\ DOMAIN main' = 1..(Len(main) + 1) /\ Len(main') = Len(main) + 1
         /\ \A j \in DOMAIN main : /\ main'[j].what = main[j].what
                                   /\ main'[j].of = main[j].of
                                   /\ main'[j].adds = main[j].adds
                                   /\ main'[j].reverts = main[j].reverts
         /\ main'[Len(main) + 1].of = m
<1>1. CASE Merges(m)
  BY ZenonT(30), <1>1, Appended, NewEntries DEF Merges
<1>2. ASSUME NEW i \in ToRevert(m), Reverts(m, i)
      PROVE  /\ main' \in Seq(Entry)
             /\ DOMAIN main = 1..Len(main) /\ Len(main) \in Nat
             /\ DOMAIN main' = 1..(Len(main) + 1) /\ Len(main') = Len(main) + 1
             /\ \A j \in DOMAIN main : /\ main'[j].what = main[j].what
                                       /\ main'[j].of = main[j].of
                                       /\ main'[j].adds = main[j].adds
                                       /\ main'[j].reverts = main[j].reverts
             /\ main'[Len(main) + 1].of = m
  <2>1. i \in DOMAIN main /\ i \in Nat /\ main[i] \in Entry
    BY MainTypes DEF ToRevert
  <2>2. RevertOf(m, i) \in Entry /\ RevertOf(m, i).of = m
    BY <2>1, NewEntries
  <2>3. /\ main' \in Seq(Entry)
        /\ DOMAIN main = 1..Len(main) /\ Len(main) \in Nat
        /\ DOMAIN main' = 1..(Len(main) + 1) /\ Len(main') = Len(main) + 1
        /\ \A j \in DOMAIN main \ {i} : main'[j] = main[j]
        /\ main'[i] = [main[i] EXCEPT !.undone = TRUE]
        /\ main'[Len(main) + 1] = RevertOf(m, i)
    BY <1>2, <2>1, <2>2, Undone DEF Reverts
  <2>4. /\ main'[i].what = main[i].what /\ main'[i].of = main[i].of
        /\ main'[i].adds = main[i].adds /\ main'[i].reverts = main[i].reverts
    BY <2>1, <2>3 DEF Entry
  <2>5. QED BY <2>2, <2>3, <2>4
<1>3. QED BY <1>1, <1>2

(* The patches' rows keep their shape, their evidence and that a decision   *)
(* was made; a rejected patch stays rejected.                               *)
LEMMA PatchSteps ==
  ASSUME patch \in [Patch -> PatchRow], NEW p \in Patch, PatchStep(p)
  PROVE  /\ patch' \in [Patch -> PatchRow]
         /\ \A q \in Patch : /\ patch[q].evidence => patch'[q].evidence
                             /\ patch[q].decision # "none" => patch'[q].decision # "none"
                             /\ PStatus(q) = "rejected" => PStatus(q)' = "rejected"
<1>1. ASSUME NEW r \in PatchRow, Write(p, r), patch[p].evidence => r.evidence,
             patch[p].decision # "none" => r.decision # "none",
             PStatus(p) = "rejected" => r.status = "rejected"
      PROVE  /\ patch' \in [Patch -> PatchRow]
             /\ \A q \in Patch :
                  /\ patch[q].evidence => patch'[q].evidence
                  /\ patch[q].decision # "none" => patch'[q].decision # "none"
                  /\ PStatus(q) = "rejected" => PStatus(q)' = "rejected"
  BY <1>1 DEF Write, PStatus
<1>2. patch[p] \in PatchRow
  OBVIOUS
<1>3. ASSUME NEW ok \in BOOLEAN
      PROVE  /\ Verified(patch[p], ok) \in PatchRow
             /\ Verified(patch[p], ok).evidence = patch[p].evidence
             /\ Verified(patch[p], ok).decision = patch[p].decision
             /\ PStatus(p) = "rejected" => Verified(patch[p], ok).status = "rejected"
  BY <1>2 DEF Verified, PatchRow, PatchStatus, Verdict, PStatus
<1>4. CASE Propose(p)
  <2>1. PICK r \in PatchRow : /\ Write(p, r) /\ r.evidence = patch[p].evidence
                              /\ r.decision = patch[p].decision
    <3>1. CASE Write(p, [patch[p] EXCEPT !.status = "proposed"])
      <4>1. LET r == [patch[p] EXCEPT !.status = "proposed"] IN
              /\ r \in PatchRow /\ r.evidence = patch[p].evidence
              /\ r.decision = patch[p].decision
        BY <1>2 DEF PatchRow, PatchStatus
      <4>2. QED BY <3>1, <4>1
    <3>2. ASSUME NEW ok \in BOOLEAN,
                 Write(p, [patch[p] EXCEPT !.status = Verdict(ok), !.ok = ok])
          PROVE  \E r \in PatchRow : /\ Write(p, r) /\ r.evidence = patch[p].evidence
                                     /\ r.decision = patch[p].decision
      <4>1. LET r == [patch[p] EXCEPT !.status = Verdict(ok), !.ok = ok] IN
              /\ r \in PatchRow /\ r.evidence = patch[p].evidence
              /\ r.decision = patch[p].decision
        BY <1>2 DEF PatchRow, PatchStatus, Verdict
      <4>2. QED BY <3>2, <4>1
    <3>3. QED BY <1>4, <3>1, <3>2 DEF Propose
  <2>2. PStatus(p) # "rejected"
    BY <1>4 DEF Propose
  <2>3. QED BY <1>1, <2>1, <2>2
<1>5. CASE Verify(p)
  <2>1. PICK ok \in BOOLEAN : Write(p, Verified(patch[p], ok))
    BY <1>5 DEF Verify
  <2>2. QED BY <1>1, <1>3, <2>1
<1>6. CASE ApprovePatch(p)
  <2>1. PICK ok \in BOOLEAN : Write(p, [Verified(patch[p], ok) EXCEPT
                                          !.status = IF ok THEN "approved" ELSE @])
    BY <1>6 DEF ApprovePatch
  <2>2. PStatus(p) # "rejected"
    BY <1>6 DEF ApprovePatch
  <2> DEFINE r == [Verified(patch[p], ok) EXCEPT !.status = IF ok THEN "approved" ELSE @]
  <2>3. r \in PatchRow /\ r.evidence = patch[p].evidence /\ r.decision = patch[p].decision
    BY <1>3 DEF PatchRow, PatchStatus
  <2>4. Write(p, r)
    BY <2>1
  <2> HIDE DEF r
  <2>5. QED BY <1>1, <2>2, <2>3, <2>4
<1>7. CASE RejectPatch(p)
  <2> DEFINE r == [patch[p] EXCEPT !.status = "rejected"]
  <2>1. r \in PatchRow /\ r.evidence = patch[p].evidence /\ r.decision = patch[p].decision
        /\ r.status = "rejected"
    BY <1>2 DEF PatchRow, PatchStatus
  <2>2. Write(p, r)
    BY <1>7 DEF RejectPatch
  <2> HIDE DEF r
  <2>3. QED BY <1>1, <2>1, <2>2
<1>8. CASE ApplySandbox(p)
  <2>1. PICK r \in PatchRow : /\ Write(p, r) /\ r.evidence = patch[p].evidence
                              /\ r.decision = patch[p].decision
    BY <1>2, <1>8 DEF ApplySandbox, PatchRow, PatchStatus
  <2>2. PStatus(p) # "rejected"
    BY <1>8 DEF ApplySandbox
  <2>3. QED BY <1>1, <2>1, <2>2
<1>9. CASE RecordEvidence(p)
  <2> DEFINE r == [patch[p] EXCEPT !.status = "evidence_recorded", !.evidence = TRUE]
  <2>1. r \in PatchRow /\ r.evidence = TRUE /\ r.decision = patch[p].decision
    BY <1>2 DEF PatchRow, PatchStatus
  <2>2. Write(p, r) /\ PStatus(p) # "rejected"
    BY <1>9 DEF RecordEvidence
  <2> HIDE DEF r
  <2>3. QED BY <1>1, <2>1, <2>2
<1>10. CASE DecideMerge(p)
  <2>1. PICK d \in {"merge", "discard"} :
          Write(p, [patch[p] EXCEPT !.decision = d,
                      !.status = IF d = "merge" THEN "merged" ELSE "discarded"])
    BY <1>10 DEF DecideMerge
  <2>2. PStatus(p) # "rejected"
    BY <1>10 DEF DecideMerge
  <2> DEFINE r == [patch[p] EXCEPT !.decision = d,
                     !.status = IF d = "merge" THEN "merged" ELSE "discarded"]
  <2>3. r \in PatchRow /\ r.evidence = patch[p].evidence /\ r.decision = d
    BY <1>2 DEF PatchRow, PatchStatus
  <2>4. Write(p, r)
    BY <2>1
  <2> HIDE DEF r
  <2>5. QED BY <1>1, <2>2, <2>3, <2>4
<1>11. QED BY <1>4, <1>5, <1>6, <1>7, <1>8, <1>9, <1>10 DEF PatchStep

-----------------------------------------------------------------------------
(* Types, with what the copies that requests hold say.                      *)

CopiesFit ==
  \A c \in Caller : /\ CopyFits(c)
                    /\ call[c] # Idle => Status(call[c].m) # "absent"

(* A step of a caller keeps them. *)
LEMMA ActsKeep ==
  ASSUME TypeOK, CopiesFit, NEW c \in Caller, NEW m \in Cand, ActsOn(c, m),
         Status(m) # "absent"
  PROVE  CopiesFit'
<1>1. Status(m)' # "absent"
  BY DEF ActsOn, Status
<1>2. \A n \in Cand : Status(n) # "absent" => Status(n)' # "absent"
  BY <1>1 DEF ActsOn, Status
<1>3. CopyFits(c)' /\ (call'[c] # Idle => Status(call[c].m)' # "absent")
  <2>1. CASE call'[c] = Idle
    BY <2>1 DEF CopyFits, Idle
  <2>2. CASE call'[c] # Idle
    <3>1. call'[c].m = m /\ CopyFits(c)'
      BY <2>2 DEF ActsOn
    <3>2. QED BY <1>1, <3>1 DEF Status
  <2>3. QED BY <2>1, <2>2
<1>4. ASSUME NEW d \in Caller \ {c}
      PROVE  CopyFits(d)' /\ (call'[d] # Idle => Status(call[d].m)' # "absent")
  <2>1. call'[d] = call[d]
    BY DEF ActsOn
  <2>2. CopyFits(d)'
    BY <2>1 DEF CopiesFit, CopyFits
  <2>3. ASSUME call[d] # Idle PROVE Status(call[d].m)' # "absent"
    <3>1. call[d].m \in Cand /\ Status(call[d].m) # "absent"
      BY <2>3, CallTypes DEF CopiesFit
    <3>2. QED BY <1>2, <2>1, <3>1 DEF Status
  <2>4. QED BY <2>1, <2>2, <2>3
<1>5. QED BY <1>3, <1>4 DEF CopiesFit

(* Prepare and the human's verdicts write one row, *)
Touches(m) == Prepare(m) \/ Approve(m) \/ Reject(m)

LEMMA TouchActs ==
  ASSUME TypeOK, NEW m \in Cand, Touches(m)
  PROVE  /\ cand' \in [Cand -> CandRow] /\ UNCHANGED call
         /\ \A n \in Cand \ {m} : cand'[n] = cand[n]
         /\ cand'[m].status \in {"created", "merge_conflict", "approved", "rejected"}
<1>1. UNCHANGED call
  BY DEF Touches, Prepare, Approve, Reject
<1>2. CASE Prepare(m)
  <2>1. PICK s \in {"created", "merge_conflict"} : SaveRow(m, [NoCand EXCEPT !.status = s])
    BY <1>2 DEF Prepare
  <2>2. [NoCand EXCEPT !.status = s] \in CandRow /\ [NoCand EXCEPT !.status = s].status = s
    BY DEF CandRow, NoCand, CandStatus
  <2>3. QED BY <1>1, <2>1, <2>2, Saved
<1>3. ASSUME NEW s \in {"approved", "rejected"}, SaveRow(m, [cand[m] EXCEPT !.status = s])
      PROVE  /\ cand' \in [Cand -> CandRow]
             /\ \A n \in Cand \ {m} : cand'[n] = cand[n]
             /\ cand'[m].status = s
  <2>1. s \in CandStatus /\ cand[m] \in CandRow
    BY DEF CandStatus, TypeOK
  <2>2. [cand[m] EXCEPT !.status = s] \in CandRow /\ [cand[m] EXCEPT !.status = s].status = s
    BY <2>1, RowStatus
  <2>3. QED BY <1>3, <2>2, Saved
<1>4. CASE Approve(m)
  BY <1>1, <1>3, <1>4 DEF Approve
<1>5. CASE Reject(m)
  BY <1>1, <1>3, <1>5 DEF Reject
<1>6. QED BY <1>2, <1>4, <1>5 DEF Touches

(* and never the copies' fit. *)
LEMMA TouchKeeps ==
  ASSUME TypeOK, CopiesFit, NEW m \in Cand, Touches(m)
  PROVE  CopiesFit'
<1>1. /\ call' = call /\ \A n \in Cand \ {m} : cand'[n] = cand[n]
      /\ cand'[m].status # "absent"
  BY TouchActs
<1>2. ASSUME NEW d \in Caller
      PROVE  CopyFits(d)' /\ (call'[d] # Idle => Status(call[d].m)' # "absent")
  <2>1. CopyFits(d)'
    BY <1>1 DEF CopiesFit, CopyFits
  <2>2. ASSUME call[d] # Idle PROVE Status(call[d].m)' # "absent"
    <3>1. call[d].m \in Cand /\ Status(call[d].m) # "absent"
      BY <2>2, CallTypes DEF CopiesFit
    <3>2. QED BY <1>1, <3>1 DEF Status
  <2>3. QED BY <1>1, <2>1, <2>2
<1>3. QED BY <1>2 DEF CopiesFit

(* The counters stay within their bound. *)
LEMMA CounterTypes ==
  ASSUME TypeOK, [Next]_vars
  PROVE  /\ overlaps' \in 0..MaxMishaps /\ crashes' \in 0..MaxMishaps
         /\ reworks' \in 0..MaxMishaps
<1> USE ReleaseBounds DEF TypeOK, Mishap
<1>1. CASE PatchNext
  BY <1>1 DEF PatchNext
<1>2. ASSUME NEW m \in Cand, Touches(m) \/ \E c \in Caller : Request(c, m)
      PROVE  /\ overlaps' \in 0..MaxMishaps /\ crashes' \in 0..MaxMishaps
             /\ reworks' \in 0..MaxMishaps
  <2>1. Enter(m) \/ UNCHANGED <<overlaps, crashes, reworks>>
    BY <1>2, RequestActs DEF Touches, Prepare, Approve, Reject
  <2>2. QED BY <2>1 DEF Enter
<1>3. ASSUME NEW c \in Caller, Continue(c)
      PROVE  UNCHANGED <<overlaps, crashes, reworks>>
  BY <1>3
     DEF Continue, GitApply, SaveApplied, SaveTests, GitCommit, SaveCommitted,
         SaveMerged, PostCheck, AutoRollback, SaveRolledBack
<1>4. CASE Crash
  BY <1>4 DEF Crash
<1>5. CASE UNCHANGED vars
  BY <1>5 DEF vars
<1>6. QED BY <1>1, <1>2, <1>3, <1>4, <1>5 DEF Next, Touches

(* So do the worktrees and what is remembered of the candidates. *)
LEMMA WorktreeTypes ==
  ASSUME TypeOK, CopiesFit, [Next]_vars
  PROVE  /\ wt' \in [Cand -> {"none", "clean", "applied", "committed"}]
         /\ vetted' \subseteq Cand /\ again' \in BOOLEAN
<1> USE DEF TypeOK
<1>1. CASE PatchNext \/ Crash \/ UNCHANGED vars
  BY <1>1 DEF PatchNext, Crash, vars
<1>2. ASSUME NEW m \in Cand, Touches(m) \/ \E c \in Caller : Request(c, m)
      PROVE  /\ wt' \in [Cand -> {"none", "clean", "applied", "committed"}]
             /\ vetted' \subseteq Cand /\ again' \in BOOLEAN
  BY <1>2
     DEF Touches, Prepare, Approve, Reject, Request, ApplyWorkspace, RunTests,
         CommitCandidate, Finalize, Rollback
<1>3. ASSUME NEW c \in Caller, Continue(c)
      PROVE  /\ wt' \in [Cand -> {"none", "clean", "applied", "committed"}]
             /\ vetted' \subseteq Cand /\ again' \in BOOLEAN
  BY <1>3
     DEF Continue, GitApply, SaveApplied, SaveTests, GitCommit, SaveCommitted,
         SaveMerged, PostCheck, AutoRollback, SaveRolledBack
<1>4. QED BY <1>1, <1>2, <1>3 DEF Next, Touches

(* A request that goes on has a candidate, whose row is there. *)
LEMMA ContinueOn ==
  ASSUME TypeOK, CopiesFit, NEW c \in Caller, Continue(c)
  PROVE  \E m \in Cand : m = call[c].m /\ Status(m) # "absent"
<1>1. \E l \in CallLabel \ {"idle"} : Doing(c, l)
  BY DEF Continue, GitApply, SaveApplied, SaveTests, GitCommit, SaveCommitted,
     SaveMerged, PostCheck, AutoRollback, SaveRolledBack, CallLabel
<1>2. call[c] # Idle
  BY <1>1, CallTypes DEF Doing
<1>3. QED BY <1>2, CallTypes DEF CopiesFit

(* Types of rows, worktrees, main and calls, proved together with what the  *)
(* copies of the rows say at each point of a request.                       *)
THEOREM TypeCorrect == Spec => [](TypeOK /\ CopiesFit)
<1>1. Init => TypeOK /\ CopiesFit
  <2> SUFFICES ASSUME Init PROVE TypeOK /\ CopiesFit
    OBVIOUS
  <2>1. cand \in [Cand -> CandRow]
    BY FreshRow DEF Init
  <2>2. patch \in [Patch -> PatchRow]
    BY DEF Init, PatchInit, PatchRow, PatchStatus
  <2>3. main \in Seq(Entry) /\ call \in [Caller -> {Idle} \cup Working]
    BY DEF Init
  <2>4. TypeOK
    <3>1. wt \in [Cand -> {"none", "clean", "applied", "committed"}]
      BY DEF Init
    <3>2. vetted \subseteq Cand /\ again \in BOOLEAN
      BY DEF Init
    <3>3. overlaps \in 0..MaxMishaps /\ crashes \in 0..MaxMishaps /\ reworks \in 0..MaxMishaps
      BY ReleaseBounds DEF Init
    <3>4. QED BY <2>1, <2>2, <2>3, <3>1, <3>2, <3>3 DEF TypeOK
  <2>5. CopiesFit
    BY DEF Init, CopiesFit, CopyFits, Idle
  <2>6. QED BY <2>4, <2>5
<1>2. TypeOK /\ CopiesFit /\ [Next]_vars => (TypeOK /\ CopiesFit)'
  <2> SUFFICES ASSUME TypeOK, CopiesFit, [Next]_vars PROVE (TypeOK /\ CopiesFit)'
    OBVIOUS
  <2>1. ASSUME patch' \in [Patch -> PatchRow], cand' \in [Cand -> CandRow],
               main' \in Seq(Entry), call' \in [Caller -> {Idle} \cup Working]
        PROVE  TypeOK'
    BY <2>1, CounterTypes, WorktreeTypes DEF TypeOK
  <2>2. /\ patch \in [Patch -> PatchRow] /\ cand \in [Cand -> CandRow]
        /\ main \in Seq(Entry) /\ call \in [Caller -> {Idle} \cup Working]
    BY DEF TypeOK
  <2>3. ASSUME NEW c \in Caller, NEW m \in Cand, Request(c, m)
        PROVE  (TypeOK /\ CopiesFit)'
    <3>1. ActsOn(c, m) /\ Status(m) # "absent"
      BY <2>3, RequestActs
    <3>2. patch' = patch
      BY <2>3
         DEF Request, ApplyWorkspace, RunTests, CommitCandidate, Finalize,
             Rollback
    <3>3. main' \in Seq(Entry)
      BY <2>2, <2>3, RequestMain, MainGrown
    <3>4. TypeOK'
      BY <2>1, <2>2, <3>1, <3>2, <3>3 DEF ActsOn
    <3>5. CopiesFit'
      BY <3>1, ActsKeep
    <3>6. QED BY <3>4, <3>5
  <2>4. ASSUME NEW c \in Caller, Continue(c)
        PROVE  (TypeOK /\ CopiesFit)'
    <3>1. CopyFits(c)
      BY DEF CopiesFit
    <3>4. PICK m \in Cand : m = call[c].m /\ Status(m) # "absent"
      BY <2>4, ContinueOn
    <3>5. ActsOn(c, m) /\ patch' = patch
      BY <2>4, <3>1, <3>4, ContinueActs
    <3>6. main' \in Seq(Entry)
      BY <2>2, <2>4, <3>4, ContinueMain, MainGrown
    <3>7. TypeOK'
      BY <2>1, <2>2, <3>5, <3>6 DEF ActsOn
    <3>8. CopiesFit'
      BY <3>4, <3>5, ActsKeep
    <3>9. QED BY <3>7, <3>8
  <2>5. ASSUME NEW m \in Cand, Touches(m) PROVE (TypeOK /\ CopiesFit)'
    <3>1. patch' = patch /\ main' = main
      BY <2>5 DEF Touches, Prepare, Approve, Reject
    <3>2. TypeOK'
      BY <2>1, <2>2, <2>5, <3>1, TouchActs
    <3>3. QED BY <2>5, <3>2, TouchKeeps
  <2>6. CASE PatchNext
    <3>1. patch' \in [Patch -> PatchRow]
      BY <2>2, <2>6, PatchSteps DEF PatchNext
    <3>2. UNCHANGED <<cand, main, call>>
      BY <2>6 DEF PatchNext
    <3>3. TypeOK'
      BY <2>1, <2>2, <3>1, <3>2
    <3>4. CopiesFit'
      BY <3>2 DEF CopiesFit, CopyFits, Status
    <3>5. QED BY <3>3, <3>4
  <2>7. CASE Crash
    <3>1. UNCHANGED <<patch, cand, main>> /\ call' = [c \in Caller |-> Idle]
      BY <2>7 DEF Crash
    <3>2. TypeOK'
      BY <2>1, <2>2, <3>1
    <3>3. CopiesFit'
      BY <3>1 DEF CopiesFit, CopyFits, Idle
    <3>4. QED BY <3>2, <3>3
  <2>8. CASE UNCHANGED vars
    BY <2>8 DEF vars, TypeOK, CopiesFit, CopyFits, Status
  <2>9. QED BY <2>3, <2>4, <2>5, <2>6, <2>7, <2>8 DEF Next, Touches
<1>3. QED BY <1>1, <1>2, PTL DEF Spec

-----------------------------------------------------------------------------
(* What is on main was decided.                                             *)

(* A candidate exists only of a patch with evidence and a decision, and     *)
(* main has only what candidates brought there.                             *)
CandidatesDecided ==
  /\ \A m \in Cand : Status(m) # "absent" =>
       patch[Of(m)].evidence /\ patch[Of(m)].decision # "none"
  /\ \A i \in DOMAIN main : Status(main[i].of) # "absent"

(* Every step of a caller, and every touch, leaves existing candidates      *)
(* existing and brings no new one but Prepare's.                            *)
LEMMA StatusKept ==
  ASSUME TypeOK, NEW m \in Cand, \A n \in Cand \ {m} : cand'[n] = cand[n],
         cand'[m] = cand[m] \/ cand'[m].status # "absent"
  PROVE  /\ \A n \in Cand : Status(n) # "absent" => Status(n)' # "absent"
         /\ \A n \in Cand \ {m} : Status(n)' = Status(n)
BY DEF Status

THEOREM CandidatesAreDecided == Spec => []CandidatesDecided
<1>1. Init => CandidatesDecided
  <2> SUFFICES ASSUME Init PROVE CandidatesDecided
    OBVIOUS
  <2>1. \A m \in Cand : Status(m) = "absent"
    BY DEF Init, Status, NoCand
  <2>2. DOMAIN main = {}
    BY DEF Init
  <2>3. QED BY <2>1, <2>2 DEF CandidatesDecided
<1>2. TypeOK /\ TypeOK' /\ CopiesFit /\ CandidatesDecided /\ [Next]_vars
        => CandidatesDecided'
  <2> SUFFICES ASSUME TypeOK, TypeOK', CopiesFit, CandidatesDecided, [Next]_vars
               PROVE  CandidatesDecided'
    OBVIOUS
  <2>1. ASSUME NEW m \in Cand, UNCHANGED patch, Status(m) # "absent",
               \A n \in Cand \ {m} : cand'[n] = cand[n],
               cand'[m] = cand[m] \/ cand'[m].status # "absent",
               \/ UNCHANGED main
               \/ Merges(m) \/ \E i \in ToRevert(m) : Reverts(m, i)
        PROVE  CandidatesDecided'
    <3>1. /\ \A n \in Cand : Status(n) # "absent" => Status(n)' # "absent"
          /\ \A n \in Cand \ {m} : Status(n)' = Status(n)
      BY <2>1, StatusKept
    <3>2. \A n \in Cand : Status(n)' # "absent" =>
            patch'[Of(n)].evidence /\ patch'[Of(n)].decision # "none"
      BY <2>1, <3>1 DEF CandidatesDecided
    <3>3. \A i \in DOMAIN main : main[i].of \in Cand /\ Status(main[i].of) # "absent"
      BY MainTypes DEF CandidatesDecided
    <3>4. \A i \in DOMAIN main' : Status(main[i].of)' # "absent"
      <4>1. CASE UNCHANGED main
        BY <3>1, <3>3, <4>1 DEF Status
      <4>2. CASE Merges(m) \/ \E i \in ToRevert(m) : Reverts(m, i)
        <5>1. /\ DOMAIN main = 1..Len(main) /\ Len(main) \in Nat
              /\ DOMAIN main' = 1..(Len(main) + 1)
              /\ \A j \in DOMAIN main : main'[j].of = main[j].of
              /\ main'[Len(main) + 1].of = m
          BY <4>2, MainGrown
        <5>2. Status(m)' # "absent"
          BY <2>1, <3>1
        <5>3. \A n \in Cand : Status(n) # "absent" => cand'[n].status # "absent"
          BY <3>1 DEF Status
        <5>4. \A i \in DOMAIN main : cand'[main'[i].of].status # "absent"
          BY <3>3, <5>1, <5>3
        <5>5. cand'[main'[Len(main) + 1].of].status # "absent"
          BY <5>1, <5>2 DEF Status
        <5>6. QED BY <5>1, <5>4, <5>5 DEF Status
      <4>3. QED BY <2>1, <4>1, <4>2
    <3>5. QED BY <3>2, <3>4 DEF CandidatesDecided
  <2>2. ASSUME NEW c \in Caller, NEW m \in Cand, Request(c, m)
        PROVE  CandidatesDecided'
    <3>1. patch' = patch
      BY <2>2
         DEF Request, ApplyWorkspace, RunTests, CommitCandidate, Finalize,
             Rollback
    <3>2. ActsOn(c, m) /\ Status(m) # "absent"
      BY <2>2, RequestActs
    <3>3. QED BY <2>1, <2>2, <3>1, <3>2, RequestMain DEF ActsOn
  <2>3. ASSUME NEW c \in Caller, Continue(c) PROVE CandidatesDecided'
    <3>1. PICK m \in Cand : m = call[c].m /\ Status(m) # "absent"
      BY <2>3, ContinueOn
    <3>2. ActsOn(c, m) /\ patch' = patch
      BY <2>3, <3>1, ContinueActs DEF CopiesFit
    <3>3. QED BY <2>1, <2>3, <3>1, <3>2, ContinueMain DEF ActsOn
  <2>4. ASSUME NEW m \in Cand, Approve(m) \/ Reject(m) PROVE CandidatesDecided'
    <3>1. UNCHANGED <<patch, main>> /\ Status(m) # "absent"
      BY <2>4 DEF Approve, Reject, Enter
    <3>2. /\ \A n \in Cand \ {m} : cand'[n] = cand[n]
          /\ cand'[m].status # "absent"
      BY <2>4, TouchActs DEF Touches
    <3>3. QED BY <2>1, <3>1, <3>2
  <2>5. ASSUME NEW m \in Cand, Prepare(m) PROVE CandidatesDecided'
    <3>1. /\ UNCHANGED <<patch, main>>
          /\ patch[Of(m)].evidence /\ patch[Of(m)].decision # "none"
      BY <2>5 DEF Prepare, ReadyForPrepare
    <3>2. /\ \A n \in Cand \ {m} : cand'[n] = cand[n]
          /\ cand'[m].status # "absent"
      BY <2>5, TouchActs DEF Touches
    <3>3. /\ \A n \in Cand : Status(n) # "absent" => Status(n)' # "absent"
          /\ \A n \in Cand \ {m} : Status(n)' = Status(n)
      BY <3>2, StatusKept
    <3>4. \A i \in DOMAIN main' : Status(main[i].of)' # "absent"
      BY <3>1, <3>3, MainTypes DEF CandidatesDecided, Status
    <3>5. QED BY <3>1, <3>3, <3>4 DEF CandidatesDecided
  <2>6. CASE PatchNext
    <3>1. UNCHANGED <<cand, main>>
      BY <2>6 DEF PatchNext
    <3>2. \A p \in Patch : /\ patch[p].evidence => patch'[p].evidence
                           /\ patch[p].decision # "none" => patch'[p].decision # "none"
      BY <2>6, PatchSteps DEF PatchNext, TypeOK
    <3>3. QED BY <3>1, <3>2, CandOf DEF CandidatesDecided, Status
  <2>7. CASE Crash \/ UNCHANGED vars
    BY <2>7 DEF Crash, vars, CandidatesDecided, Status
  <2>8. QED BY <2>2, <2>3, <2>4, <2>5, <2>6, <2>7 DEF Next
<1>3. QED BY <1>1, <1>2, TypeCorrect, PTL DEF Spec

(* Nothing is on main that no human decided on with evidence at hand,       *)
(* whatever verifications, approvals, sandboxes, crashes and overlapping    *)
(* requests there were.                                                     *)
THEOREM MainDecided == Spec => []MainWasDecided
<1>1. TypeOK /\ CandidatesDecided => MainWasDecided
  <2> SUFFICES ASSUME TypeOK, CandidatesDecided, NEW p \in Patch, OnMain(p)
               PROVE  patch[p].evidence /\ patch[p].decision # "none"
    BY DEF MainWasDecided
  <2>1. PICK i \in DOMAIN main : Of(main[i].of) = p
    BY DEF OnMain
  <2>2. main[i].of \in Cand /\ Status(main[i].of) # "absent"
    BY MainTypes DEF CandidatesDecided
  <2>3. QED BY <2>1, <2>2 DEF CandidatesDecided
<1>2. QED BY <1>1, TypeCorrect, CandidatesAreDecided, PTL

-----------------------------------------------------------------------------
(* While no requests overlap on a candidate and none is broken off.         *)

Calm == ~Disturbed

(* One request is at work on a candidate, and the copy it holds agrees with *)
(* the row.                                                                 *)
Alone ==
  Calm =>
    /\ \A c, d \in Caller :
         call[c] # Idle /\ call[d] # Idle /\ call[c].m = call[d].m => c = d
    /\ \A c \in Caller :
         call[c] # Idle => cand[call[c].m].status = call[c].row.status

(* Calm was calm before, and a request that enters calmly finds nobody.     *)
LEMMA CalmBefore ==
  ASSUME TypeOK, [Next]_vars, Calm'
  PROVE  Calm
<1> USE DEF TypeOK, Calm, Disturbed
<1>1. CASE PatchNext \/ UNCHANGED vars
  BY <1>1 DEF PatchNext, vars
<1>2. ASSUME NEW m \in Cand, Touches(m) \/ \E c \in Caller : Request(c, m)
      PROVE  overlaps' >= overlaps /\ crashes' >= crashes
  <2>1. Enter(m) \/ UNCHANGED <<overlaps, crashes, reworks>>
    BY <1>2, RequestActs DEF Touches, Prepare, Approve, Reject
  <2>2. QED BY <2>1, ReleaseBounds DEF Enter
<1>3. ASSUME NEW c \in Caller, Continue(c)
      PROVE  UNCHANGED <<overlaps, crashes, reworks>>
  BY <1>3
     DEF Continue, GitApply, SaveApplied, SaveTests, GitCommit, SaveCommitted,
         SaveMerged, PostCheck, AutoRollback, SaveRolledBack
<1>4. CASE Crash
  BY <1>4 DEF Crash
<1>5. \/ Calm
      \/ \E m \in Cand : Touches(m) \/ \E c \in Caller : Request(c, m)
  BY <1>1, <1>3, <1>4 DEF Next, Touches
<1>6. ASSUME overlaps' >= overlaps, crashes' >= crashes PROVE Calm
  <2>1. overlaps' \in Nat /\ crashes' \in Nat
    BY CounterTypes
  <2>2. QED BY <1>6, <2>1, ReleaseBounds
<1>7. QED BY <1>2, <1>5, <1>6

LEMMA CalmEntry ==
  ASSUME TypeOK, NEW m \in Cand, Enter(m), Calm'
  PROVE  \A d \in Caller : call[d] # Idle => call[d].m # m
<1>1. ~Busy(m)
  BY DEF Enter, Calm, Disturbed, TypeOK
<1>2. QED BY <1>1, CallTypes DEF Busy

(* A step of a caller that has the candidate to itself keeps it so. *)
LEMMA AloneActs ==
  ASSUME TypeOK, Alone, Calm, NEW c \in Caller, NEW m \in Cand, ActsOn(c, m),
         \A d \in Caller \ {c} : call[d] # Idle => call[d].m # m,
         call[c] # Idle => call[c].m = m
  PROVE  Alone'
<1>1. /\ \A n \in Cand \ {m} : cand'[n] = cand[n]
      /\ \A d \in Caller \ {c} : call'[d] = call[d]
      /\ call'[c] # Idle => /\ call'[c].m = m
                            /\ cand'[m].status = call'[c].row.status
  BY DEF ActsOn, Alone
<1>2. \A d \in Caller : call[d] # Idle => call[d].m \in Cand
  BY CallTypes
<1>3. \A d \in Caller : call'[d] # Idle => cand'[call'[d].m].status = call'[d].row.status
  BY <1>1, <1>2 DEF Alone
<1>4. \A d, e \in Caller :
        call'[d] # Idle /\ call'[e] # Idle /\ call'[d].m = call'[e].m => d = e
  BY <1>1, <1>2 DEF Alone
<1>5. QED BY <1>3, <1>4 DEF Alone

THEOREM RequestsAlone == Spec => []Alone
<1>1. Init => Alone
  BY DEF Init, Alone
<1>2. TypeOK /\ CopiesFit /\ Alone /\ [Next]_vars => Alone'
  <2> SUFFICES ASSUME TypeOK, CopiesFit, Alone, [Next]_vars, Calm' PROVE Alone'
    BY DEF Alone
  <2>0. Calm
    BY CalmBefore
  <2>1. ASSUME NEW c \in Caller, NEW m \in Cand, Request(c, m) PROVE Alone'
    <3>1. ActsOn(c, m) /\ Enter(m) /\ call[c] = Idle
      BY <2>1, RequestActs
    <3>2. QED BY <2>0, <3>1, CalmEntry, AloneActs
  <2>2. ASSUME NEW c \in Caller, Continue(c) PROVE Alone'
    <3>1. PICK m \in Cand : m = call[c].m
      BY <2>2, ContinueOn
    <3>2. call[c] # Idle /\ ActsOn(c, m)
      BY <2>2, <3>1, ContinueActs DEF CopiesFit
    <3>3. \A d \in Caller \ {c} : call[d] # Idle => call[d].m # m
      BY <2>0, <3>1, <3>2 DEF Alone
    <3>4. QED BY <2>0, <3>1, <3>2, <3>3, AloneActs
  <2>3. ASSUME NEW m \in Cand, Touches(m) PROVE Alone'
    <3>1. \A d \in Caller : call[d] # Idle => call[d].m \in Cand /\ call[d].m # m
      <4>1. CASE Prepare(m)
        <5>1. Status(m) = "absent"
          BY <4>1 DEF Prepare
        <5>2. QED BY <5>1, CallTypes DEF CopiesFit
      <4>2. CASE Approve(m) \/ Reject(m)
        BY <4>2, CalmEntry, CallTypes DEF Approve, Reject
      <4>3. QED BY <2>3, <4>1, <4>2 DEF Touches
    <3>2. call' = call /\ \A n \in Cand \ {m} : cand'[n] = cand[n]
      BY <2>3, TouchActs
    <3>3. QED BY <2>0, <3>1, <3>2 DEF Alone
  <2>4. CASE PatchNext \/ Crash \/ UNCHANGED vars
    <3>1. UNCHANGED <<cand, call>> \/ \A c \in Caller : call'[c] = Idle
      BY <2>4 DEF PatchNext, Crash, vars
    <3>2. QED BY <2>0, <3>1 DEF Alone
  <2>5. QED BY <2>1, <2>2, <2>3, <2>4 DEF Next, Touches
<1>3. QED BY <1>1, <1>2, TypeCorrect, PTL DEF Spec

-----------------------------------------------------------------------------
(* How the status of a candidate moves.                                     *)

(* In a later step of a calm request. *)
LEMMA ContinueStatus ==
  ASSUME TypeOK, NEW c \in Caller, NEW m \in Cand, call[c].m = m, Continue(c),
         CopyFits(c), Status(m) = call[c].row.status
  PROVE  /\ Status(m) \notin Closed
         /\ Status(m)' \in {"approved", "committing"} =>
              Status(m)' = Status(m) /\ vetted' = vetted
         /\ Status(m)' = "merged" => call[c].at \in {"merged", "postcheck", "rollback"}
         /\ Status(m)' = "rolled_back" <=> call[c].at = "reverted"
         /\ call'[c] # Idle /\ call'[c].at \in {"postcheck", "rollback", "reverted"} =>
              Status(m)' = "merged" /\ call[c].at \in {"merged", "postcheck", "rollback"}
         /\ call'[c] # Idle => call'[c].at # "merged"
<1>1. PICK row \in CandRow : row = call[c].row
  <2>1. \E l \in CallLabel \ {"idle"} : Doing(c, l)
    BY DEF Continue, GitApply, SaveApplied, SaveTests, GitCommit, SaveCommitted,
       SaveMerged, PostCheck, AutoRollback, SaveRolledBack, CallLabel
  <2>2. call[c] # Idle
    BY <2>1, CallTypes DEF Doing
  <2>3. QED BY <2>2, CallTypes
<1> DEFINE Goal ==
      /\ Status(m) \notin Closed
      /\ Status(m)' \in {"approved", "committing"} =>
           Status(m)' = Status(m) /\ vetted' = vetted
      /\ Status(m)' = "merged" => call[c].at \in {"merged", "postcheck", "rollback"}
      /\ Status(m)' = "rolled_back" <=> call[c].at = "reverted"
      /\ call'[c] # Idle /\ call'[c].at \in {"postcheck", "rollback", "reverted"} =>
           Status(m)' = "merged" /\ call[c].at \in {"merged", "postcheck", "rollback"}
      /\ call'[c] # Idle => call'[c].at # "merged"
<1> SUFFICES Goal
  OBVIOUS
<1>2. ASSUME NEW st \in CandStatus, SaveRow(m, [row EXCEPT !.status = st])
      PROVE  Status(m)' = st
  <2>1. [row EXCEPT !.status = st] \in CandRow /\ [row EXCEPT !.status = st].status = st
    BY RowStatus
  <2>2. QED BY <1>2, <2>1, Saved DEF Status
<1>3. ASSUME NEW r \in CandRow, SaveRow(m, r)
      PROVE  Status(m)' = r.status
  BY <1>3, Saved DEF Status
<1>4. Return(c) => call'[c] = Idle
  BY TurnBack
<1>5. ASSUME NEW l \in CallLabel \ {"idle"}, NEW r \in CandRow, Goto(c, l, m, r)
      PROVE  call'[c].at = l
  BY <1>5, Turn
<1>6. CASE GitApply(c)
  <2>1. /\ call[c].at = "apply" /\ vetted' = vetted
        /\ \/ UNCHANGED cand /\ Goto(c, "applied", m, row)
           \/ SaveRow(m, [row EXCEPT !.status = "merge_conflict"]) /\ Return(c)
    BY <1>1, <1>6 DEF GitApply, Doing, Row
  <2>2. "applied" \in CallLabel \ {"idle"} /\ "merge_conflict" \in CandStatus
    BY DEF CallLabel, CandStatus
  <2>3. QED BY <1>1, <1>2, <1>4, <1>5, <2>1, <2>2 DEF CopyFits, Closed, Status
<1>7. CASE SaveApplied(c)
  <2>1. /\ call[c].at = "applied" /\ vetted' = vetted /\ Return(c)
        /\ \/ SaveRow(m, [row EXCEPT !.applied = TRUE])
           \/ SaveRow(m, [row EXCEPT !.status = "failed"])
    BY <1>1, <1>7 DEF SaveApplied, Doing, Row
  <2>2. "failed" \in CandStatus /\ [row EXCEPT !.applied = TRUE] \in CandRow
        /\ [row EXCEPT !.applied = TRUE].status = row.status
    BY RowUpdates DEF CandStatus
  <2>3. QED BY <1>1, <1>2, <1>3, <1>4, <2>1, <2>2 DEF CopyFits, Closed
<1>8. CASE SaveTests(c)
  <2>1. /\ call[c].at = "tests" /\ Return(c)
        /\ Status(m)' \in {"waiting_approval", "failed"}
    <3>1. /\ call[c].at = "tests" /\ Return(c)
          /\ \/ SaveRow(m, [row EXCEPT !.status = "failed"])
             \/ \E ok \in BOOLEAN :
                  SaveRow(m, [row EXCEPT !.tested = ok,
                                !.status = IF ok THEN "waiting_approval" ELSE "failed"])
      BY <1>1, <1>8 DEF SaveTests, Doing, Row
    <3>2. "failed" \in CandStatus /\ "waiting_approval" \in CandStatus
      BY DEF CandStatus
    <3>3. ASSUME NEW ok \in BOOLEAN, NEW st \in CandStatus
          PROVE  LET r == [row EXCEPT !.tested = ok, !.status = st]
                 IN  r \in CandRow /\ r.status = st
      BY DEF CandRow
    <3>4. QED BY <1>2, <1>3, <3>1, <3>2, <3>3
  <2>2. QED BY <1>1, <1>4, <2>1 DEF CopyFits, Closed
<1>9. CASE GitCommit(c)
  <2>1. /\ call[c].at = "commit" /\ vetted' = vetted
        /\ \/ UNCHANGED cand /\ Goto(c, "committed", m, row)
           \/ SaveRow(m, [row EXCEPT !.status = "failed"]) /\ Return(c)
    BY <1>1, <1>9 DEF GitCommit, Doing, Row
  <2>2. "committed" \in CallLabel \ {"idle"} /\ "failed" \in CandStatus
    BY DEF CallLabel, CandStatus
  <2>3. QED BY <1>1, <1>2, <1>4, <1>5, <2>1, <2>2 DEF CopyFits, Closed, Status
<1>10. CASE SaveCommitted(c)
  <2>1. /\ call[c].at = "committed" /\ vetted' = vetted /\ Return(c)
        /\ \/ SaveRow(m, [row EXCEPT !.commit = TRUE])
           \/ SaveRow(m, [row EXCEPT !.status = "failed"])
    BY <1>1, <1>10 DEF SaveCommitted, Doing, Row
  <2>2. "failed" \in CandStatus /\ [row EXCEPT !.commit = TRUE] \in CandRow
        /\ [row EXCEPT !.commit = TRUE].status = row.status
    BY RowUpdates DEF CandStatus
  <2>3. QED BY <1>1, <1>2, <1>3, <1>4, <2>1, <2>2 DEF CopyFits, Closed
<1>11. CASE SaveMerged(c)
  <2> DEFINE r == [row EXCEPT !.status = "merged"]
  <2>0. "merged" \in CandStatus /\ "postcheck" \in CallLabel \ {"idle"}
    BY DEF CandStatus, CallLabel
  <2>1. r \in CandRow /\ r.status = "merged"
    BY <2>0, RowStatus
  <2>2. /\ call[c].at = "merged" /\ SaveRow(m, r)
        /\ Return(c) \/ Goto(c, "postcheck", m, r)
    BY <1>1, <1>11 DEF SaveMerged, Doing, Row
  <2> HIDE DEF r
  <2>3. QED BY <1>1, <1>3, <1>4, <1>5, <2>0, <2>1, <2>2 DEF CopyFits, Closed
<1>12. CASE PostCheck(c)
  <2>1. /\ call[c].at = "postcheck"
        /\ \/ SaveRow(m, row) /\ Return(c)
           \/ SaveRow(m, row) /\ Goto(c, "rollback", m, row)
           \/ SaveRow(m, [row EXCEPT !.status = "failed"]) /\ Return(c)
    BY <1>1, <1>12 DEF PostCheck, Doing, Row
  <2>2. "rollback" \in CallLabel \ {"idle"} /\ "failed" \in CandStatus
    BY DEF CandStatus, CallLabel
  <2>3. QED BY <1>1, <1>2, <1>3, <1>4, <1>5, <2>1, <2>2 DEF CopyFits, Closed
<1>13. CASE AutoRollback(c)
  <2>1. /\ call[c].at = "rollback" /\ UNCHANGED cand
        /\ Return(c) \/ Goto(c, "reverted", m, cand[m])
    BY <1>13 DEF AutoRollback, Revert, Doing
  <2>2. "reverted" \in CallLabel \ {"idle"} /\ cand[m] \in CandRow
    BY DEF CallLabel, TypeOK
  <2>3. Status(m)' = Status(m) /\ Status(m) = "merged"
    BY <2>1 DEF Status, CopyFits
  <2>4. QED BY <1>4, <1>5, <2>1, <2>2, <2>3 DEF Closed
<1>14. CASE SaveRolledBack(c)
  <2>1. /\ call[c].at = "reverted" /\ Return(c)
        /\ SaveRow(m, [row EXCEPT !.status = "rolled_back"])
    BY <1>1, <1>14 DEF SaveRolledBack, Doing, Row
  <2>2. "rolled_back" \in CandStatus
    BY DEF CandStatus
  <2>3. QED BY <1>1, <1>2, <1>4, <2>1, <2>2 DEF CopyFits, Closed
<1>15. QED
  BY <1>6, <1>7, <1>8, <1>9, <1>10, <1>11, <1>12, <1>13, <1>14 DEF Continue

(* In the first step of a request. *)
LEMMA RequestStatus ==
  ASSUME TypeOK, NEW c \in Caller, NEW m \in Cand, Request(c, m)
  PROVE  /\ Status(m) \in Closed => Status(m)' = Status(m)
         /\ vetted' = vetted
         /\ Status(m)' \in {"approved", "committing"} =>
              Status(m) \in {"approved", "committing"}
         /\ Status(m)' \in {"merged", "rolled_back"} => Status(m)' = Status(m)
         /\ Status(m) = "rolled_back" => Status(m)' = "rolled_back"
         /\ call'[c] # Idle => call'[c].at \notin {"postcheck", "rollback"}
<1> DEFINE Goal ==
      /\ Status(m) \in Closed => Status(m)' = Status(m)
      /\ vetted' = vetted
      /\ Status(m)' \in {"approved", "committing"} =>
           Status(m) \in {"approved", "committing"}
      /\ Status(m)' \in {"merged", "rolled_back"} => Status(m)' = Status(m)
      /\ Status(m) = "rolled_back" => Status(m)' = "rolled_back"
      /\ call'[c] # Idle => call'[c].at \notin {"postcheck", "rollback"}
<1> SUFFICES Goal
  OBVIOUS
<1>1. cand[m] \in CandRow
  BY DEF TypeOK
<1>2. ASSUME NEW st \in CandStatus, SaveRow(m, [cand[m] EXCEPT !.status = st])
      PROVE  Status(m)' = st
  <2>1. /\ [cand[m] EXCEPT !.status = st] \in CandRow
        /\ [cand[m] EXCEPT !.status = st].status = st
    BY <1>1, RowStatus
  <2>2. QED BY <1>2, <2>1, Saved DEF Status
<1>3. ASSUME NEW l \in CallLabel \ {"idle"}, NEW r \in CandRow, Goto(c, l, m, r)
      PROVE  call'[c].at = l
  BY <1>3, Turn
<1>4. ASSUME NEW st \in CandStatus, NEW l \in CallLabel \ {"idle"},
             SaveRow(m, [cand[m] EXCEPT !.status = st]),
             Goto(c, l, m, [cand[m] EXCEPT !.status = st])
      PROVE  Status(m)' = st /\ call'[c].at = l
  <2>1. [cand[m] EXCEPT !.status = st] \in CandRow
    BY <1>1, RowStatus
  <2>2. QED BY <1>2, <1>3, <1>4, <2>1
<1>5. CASE ApplyWorkspace(c, m)
  <2>1. /\ SaveRow(m, [cand[m] EXCEPT !.status = "preparing"])
        /\ Goto(c, "apply", m, [cand[m] EXCEPT !.status = "preparing"])
        /\ Status(m) \in {"created", "preparing", "failed"} /\ vetted' = vetted
    BY <1>5 DEF ApplyWorkspace
  <2>2. "preparing" \in CandStatus /\ "apply" \in CallLabel \ {"idle"}
    BY DEF CandStatus, CallLabel
  <2>3. Status(m)' = "preparing" /\ call'[c].at = "apply"
    BY <1>4, <2>1, <2>2
  <2>4. QED BY <2>1, <2>3 DEF Closed
<1>6. CASE RunTests(c, m)
  <2>1. /\ SaveRow(m, [cand[m] EXCEPT !.status = "testing"])
        /\ Goto(c, "tests", m, [cand[m] EXCEPT !.status = "testing"])
        /\ Status(m) \notin Closed /\ vetted' = vetted
    BY <1>6 DEF RunTests, Testable, Closed
  <2>2. "testing" \in CandStatus /\ "tests" \in CallLabel \ {"idle"}
    BY DEF CandStatus, CallLabel
  <2>3. Status(m)' = "testing" /\ call'[c].at = "tests"
    BY <1>4, <2>1, <2>2
  <2>4. QED BY <2>1, <2>3 DEF Closed
<1>7. CASE CommitCandidate(c, m)
  <2>1. /\ SaveRow(m, [cand[m] EXCEPT !.status = "committing"])
        /\ Goto(c, "commit", m, [cand[m] EXCEPT !.status = "committing"])
        /\ Status(m) = "approved" /\ vetted' = vetted
    BY <1>7 DEF CommitCandidate, Committable
  <2>2. "committing" \in CandStatus /\ "commit" \in CallLabel \ {"idle"}
    BY DEF CandStatus, CallLabel
  <2>3. Status(m)' = "committing" /\ call'[c].at = "commit"
    BY <1>4, <2>1, <2>2
  <2>4. QED BY <2>1, <2>3 DEF Closed
<1>8. CASE Finalize(c, m)
  <2>1. /\ Status(m) \in {"committing", "approved"} /\ vetted' = vetted
        /\ \/ SaveRow(m, [cand[m] EXCEPT !.status = "merge_conflict"]) /\ UNCHANGED call
           \/ /\ UNCHANGED cand
              /\ \E k \in Nat : Goto(c, "merged", m, [cand[m] EXCEPT !.merge = k])
    <3>1. Len(main) \in Nat /\ Len(main) + 1 \in Nat
      BY MainTypes
    <3>2. CASE MergedIn(m)
      <4>1. Goto(c, "merged", m, [cand[m] EXCEPT !.merge = Len(main)]) /\ UNCHANGED cand
        BY <1>8, <3>2 DEF Finalize
      <4>2. QED BY <1>8, <3>1, <4>1 DEF Finalize
    <3>3. CASE ~MergedIn(m)
      <4>1. \/ SaveRow(m, [cand[m] EXCEPT !.status = "merge_conflict"]) /\ UNCHANGED call
            \/ /\ UNCHANGED cand
               /\ Goto(c, "merged", m, [cand[m] EXCEPT !.merge = Len(main) + 1])
        BY <1>8, <3>3 DEF Finalize
      <4>2. QED BY <1>8, <3>1, <4>1 DEF Finalize
    <3>4. QED BY <3>2, <3>3
  <2>2. "merge_conflict" \in CandStatus /\ "merged" \in CallLabel \ {"idle"}
    BY DEF CandStatus, CallLabel
  <2>3. call[c] = Idle
    BY <1>8, CallTypes DEF Finalize
  <2>4. CASE SaveRow(m, [cand[m] EXCEPT !.status = "merge_conflict"]) /\ UNCHANGED call
    BY <1>2, <2>1, <2>2, <2>3, <2>4 DEF Closed
  <2>5. ASSUME NEW k \in Nat, UNCHANGED cand,
               Goto(c, "merged", m, [cand[m] EXCEPT !.merge = k])
        PROVE  Goal
    <3>1. [cand[m] EXCEPT !.merge = k] \in CandRow
      BY <1>1, RowUpdates
    <3>2. call'[c].at = "merged" /\ Status(m)' = Status(m)
      BY <1>3, <2>2, <2>5, <3>1 DEF Status
    <3>3. QED BY <2>1, <3>2 DEF Closed
  <2>6. QED BY <2>1, <2>4, <2>5
<1>9. CASE Rollback(c, m)
  <2>1. /\ vetted' = vetted /\ UNCHANGED cand /\ Goto(c, "reverted", m, cand[m])
    BY <1>9 DEF Rollback, Revert
  <2>2. "reverted" \in CallLabel \ {"idle"}
    BY DEF CallLabel
  <2>3. call'[c].at = "reverted" /\ Status(m)' = Status(m)
    BY <1>1, <1>3, <2>1, <2>2 DEF Status
  <2>4. QED BY <2>1, <2>3
<1>10. QED BY <1>5, <1>6, <1>7, <1>8, <1>9 DEF Request

(* A candidate that may be committed or merged has been vetted. *)
VettedInv == Calm => \A m \in Cand : Status(m) \in {"approved", "committing"} => m \in vetted

THEOREM ApprovedIsVetted == Spec => []VettedInv
<1>1. Init => VettedInv
  BY DEF Init, VettedInv, Status, NoCand
<1>2. TypeOK /\ CopiesFit /\ Alone /\ VettedInv /\ [Next]_vars => VettedInv'
  <2> SUFFICES ASSUME TypeOK, CopiesFit, Alone, VettedInv, [Next]_vars, Calm',
                      NEW n \in Cand, Status(n)' \in {"approved", "committing"}
               PROVE  n \in vetted'
    BY DEF VettedInv
  <2>0. Calm
    BY CalmBefore
  <2>1. ASSUME NEW c \in Caller, NEW m \in Cand, Request(c, m) PROVE n \in vetted'
    <3>1. ActsOn(c, m)
      BY <2>1, RequestActs
    <3>2. Status(n) \in {"approved", "committing"} /\ vetted' = vetted
      BY <2>1, <3>1, RequestStatus DEF ActsOn, Status
    <3>3. QED BY <2>0, <3>2 DEF VettedInv
  <2>2. ASSUME NEW c \in Caller, Continue(c) PROVE n \in vetted'
    <3>1. PICK m \in Cand : m = call[c].m
      BY <2>2, ContinueOn
    <3>2. call[c] # Idle /\ ActsOn(c, m)
      BY <2>2, <3>1, ContinueActs DEF CopiesFit
    <3>3. Status(m) = call[c].row.status
      BY <2>0, <3>1, <3>2 DEF Alone, Status
    <3>4. CASE n = m
      <4>1. Status(n) \in {"approved", "committing"} /\ vetted' = vetted
        BY <2>2, <3>1, <3>3, <3>4, ContinueStatus DEF CopiesFit
      <4>2. QED BY <2>0, <4>1 DEF VettedInv
    <3>5. CASE n # m
      <4>1. Status(n) \in {"approved", "committing"}
        BY <3>2, <3>5 DEF ActsOn, Status
      <4>2. vetted \ {m} \subseteq vetted'
        BY <2>2, <3>1 DEF Continue, GitApply, SaveApplied, SaveTests, GitCommit,
           SaveCommitted, SaveMerged, PostCheck, AutoRollback, SaveRolledBack
      <4>3. QED BY <2>0, <3>5, <4>1, <4>2 DEF VettedInv
    <3>6. QED BY <3>4, <3>5
  <2>3. ASSUME NEW m \in Cand, Touches(m) PROVE n \in vetted'
    <3>1. \A d \in Cand \ {m} : cand'[d] = cand[d]
      BY <2>3, TouchActs
    <3>2. vetted \subseteq vetted'
      BY <2>3 DEF Touches, Prepare, Approve, Reject
    <3>3. CASE n # m
      BY <2>0, <3>1, <3>2, <3>3 DEF VettedInv, Status
    <3>4. CASE n = m /\ Approve(m)
      BY <3>4 DEF Approve
    <3>5. CASE n = m /\ Prepare(m)
      <4>1. PICK s \in {"created", "merge_conflict"} :
              SaveRow(m, [NoCand EXCEPT !.status = s])
        BY <3>5 DEF Prepare
      <4>2. /\ [NoCand EXCEPT !.status = s] \in CandRow
            /\ [NoCand EXCEPT !.status = s].status = s
        BY DEF CandRow, NoCand, CandStatus
      <4>3. QED BY <3>5, <4>1, <4>2, Saved DEF Status
    <3>6. CASE n = m /\ Reject(m)
      <4>1. SaveRow(m, [cand[m] EXCEPT !.status = "rejected"]) /\ cand[m] \in CandRow
        BY <3>6 DEF Reject, TypeOK
      <4>2. "rejected" \in CandStatus
        BY DEF CandStatus
      <4>3. /\ [cand[m] EXCEPT !.status = "rejected"] \in CandRow
            /\ [cand[m] EXCEPT !.status = "rejected"].status = "rejected"
        BY <4>1, <4>2, RowStatus
      <4>4. QED BY <3>6, <4>1, <4>3, Saved DEF Status
    <3>7. QED BY <2>3, <3>3, <3>4, <3>5, <3>6 DEF Touches
  <2>4. CASE PatchNext \/ Crash \/ UNCHANGED vars
    BY <2>0, <2>4 DEF PatchNext, Crash, vars, VettedInv, Status
  <2>5. QED BY <2>1, <2>2, <2>3, <2>4 DEF Next, Touches
<1>3. QED BY <1>1, <1>2, TypeCorrect, RequestsAlone, PTL DEF Spec

(* Only work that passed its last tests and was approved since is merged,   *)
(* as long as no requests overlap on the candidate or break off.            *)
THEOREM MergesAreVetted == Spec => MergeVetted
<1>1. TypeOK /\ CopiesFit /\ VettedInv /\ [Next]_vars =>
        [\A m \in Cand : MergedIn(m)' /\ ~MergedIn(m) => Disturbed' \/ m \in vetted]_vars
  <2> SUFFICES ASSUME TypeOK, CopiesFit, VettedInv, [Next]_vars,
                      NEW n \in Cand, MergedIn(n)', ~MergedIn(n), ~Disturbed'
               PROVE  n \in vetted
    OBVIOUS
  <2>0. Calm
    BY CalmBefore DEF Calm
  <2>1. ASSUME UNCHANGED main PROVE FALSE
    BY <2>1 DEF MergedIn
  <2>2. ASSUME NEW m \in Cand, NEW i \in ToRevert(m), Reverts(m, i) PROVE FALSE
    <3>1. /\ DOMAIN main = 1..Len(main) /\ Len(main) \in Nat
          /\ DOMAIN main' = 1..(Len(main) + 1)
          /\ \A j \in DOMAIN main : /\ main'[j].what = main[j].what
                                    /\ main'[j].of = main[j].of
      BY <2>2, MainGrown
    <3>2. i \in DOMAIN main /\ i \in Nat
      BY MainTypes DEF ToRevert
    <3>3. RevertOf(m, i) \in Entry /\ RevertOf(m, i).what = "revert"
      BY ZenonT(30), <3>2, NewEntries
    <3>4. main'[Len(main) + 1] = RevertOf(m, i)
      BY <2>2, <3>2, <3>3, Undone DEF Reverts
    <3>5. QED BY <3>1, <3>3, <3>4 DEF MergedIn
  <2>3. ASSUME NEW c \in Caller, NEW m \in Cand, Request(c, m) PROVE n \in vetted
    <3>1. CASE Finalize(c, m)
      <4>1. Status(m) \in {"approved", "committing"}
        BY <3>1 DEF Finalize
      <4>2. Merges(m)
        BY <2>1, <3>1, FinalizeMain
      <4>3. n = m
        <5>1. /\ DOMAIN main = 1..Len(main) /\ Len(main) \in Nat
              /\ DOMAIN main' = 1..(Len(main) + 1)
              /\ \A j \in DOMAIN main : /\ main'[j].what = main[j].what
                                        /\ main'[j].of = main[j].of
              /\ main'[Len(main) + 1].of = m
          BY <4>2, MainGrown
        <5>2. QED BY <5>1 DEF MergedIn
      <4>4. QED BY <2>0, <4>1, <4>3 DEF VettedInv
    <3>2. CASE ~Finalize(c, m)
      <4>1. UNCHANGED main \/ \E i \in ToRevert(m) : Reverts(m, i)
        BY <2>3, <3>2, RevertMain
           DEF Request, ApplyWorkspace, RunTests, CommitCandidate, Rollback
      <4>2. QED BY <2>1, <2>2, <4>1
    <3>3. QED BY <3>1, <3>2
  <2>4. ASSUME NEW c \in Caller, Continue(c) PROVE FALSE
    <3>1. PICK m \in Cand : m = call[c].m
      BY <2>4, ContinueOn
    <3>2. QED BY <2>1, <2>2, <2>4, <3>1, ContinueMain
  <2>5. QED BY <2>1, <2>3, <2>4, MainStays DEF vars
<1>2. QED BY <1>1, TypeCorrect, ApprovedIsVetted, PTL DEF Spec, MergeVetted

(* A human's rejection of a patch stands; so do the last words on           *)
(* candidates, as long as no requests overlap on them or break off.         *)
THEOREM VerdictsHold == Spec => VerdictsStand
<1>1. TypeOK /\ CopiesFit /\ Alone /\ [Next]_vars =>
        [/\ \A m \in Cand : Status(m) \in Closed => Disturbed' \/ Status(m)' = Status(m)
         /\ \A p \in Patch : PStatus(p) = "rejected" => PStatus(p)' = "rejected"]_vars
  <2> SUFFICES ASSUME TypeOK, CopiesFit, Alone, [Next]_vars
               PROVE  /\ \A m \in Cand : Status(m) \in Closed =>
                                           Disturbed' \/ Status(m)' = Status(m)
                      /\ \A p \in Patch : PStatus(p) = "rejected" => PStatus(p)' = "rejected"
    OBVIOUS
  <2>1. ASSUME NEW p \in Patch, PStatus(p) = "rejected" PROVE PStatus(p)' = "rejected"
    <3>1. CASE PatchNext
      BY <2>1, <3>1, PatchSteps DEF PatchNext, TypeOK
    <3>2. CASE ~PatchNext
      <4>1. ASSUME NEW c \in Caller, Continue(c) \/ \E m \in Cand : Request(c, m)
            PROVE  patch' = patch
        BY <4>1
           DEF Continue, GitApply, SaveApplied, SaveTests, GitCommit,
               SaveCommitted, SaveMerged, PostCheck, AutoRollback,
               SaveRolledBack, Request, ApplyWorkspace, RunTests,
               CommitCandidate, Finalize, Rollback
      <4>2. patch' = patch
        BY <3>2, <4>1 DEF Next, Prepare, Approve, Reject, Crash, vars
      <4>3. QED BY <2>1, <4>2 DEF PStatus
    <3>3. QED BY <3>1, <3>2
  <2>2. ASSUME NEW n \in Cand, Status(n) \in Closed, ~Disturbed'
        PROVE  Status(n)' = Status(n)
    <3>0. Calm
      BY <2>2, CalmBefore DEF Calm
    <3>1. ASSUME NEW c \in Caller, NEW m \in Cand, Request(c, m)
          PROVE  Status(n)' = Status(n)
      <4>1. ActsOn(c, m)
        BY <3>1, RequestActs
      <4>2. QED BY <2>2, <3>1, <4>1, RequestStatus DEF ActsOn, Status
    <3>2. ASSUME NEW c \in Caller, Continue(c) PROVE Status(n)' = Status(n)
      <4>1. PICK m \in Cand : m = call[c].m
        BY <3>2, ContinueOn
      <4>2. call[c] # Idle /\ ActsOn(c, m)
        BY <3>2, <4>1, ContinueActs DEF CopiesFit
      <4>3. Status(m) = call[c].row.status
        BY <3>0, <4>1, <4>2 DEF Alone, Status
      <4>4. n # m
        BY <2>2, <3>2, <4>1, <4>3, ContinueStatus DEF CopiesFit
      <4>5. QED BY <4>2, <4>4 DEF ActsOn, Status
    <3>3. ASSUME NEW m \in Cand, Touches(m) PROVE Status(n)' = Status(n)
      <4>1. \A d \in Cand \ {m} : cand'[d] = cand[d]
        BY <3>3, TouchActs
      <4>2. n # m
        BY <2>2, <3>3 DEF Touches, Prepare, Approve, Reject, Closed
      <4>3. QED BY <4>1, <4>2 DEF Status
    <3>4. CASE PatchNext \/ Crash \/ UNCHANGED vars
      BY <3>4 DEF PatchNext, Crash, vars, Status
    <3>5. QED BY <3>1, <3>2, <3>3, <3>4 DEF Next, Touches
  <2>3. QED BY <2>1, <2>2
<1>2. QED BY <1>1, TypeCorrect, RequestsAlone, PTL DEF Spec, VerdictsStand
-----------------------------------------------------------------------------
(* The rows and main tell the same story.                                   *)

(* How main grew, in full. *)
LEMMA MergedMain ==
  ASSUME TypeOK, NEW m \in Cand, Merges(m)
  PROVE  /\ DOMAIN main = 1..Len(main) /\ Len(main) \in Nat
         /\ DOMAIN main' = 1..(Len(main) + 1)
         /\ \A j \in DOMAIN main : main'[j] = main[j]
         /\ main'[Len(main) + 1] = MergeOf(m)
BY Appended, NewEntries DEF Merges

LEMMA RevertedMain ==
  ASSUME TypeOK, NEW m \in Cand, NEW i \in ToRevert(m), Reverts(m, i)
  PROVE  /\ DOMAIN main = 1..Len(main) /\ Len(main) \in Nat
         /\ i \in DOMAIN main /\ i \in Nat
         /\ DOMAIN main' = 1..(Len(main) + 1)
         /\ \A j \in DOMAIN main \ {i} : main'[j] = main[j]
         /\ main'[i].what = "merge" /\ main'[i].of = main[i].of
         /\ main'[i].adds = main[i].adds /\ main'[i].undone
         /\ main'[Len(main) + 1] = RevertOf(m, i)
<1>1. i \in DOMAIN main /\ i \in Nat /\ main[i] \in Entry /\ main[i].what = "merge"
  BY MainTypes DEF ToRevert
<1>2. RevertOf(m, i) \in Entry
  BY <1>1, NewEntries
<1>3. /\ DOMAIN main = 1..Len(main) /\ Len(main) \in Nat
      /\ DOMAIN main' = 1..(Len(main) + 1)
      /\ \A j \in DOMAIN main \ {i} : main'[j] = main[j]
      /\ main'[i] = [main[i] EXCEPT !.undone = TRUE]
      /\ main'[Len(main) + 1] = RevertOf(m, i)
  BY <1>1, <1>2, Undone DEF Reverts
<1>4. /\ main'[i].what = "merge" /\ main'[i].of = main[i].of
      /\ main'[i].adds = main[i].adds /\ main'[i].undone
  BY <1>1, <1>3 DEF Entry
<1>5. QED BY <1>1, <1>3, <1>4

(* Main grows in these two ways only. *)
LEMMA MainMoves ==
  ASSUME TypeOK, CopiesFit, [Next]_vars
  PROVE  \/ UNCHANGED main
         \/ \E m \in Cand : Merges(m) \/ \E i \in ToRevert(m) : Reverts(m, i)
<1>1. ASSUME NEW c \in Caller, NEW m \in Cand, Request(c, m)
      PROVE  \/ UNCHANGED main
             \/ \E n \in Cand : Merges(n) \/ \E i \in ToRevert(n) : Reverts(n, i)
  BY <1>1, RequestMain
<1>2. ASSUME NEW c \in Caller, Continue(c)
      PROVE  \/ UNCHANGED main
             \/ \E n \in Cand : Merges(n) \/ \E i \in ToRevert(n) : Reverts(n, i)
  <2>1. PICK m \in Cand : m = call[c].m
    BY <1>2, ContinueOn
  <2>2. QED BY <1>2, <2>1, ContinueMain
<1>3. QED BY <1>1, <1>2, MainStays DEF vars

(* A candidate is merged at one place, and a merge that added nothing found *)
(* another candidate of its patch there.                                    *)
MergedOnce ==
  \A i, j \in DOMAIN main :
    main[i].what = "merge" /\ main[j].what = "merge" /\ main[i].of = main[j].of
      => i = j
AddsUnlessThere ==
  \A i \in DOMAIN main :
    main[i].what = "merge" /\ ~main[i].adds =>
      \E n \in Cand \ {main[i].of} : Of(n) = Of(main[i].of) /\ MergedIn(n)

THEOREM MergesAreOnce == Spec => [](MergedOnce /\ AddsUnlessThere)
<1>1. Init => MergedOnce /\ AddsUnlessThere
  BY DEF Init, MergedOnce, AddsUnlessThere
<1>2. TypeOK /\ CopiesFit /\ MergedOnce /\ AddsUnlessThere /\ [Next]_vars
        => MergedOnce' /\ AddsUnlessThere'
  <2> SUFFICES ASSUME TypeOK, CopiesFit, MergedOnce, AddsUnlessThere, [Next]_vars
               PROVE  MergedOnce' /\ AddsUnlessThere'
    OBVIOUS
  <2>1. CASE UNCHANGED main
    BY <2>1 DEF MergedOnce, AddsUnlessThere, MergedIn
  <2>2. ASSUME NEW m \in Cand, Merges(m) PROVE MergedOnce' /\ AddsUnlessThere'
    <3>1. /\ DOMAIN main = 1..Len(main) /\ Len(main) \in Nat
          /\ DOMAIN main' = 1..(Len(main) + 1)
          /\ \A j \in DOMAIN main : main'[j] = main[j]
          /\ main'[Len(main) + 1] = MergeOf(m)
      BY <2>2, MergedMain
    <3>2. /\ MergeOf(m).what = "merge" /\ MergeOf(m).of = m
          /\ (MergeOf(m).adds <=> ~OnMain(Of(m))) /\ ~MergedIn(m)
      BY <2>2, NewEntries DEF Merges
    <3>3. \A n \in Cand : MergedIn(n) => MergedIn(n)'
      BY <3>1 DEF MergedIn
    <3>4. MergedOnce'
      BY <3>1, <3>2 DEF MergedOnce, MergedIn
    <3>5. ASSUME OnMain(Of(m)) PROVE \E n \in Cand \ {m} : Of(n) = Of(m) /\ MergedIn(n)
      <4>1. PICK i \in DOMAIN main : main[i].what = "merge" /\ Of(main[i].of) = Of(m)
        BY <3>5 DEF OnMain
      <4>2. main[i].of \in Cand /\ MergedIn(main[i].of)
        BY <4>1, MainTypes DEF MergedIn
      <4>3. QED BY <3>2, <4>1, <4>2
    <3>6. ASSUME NEW i \in DOMAIN main', main'[i].what = "merge", ~main'[i].adds
          PROVE  \E n \in Cand \ {main'[i].of} : Of(n) = Of(main'[i].of) /\ MergedIn(n)'
      <4>1. CASE i \in DOMAIN main
        BY <3>1, <3>3, <3>6, <4>1 DEF AddsUnlessThere
      <4>2. CASE i = Len(main) + 1
        BY <3>1, <3>2, <3>3, <3>5, <3>6, <4>2
      <4>3. QED BY <3>1, <4>1, <4>2
    <3>7. QED BY <3>4, <3>6 DEF AddsUnlessThere
  <2>3. ASSUME NEW m \in Cand, NEW k \in ToRevert(m), Reverts(m, k)
        PROVE  MergedOnce' /\ AddsUnlessThere'
    <3>1. /\ DOMAIN main = 1..Len(main) /\ Len(main) \in Nat
          /\ DOMAIN main' = 1..(Len(main) + 1)
          /\ \A j \in DOMAIN main : /\ main'[j].what = main[j].what
                                    /\ main'[j].of = main[j].of
                                    /\ main'[j].adds = main[j].adds
      BY <2>3, MainGrown
    <3>2. main'[Len(main) + 1].what = "revert"
      <4>1. k \in Nat /\ main'[Len(main) + 1] = RevertOf(m, k)
        BY <2>3, RevertedMain
      <4>2. RevertOf(m, k).what = "revert"
        BY ZenonT(30), <4>1, NewEntries
      <4>3. QED BY <4>1, <4>2
    <3>3. \A n \in Cand : MergedIn(n) => MergedIn(n)'
      BY <3>1 DEF MergedIn
    <3>4. MergedOnce'
      BY <3>1, <3>2 DEF MergedOnce
    <3>5. ASSUME NEW i \in DOMAIN main', main'[i].what = "merge", ~main'[i].adds
          PROVE  \E n \in Cand \ {main'[i].of} : Of(n) = Of(main'[i].of) /\ MergedIn(n)'
      BY <3>1, <3>2, <3>3, <3>5 DEF AddsUnlessThere
    <3>6. QED BY <3>4, <3>5 DEF AddsUnlessThere
  <2>4. QED BY <2>1, <2>2, <2>3, MainMoves
<1>3. QED BY <1>1, <1>2, TypeCorrect, PTL DEF Spec

(* The merge on record in a row is the candidate's own. *)
MergeOwn(r, m) ==
  r.merge = 0 \/ /\ r.merge \in DOMAIN main
                 /\ main[r.merge].what = "merge" /\ main[r.merge].of = m

(* So says every row and every copy, and so a revert takes back its own.    *)
OwnMerges ==
  ~again =>
    /\ \A m \in Cand : MergeOwn(cand[m], m)
    /\ \A c \in Caller : call[c] # Idle => MergeOwn(call[c].row, call[c].m)
    /\ \A i \in DOMAIN main :
         main[i].what = "revert" => /\ main[i].reverts \in DOMAIN main
                                    /\ main[main[i].reverts].of = main[i].of

(* The column in the steps of a request, *)
LEMMA RequestMerge ==
  ASSUME TypeOK, NEW c \in Caller, NEW m \in Cand, Request(c, m)
  PROVE  /\ cand'[m].merge = cand[m].merge
         /\ call'[c] # Idle =>
              \/ call'[c].row.merge = cand[m].merge
              \/ again'
              \/ Merges(m) /\ call'[c].row.merge = Len(main) + 1
<1>1. cand[m] \in CandRow
  BY DEF TypeOK
<1>2. ASSUME NEW st \in CandStatus, SaveRow(m, [cand[m] EXCEPT !.status = st])
      PROVE  cand'[m].merge = cand[m].merge
  <2>1. /\ [cand[m] EXCEPT !.status = st] \in CandRow
        /\ [cand[m] EXCEPT !.status = st].merge = cand[m].merge
    BY <1>1, RowStatus
  <2>2. QED BY <1>2, <2>1, Saved
<1>3. ASSUME NEW st \in CandStatus, NEW l \in CallLabel \ {"idle"},
             Goto(c, l, m, [cand[m] EXCEPT !.status = st])
      PROVE  call'[c].row.merge = cand[m].merge
  <2> DEFINE r == [cand[m] EXCEPT !.status = st]
  <2>1. r \in CandRow /\ r.merge = cand[m].merge
    BY <1>1, RowStatus
  <2>2. Goto(c, l, m, r)
    BY <1>3
  <2> HIDE DEF r
  <2>3. QED BY <2>1, <2>2, Turn
<1>4. ASSUME NEW k \in Nat, Goto(c, "merged", m, [cand[m] EXCEPT !.merge = k])
      PROVE  call'[c].row.merge = k
  <2> DEFINE r == [cand[m] EXCEPT !.merge = k]
  <2>1. "merged" \in CallLabel \ {"idle"}
    BY DEF CallLabel
  <2>2. r \in CandRow /\ r.merge = k
    BY <1>1, RowUpdates
  <2>3. Goto(c, "merged", m, r)
    BY <1>4
  <2> HIDE DEF r
  <2>4. QED BY <2>1, <2>2, <2>3, Turn
<1>5. CASE ApplyWorkspace(c, m)
  <2>1. "preparing" \in CandStatus /\ "apply" \in CallLabel \ {"idle"}
    BY DEF CandStatus, CallLabel
  <2>2. QED BY <1>2, <1>3, <1>5, <2>1 DEF ApplyWorkspace
<1>6. CASE RunTests(c, m)
  <2>1. "testing" \in CandStatus /\ "tests" \in CallLabel \ {"idle"}
    BY DEF CandStatus, CallLabel
  <2>2. QED BY <1>2, <1>3, <1>6, <2>1 DEF RunTests
<1>7. CASE CommitCandidate(c, m)
  <2>1. "committing" \in CandStatus /\ "commit" \in CallLabel \ {"idle"}
    BY DEF CandStatus, CallLabel
  <2>2. QED BY <1>2, <1>3, <1>7, <2>1 DEF CommitCandidate
<1>8. CASE Finalize(c, m)
  <2>1. Len(main) \in Nat /\ Len(main) + 1 \in Nat /\ call[c] = Idle
    BY <1>8, MainTypes, CallTypes DEF Finalize
  <2>2. CASE MergedIn(m)
    BY <1>8, <2>2 DEF Finalize
  <2>3. CASE ~MergedIn(m)
    <3>1. \/ /\ SaveRow(m, [cand[m] EXCEPT !.status = "merge_conflict"])
             /\ UNCHANGED <<main, call>>
          \/ /\ main' = Append(main, MergeOf(m)) /\ UNCHANGED cand
             /\ Goto(c, "merged", m, [cand[m] EXCEPT !.merge = Len(main) + 1])
      BY <1>8, <2>3 DEF Finalize, MergeOf
    <3>2. "merge_conflict" \in CandStatus
      BY DEF CandStatus
    <3>3. QED BY <1>2, <1>4, <2>1, <2>3, <3>1, <3>2 DEF Merges
  <2>4. QED BY <2>2, <2>3
<1>9. CASE Rollback(c, m)
  <2>1. UNCHANGED cand /\ Goto(c, "reverted", m, cand[m])
    BY <1>9 DEF Rollback, Revert
  <2>2. "reverted" \in CallLabel \ {"idle"}
    BY DEF CallLabel
  <2>3. QED BY <1>1, <2>1, <2>2, Turn
<1>10. QED BY <1>5, <1>6, <1>7, <1>8, <1>9 DEF Request

LEMMA ContinueMerge ==
  ASSUME TypeOK, NEW c \in Caller, NEW m \in Cand, call[c].m = m, Continue(c),
         call[c] # Idle
  PROVE  /\ cand'[m].merge \in {cand[m].merge, call[c].row.merge}
         /\ call'[c] # Idle => call'[c].row.merge \in {cand[m].merge, call[c].row.merge}
         /\ UNCHANGED again
<1>1. PICK row \in CandRow : row = call[c].row
  BY CallTypes
<1>2. cand[m] \in CandRow
  BY DEF TypeOK
<1>3. ASSUME NEW r \in CandRow, r.merge = row.merge, SaveRow(m, r)
      PROVE  cand'[m].merge = row.merge
  BY <1>3, Saved
<1>4. ASSUME Return(c) PROVE call'[c] = Idle
  BY <1>4, TurnBack
<1>5. ASSUME NEW l \in CallLabel \ {"idle"}, NEW r \in CandRow, Goto(c, l, m, r)
      PROVE  call'[c].row = r
  BY <1>5, Turn
<1>6. \A st \in CandStatus : /\ [row EXCEPT !.status = st] \in CandRow
                             /\ [row EXCEPT !.status = st].merge = row.merge
  BY RowStatus
<1>7. /\ "failed" \in CandStatus /\ "merged" \in CandStatus
      /\ "merge_conflict" \in CandStatus /\ "rolled_back" \in CandStatus
      /\ "applied" \in CallLabel \ {"idle"} /\ "committed" \in CallLabel \ {"idle"}
      /\ "postcheck" \in CallLabel \ {"idle"} /\ "rollback" \in CallLabel \ {"idle"}
      /\ "reverted" \in CallLabel \ {"idle"}
  BY DEF CandStatus, CallLabel
<1>8. UNCHANGED again
  BY DEF Continue, GitApply, SaveApplied, SaveTests, GitCommit, SaveCommitted,
     SaveMerged, PostCheck, AutoRollback, SaveRolledBack
<1>9. CASE GitApply(c)
  <2>1. \/ UNCHANGED cand /\ Goto(c, "applied", m, row)
        \/ SaveRow(m, [row EXCEPT !.status = "merge_conflict"]) /\ Return(c)
    BY <1>1, <1>9 DEF GitApply, Row
  <2>2. QED BY <1>1, <1>3, <1>4, <1>5, <1>6, <1>7, <1>8, <2>1
<1>10. CASE SaveApplied(c)
  <2>1. /\ Return(c)
        /\ \/ SaveRow(m, [row EXCEPT !.applied = TRUE])
           \/ SaveRow(m, [row EXCEPT !.status = "failed"])
    BY <1>1, <1>10 DEF SaveApplied, Row
  <2>2. [row EXCEPT !.applied = TRUE] \in CandRow
        /\ [row EXCEPT !.applied = TRUE].merge = row.merge
    BY RowUpdates
  <2>3. QED BY <1>1, <1>3, <1>4, <1>6, <1>7, <1>8, <2>1, <2>2
<1>11. CASE SaveTests(c)
  <2>1. /\ Return(c)
        /\ \/ SaveRow(m, [row EXCEPT !.status = "failed"])
           \/ \E ok \in BOOLEAN :
                SaveRow(m, [row EXCEPT !.tested = ok,
                         !.status = IF ok THEN "waiting_approval" ELSE "failed"])
    BY <1>1, <1>11 DEF SaveTests, Row
  <2>2. ASSUME NEW ok \in BOOLEAN
        PROVE  /\ [row EXCEPT !.tested = ok,
                    !.status = IF ok THEN "waiting_approval" ELSE "failed"] \in CandRow
               /\ [row EXCEPT !.tested = ok,
                    !.status = IF ok THEN "waiting_approval" ELSE "failed"].merge = row.merge
    BY DEF CandRow, CandStatus
  <2>3. QED BY <1>1, <1>3, <1>4, <1>6, <1>7, <1>8, <2>1, <2>2
<1>12. CASE GitCommit(c)
  <2>1. \/ UNCHANGED cand /\ Goto(c, "committed", m, row)
        \/ SaveRow(m, [row EXCEPT !.status = "failed"]) /\ Return(c)
    BY <1>1, <1>12 DEF GitCommit, Row
  <2>2. QED BY <1>1, <1>3, <1>4, <1>5, <1>6, <1>7, <1>8, <2>1
<1>13. CASE SaveCommitted(c)
  <2>1. /\ Return(c)
        /\ \/ SaveRow(m, [row EXCEPT !.commit = TRUE])
           \/ SaveRow(m, [row EXCEPT !.status = "failed"])
    BY <1>1, <1>13 DEF SaveCommitted, Row
  <2>2. [row EXCEPT !.commit = TRUE] \in CandRow
        /\ [row EXCEPT !.commit = TRUE].merge = row.merge
    BY RowUpdates
  <2>3. QED BY <1>1, <1>3, <1>4, <1>6, <1>7, <1>8, <2>1, <2>2
<1>14. CASE SaveMerged(c)
  <2>1. /\ SaveRow(m, [row EXCEPT !.status = "merged"])
        /\ Return(c) \/ Goto(c, "postcheck", m, [row EXCEPT !.status = "merged"])
    BY <1>1, <1>14 DEF SaveMerged, Row
  <2>2. QED BY <1>1, <1>3, <1>4, <1>5, <1>6, <1>7, <1>8, <2>1
<1>15. CASE PostCheck(c)
  <2>1. \/ SaveRow(m, row) /\ Return(c)
        \/ SaveRow(m, row) /\ Goto(c, "rollback", m, row)
        \/ SaveRow(m, [row EXCEPT !.status = "failed"]) /\ Return(c)
    BY <1>1, <1>15 DEF PostCheck, Row
  <2>2. QED BY <1>1, <1>3, <1>4, <1>5, <1>6, <1>7, <1>8, <2>1
<1>16. CASE AutoRollback(c)
  <2>1. UNCHANGED cand /\ (Return(c) \/ Goto(c, "reverted", m, cand[m]))
    BY <1>16 DEF AutoRollback, Revert
  <2>2. QED BY <1>2, <1>4, <1>5, <1>7, <1>8, <2>1
<1>17. CASE SaveRolledBack(c)
  <2>1. SaveRow(m, [row EXCEPT !.status = "rolled_back"]) /\ Return(c)
    BY <1>1, <1>17 DEF SaveRolledBack, Row
  <2>2. QED BY <1>1, <1>3, <1>4, <1>6, <1>7, <1>8, <2>1
<1>18. QED BY <1>9, <1>10, <1>11, <1>12, <1>13, <1>14, <1>15, <1>16, <1>17
              DEF Continue

(* and when the human, or prepare, writes the row. *)
LEMMA TouchMerge ==
  ASSUME TypeOK, NEW m \in Cand, Touches(m)
  PROVE  cand'[m].merge \in {0, cand[m].merge} /\ UNCHANGED <<main, call, again>>
<1>1. UNCHANGED <<main, call, again>> /\ cand[m] \in CandRow
  BY DEF Touches, Prepare, Approve, Reject, TypeOK
<1>2. CASE Prepare(m)
  <2>1. PICK s \in {"created", "merge_conflict"} : SaveRow(m, [NoCand EXCEPT !.status = s])
    BY <1>2 DEF Prepare
  <2>2. s \in CandStatus
    BY DEF CandStatus
  <2>3. [NoCand EXCEPT !.status = s] \in CandRow /\ [NoCand EXCEPT !.status = s].merge = 0
    BY <2>2, FreshRow
  <2>4. QED BY <1>1, <2>1, <2>3, Saved
<1>3. CASE Approve(m) \/ Reject(m)
  <2>1. PICK s \in {"approved", "rejected"} : SaveRow(m, [cand[m] EXCEPT !.status = s])
    BY <1>3 DEF Approve, Reject
  <2>2. s \in CandStatus
    BY DEF CandStatus
  <2>3. /\ [cand[m] EXCEPT !.status = s] \in CandRow
        /\ [cand[m] EXCEPT !.status = s].merge = cand[m].merge
    BY <1>1, <2>2, RowStatus
  <2>4. QED BY <1>1, <2>1, <2>3, Saved
<1>4. QED BY <1>2, <1>3 DEF Touches

(* Places keep their merges. *)
LEMMA PlacesStay ==
  ASSUME TypeOK, CopiesFit, [Next]_vars
  PROVE  /\ DOMAIN main \subseteq DOMAIN main'
         /\ \A i \in DOMAIN main : /\ main'[i].what = main[i].what
                                   /\ main'[i].of = main[i].of
                                   /\ main'[i].reverts = main[i].reverts
<1>1. CASE UNCHANGED main
  BY <1>1
<1>2. ASSUME NEW m \in Cand, Merges(m) \/ \E i \in ToRevert(m) : Reverts(m, i)
      PROVE  /\ DOMAIN main \subseteq DOMAIN main'
             /\ \A i \in DOMAIN main : /\ main'[i].what = main[i].what
                                       /\ main'[i].of = main[i].of
                                       /\ main'[i].reverts = main[i].reverts
  BY <1>2, MainGrown
<1>3. QED BY <1>1, <1>2, MainMoves

(* A record of its own stays one. *)
LEMMA StaysOwn ==
  ASSUME TypeOK, CopiesFit, [Next]_vars, NEW r, NEW s, NEW m,
         MergeOwn(r, m), s.merge = 0 \/ s.merge = r.merge
  PROVE  MergeOwn(s, m)'
BY PlacesStay DEF MergeOwn

THEOREM OwnMergesHold == Spec => []OwnMerges
<1>1. Init => OwnMerges
  BY FreshRow DEF Init, OwnMerges, MergeOwn
<1>2. TypeOK /\ CopiesFit /\ OwnMerges /\ [Next]_vars => OwnMerges'
  <2> SUFFICES ASSUME TypeOK, CopiesFit, OwnMerges, [Next]_vars, ~again'
               PROVE  /\ \A m \in Cand : MergeOwn(cand[m], m)'
                      /\ \A c \in Caller : call'[c] # Idle =>
                                             MergeOwn(call[c].row, call[c].m)'
                      /\ \A i \in DOMAIN main' :
                           main'[i].what = "revert" =>
                             /\ main'[i].reverts \in DOMAIN main'
                             /\ main'[main'[i].reverts].of = main'[i].of
    BY DEF OwnMerges
  <2>1. again' = again \/ again'
    <3>1. ASSUME NEW c \in Caller, Continue(c) PROVE again' = again
      BY <3>1
         DEF Continue, GitApply, SaveApplied, SaveTests, GitCommit,
             SaveCommitted, SaveMerged, PostCheck, AutoRollback, SaveRolledBack
    <3>2. ASSUME NEW c \in Caller, NEW m \in Cand, Request(c, m)
          PROVE  again' = again \/ again'
      BY <3>2
         DEF Request, ApplyWorkspace, RunTests, CommitCandidate, Finalize,
             Rollback
    <3>3. QED
      BY <3>1, <3>2 DEF Next, PatchNext, Prepare, Approve, Reject, Crash, vars
  <2>2. /\ \A m \in Cand : MergeOwn(cand[m], m)
        /\ \A c \in Caller : call[c] # Idle => MergeOwn(call[c].row, call[c].m)
        /\ \A i \in DOMAIN main :
             main[i].what = "revert" => /\ main[i].reverts \in DOMAIN main
                                        /\ main[main[i].reverts].of = main[i].of
    BY <2>1 DEF OwnMerges
  <2>3. ASSUME NEW i \in DOMAIN main', main'[i].what = "revert"
        PROVE  /\ main'[i].reverts \in DOMAIN main'
               /\ main'[main'[i].reverts].of = main'[i].of
    <3>1. CASE i \in DOMAIN main
      BY <2>2, <2>3, <3>1, PlacesStay
    <3>2. CASE i \notin DOMAIN main
      <4>1. PICK m \in Cand : Merges(m) \/ \E k \in ToRevert(m) : Reverts(m, k)
        BY <3>2, MainMoves
      <4>2. CASE Merges(m)
        <5>1. /\ DOMAIN main = 1..Len(main) /\ Len(main) \in Nat
              /\ DOMAIN main' = 1..(Len(main) + 1)
              /\ main'[Len(main) + 1] = MergeOf(m) /\ MergeOf(m).what = "merge"
          BY <4>2, MergedMain, NewEntries
        <5>2. QED BY <2>3, <3>2, <5>1
      <4>3. ASSUME NEW k \in ToRevert(m), Reverts(m, k)
            PROVE  /\ main'[i].reverts \in DOMAIN main'
                   /\ main'[main'[i].reverts].of = main'[i].of
        <5>1. /\ DOMAIN main = 1..Len(main) /\ Len(main) \in Nat
              /\ k \in DOMAIN main /\ k \in Nat
              /\ DOMAIN main' = 1..(Len(main) + 1)
              /\ main'[k].of = main[k].of
              /\ main'[Len(main) + 1] = RevertOf(m, k)
          BY <4>3, RevertedMain
        <5>2. RevertOf(m, k).of = m /\ RevertOf(m, k).reverts = k
          BY DEF RevertOf
        <5>3. main[k].of = m
          <6>1. k = cand[m].merge /\ MergeOwn(cand[m], m)
            BY <2>2 DEF ToRevert
          <6>2. QED BY <5>1, <6>1 DEF MergeOwn
        <5>4. i = Len(main) + 1
          BY <3>2, <5>1
        <5>5. QED BY <5>1, <5>2, <5>3, <5>4
      <4>4. QED BY <4>1, <4>2, <4>3
    <3>3. QED BY <3>1, <3>2
  <2>4. ASSUME NEW c \in Caller, NEW m \in Cand, call[c] = Idle \/ call[c].m = m,
               ActsOn(c, m),
               \/ cand'[m].merge = cand[m].merge
               \/ call[c] # Idle /\ cand'[m].merge = call[c].row.merge,
               call'[c] # Idle => \/ call'[c].row.merge = cand[m].merge
                                  \/ call[c] # Idle /\ call'[c].row.merge = call[c].row.merge
                                  \/ MergeOwn(call[c].row, m)'
        PROVE  /\ \A n \in Cand : MergeOwn(cand[n], n)'
               /\ \A d \in Caller : call'[d] # Idle => MergeOwn(call[d].row, call[d].m)'
    <3>1. ASSUME NEW n \in Cand PROVE MergeOwn(cand[n], n)'
      <4>1. CASE n = m
        <5>1. MergeOwn(cand[m], m) /\ (call[c] # Idle => MergeOwn(call[c].row, m))
          BY <2>2, <2>4
        <5>2. QED BY <2>4, <4>1, <5>1, PlacesStay DEF MergeOwn
      <4>2. CASE n # m
        <5>1. cand'[n] = cand[n] /\ MergeOwn(cand[n], n)
          BY <2>2, <2>4, <4>2 DEF ActsOn
        <5>2. QED BY <5>1, PlacesStay DEF MergeOwn
      <4>3. QED BY <4>1, <4>2
    <3>2. ASSUME NEW d \in Caller, call'[d] # Idle
          PROVE  MergeOwn(call[d].row, call[d].m)'
      <4>1. CASE d = c
        <5>1. /\ MergeOwn(cand[m], m) /\ (call[c] # Idle => MergeOwn(call[c].row, m))
              /\ call'[c].m = m
          BY <2>2, <2>4, <3>2, <4>1 DEF ActsOn
        <5>2. QED BY <2>4, <3>2, <4>1, <5>1, PlacesStay DEF MergeOwn
      <4>2. CASE d # c
        <5>1. call'[d] = call[d] /\ MergeOwn(call[d].row, call[d].m)
          BY <2>2, <2>4, <3>2, <4>2 DEF ActsOn
        <5>2. QED BY <5>1, PlacesStay DEF MergeOwn
      <4>3. QED BY <4>1, <4>2
    <3>3. QED BY <3>1, <3>2
  <2>5. ASSUME NEW c \in Caller, NEW m \in Cand, Request(c, m)
        PROVE  /\ \A n \in Cand : MergeOwn(cand[n], n)'
               /\ \A d \in Caller : call'[d] # Idle => MergeOwn(call[d].row, call[d].m)'
    <3>1. ActsOn(c, m) /\ call[c] = Idle
      BY <2>5, RequestActs
    <3>2. cand'[m].merge = cand[m].merge
      BY <2>5, RequestMerge
    <3>3. ASSUME Merges(m), call'[c].row.merge = Len(main) + 1
          PROVE  MergeOwn(call[c].row, m)'
      <4>1. /\ Len(main) \in Nat /\ DOMAIN main' = 1..(Len(main) + 1)
            /\ main'[Len(main) + 1] = MergeOf(m)
            /\ MergeOf(m).what = "merge" /\ MergeOf(m).of = m
        BY <3>3, MergedMain, NewEntries
      <4>2. QED BY <3>3, <4>1 DEF MergeOwn
    <3>4. call'[c] # Idle => \/ call'[c].row.merge = cand[m].merge
                             \/ MergeOwn(call[c].row, m)'
      BY <2>5, <3>3, RequestMerge
    <3>5. QED BY <2>4, <3>1, <3>2, <3>4
  <2>6. ASSUME NEW c \in Caller, Continue(c)
        PROVE  /\ \A n \in Cand : MergeOwn(cand[n], n)'
               /\ \A d \in Caller : call'[d] # Idle => MergeOwn(call[d].row, call[d].m)'
    <3>1. PICK m \in Cand : m = call[c].m
      BY <2>6, ContinueOn
    <3>2. call[c] # Idle /\ ActsOn(c, m)
      BY <2>6, <3>1, ContinueActs DEF CopiesFit
    <3>3. /\ cand'[m].merge \in {cand[m].merge, call[c].row.merge}
          /\ call'[c] # Idle => call'[c].row.merge \in {cand[m].merge, call[c].row.merge}
      BY <2>6, <3>1, <3>2, ContinueMerge
    <3>4. QED BY <2>4, <3>1, <3>2, <3>3
  <2>7. ASSUME NEW m \in Cand, Touches(m)
        PROVE  /\ \A n \in Cand : MergeOwn(cand[n], n)'
               /\ \A d \in Caller : call'[d] # Idle => MergeOwn(call[d].row, call[d].m)'
    <3>1. /\ cand'[m].merge \in {0, cand[m].merge} /\ UNCHANGED <<main, call>>
          /\ \A n \in Cand \ {m} : cand'[n] = cand[n]
      BY <2>7, TouchMerge, TouchActs
    <3>2. QED BY <2>2, <3>1 DEF MergeOwn
  <2>8. CASE PatchNext \/ Crash \/ UNCHANGED vars
    <3>1. UNCHANGED <<cand, main>> /\ (UNCHANGED call \/ \A c \in Caller : call'[c] = Idle)
      BY <2>8 DEF PatchNext, Crash, vars
    <3>2. QED BY <2>2, <3>1 DEF MergeOwn
  <2>9. /\ \A n \in Cand : MergeOwn(cand[n], n)'
        /\ \A d \in Caller : call'[d] # Idle => MergeOwn(call[d].row, call[d].m)'
    BY <2>5, <2>6, <2>7, <2>8 DEF Next, Touches
  <2>10. QED BY <2>3, <2>9
<1>3. QED BY <1>1, <1>2, TypeCorrect, PTL DEF Spec

(* A candidate that is rolled back, or whose revert was made and not yet    *)
(* noted, and one whose merge was made and not yet noted.                   *)
Gone(m) ==
  \/ Status(m) = "rolled_back"
  \/ \E c \in Caller : call[c] # Idle /\ call[c].m = m /\ call[c].at = "reverted"
Noting(m) ==
  \E c \in Caller : call[c] # Idle /\ call[c].m = m /\ call[c].at = "merged"

(* The ledger: a merged candidate is on main, and its merge is undone when  *)
(* it is gone and not before.                                               *)
Ledger ==
  Calm /\ ~again =>
    \A m \in Cand :
      /\ Status(m) = "merged" \/ Noting(m) => MergedIn(m)
      /\ \A i \in DOMAIN main :
           main[i].what = "merge" /\ main[i].of = m => (main[i].undone <=> Gone(m))

(* When nobody but c works on m, what c does is what is said of m. *)
LEMMA SaidOf ==
  ASSUME NEW c \in Caller, NEW m \in Cand,
         \A d \in Caller \ {c} : call[d] # Idle => call[d].m # m
  PROVE  /\ Gone(m) <=> \/ Status(m) = "rolled_back"
                        \/ call[c] # Idle /\ call[c].m = m /\ call[c].at = "reverted"
         /\ Noting(m) <=> call[c] # Idle /\ call[c].m = m /\ call[c].at = "merged"
BY DEF Gone, Noting

(* The others are not concerned. *)
LEMMA SaidOfOthers ==
  ASSUME NEW c \in Caller, NEW m \in Cand, ActsOn(c, m), NEW n \in Cand \ {m},
         call[c] # Idle => call[c].m = m
  PROVE  /\ Status(n)' = Status(n)
         /\ Gone(n)' <=> Gone(n)
         /\ Noting(n)' <=> Noting(n)
<1>1. /\ cand'[n] = cand[n]
      /\ \A d \in Caller \ {c} : call'[d] = call[d]
      /\ call'[c] # Idle => call'[c].m = m
  BY DEF ActsOn
<1>2. ASSUME NEW l
      PROVE  (\E d \in Caller : call'[d] # Idle /\ call'[d].m = n /\ call'[d].at = l)
               <=> (\E d \in Caller : call[d] # Idle /\ call[d].m = n /\ call[d].at = l)
  BY <1>1
<1>3. QED BY <1>1, <1>2 DEF Gone, Noting, Status

(* A step that leaves main alone keeps the ledger if it says the same of    *)
(* the candidate whose row it writes.                                       *)
LEMMA LedgerKept ==
  ASSUME Ledger, Calm, ~again, NEW c \in Caller, NEW m \in Cand, ActsOn(c, m),
         call[c] # Idle => call[c].m = m, UNCHANGED main,
         Status(m)' = "merged" \/ Noting(m)' => MergedIn(m),
         Gone(m)' <=> Gone(m)
  PROVE  Ledger'
<1>1. ASSUME NEW n \in Cand
      PROVE  /\ Status(n)' = "merged" \/ Noting(n)' => MergedIn(n)
             /\ Gone(n)' <=> Gone(n)
  <2>1. CASE n = m
    BY <2>1
  <2>2. CASE n # m
    BY <2>2, SaidOfOthers DEF Ledger
  <2>3. QED BY <2>1, <2>2
<1>2. \A n \in Cand : MergedIn(n)' <=> MergedIn(n)
  BY DEF MergedIn
<1>3. \A n \in Cand : \A i \in DOMAIN main :
        main[i].what = "merge" /\ main[i].of = n => (main[i].undone <=> Gone(n))
  BY DEF Ledger
<1>4. QED BY <1>1, <1>2, <1>3 DEF Ledger

(* A merge adds a place for a candidate that is not gone, *)
LEMMA LedgerMerge ==
  ASSUME TypeOK, Ledger, Calm, ~again, NEW c \in Caller, NEW m \in Cand, ActsOn(c, m),
         call[c] # Idle => call[c].m = m, Merges(m), ~Gone(m)'
  PROVE  Ledger'
<1>1. /\ DOMAIN main = 1..Len(main) /\ Len(main) \in Nat
      /\ DOMAIN main' = 1..(Len(main) + 1)
      /\ \A j \in DOMAIN main : main'[j] = main[j]
      /\ main'[Len(main) + 1] = MergeOf(m)
  BY MergedMain
<1>2. /\ MergeOf(m).what = "merge" /\ MergeOf(m).of = m /\ ~MergeOf(m).undone
      /\ ~MergedIn(m)
  BY NewEntries DEF Merges
<1>3. \A n \in Cand : MergedIn(n)' <=> MergedIn(n) \/ n = m
  BY <1>1, <1>2 DEF MergedIn
<1>4. ASSUME NEW n \in Cand
      PROVE  Status(n)' = "merged" \/ Noting(n)' => MergedIn(n)'
  <2>1. CASE n = m
    BY <1>3, <2>1
  <2>2. CASE n # m
    BY <1>3, <2>2, SaidOfOthers DEF Ledger
  <2>3. QED BY <2>1, <2>2
<1>5. ASSUME NEW n \in Cand, NEW i \in DOMAIN main',
             main'[i].what = "merge", main'[i].of = n
      PROVE  main'[i].undone <=> Gone(n)'
  <2>1. CASE i = Len(main) + 1
    BY <1>1, <1>2, <1>5, <2>1
  <2>2. CASE i \in DOMAIN main
    <3>1. main'[i] = main[i] /\ n # m
      BY <1>1, <1>2, <1>5, <2>2 DEF MergedIn
    <3>2. Gone(n)' <=> Gone(n)
      BY <3>1, SaidOfOthers
    <3>3. QED BY <1>5, <2>2, <3>1, <3>2 DEF Ledger
  <2>3. QED BY <1>1, <2>1, <2>2
<1>6. QED BY <1>4, <1>5 DEF Ledger

(* and a revert undoes the place of one that is gone from then on.          *)
LEMMA LedgerRevert ==
  ASSUME TypeOK, OwnMerges, MergedOnce, Ledger, Calm, ~again,
         NEW c \in Caller, NEW m \in Cand, ActsOn(c, m),
         call[c] # Idle => call[c].m = m,
         NEW k \in ToRevert(m), Reverts(m, k), Gone(m)'
  PROVE  Ledger'
<1>1. /\ DOMAIN main = 1..Len(main) /\ Len(main) \in Nat
      /\ k \in DOMAIN main /\ k \in Nat
      /\ DOMAIN main' = 1..(Len(main) + 1)
      /\ \A j \in DOMAIN main \ {k} : main'[j] = main[j]
      /\ main'[k].what = "merge" /\ main'[k].of = main[k].of /\ main'[k].undone
      /\ main'[Len(main) + 1] = RevertOf(m, k)
  BY RevertedMain
<1>2. RevertOf(m, k).what = "revert"
  BY DEF RevertOf
<1>3. main[k].of = m /\ main[k].what = "merge"
  <2>1. k = cand[m].merge /\ MergeOwn(cand[m], m)
    BY DEF ToRevert, OwnMerges
  <2>2. QED BY <1>1, <2>1 DEF MergeOwn
<1>4. \A n \in Cand : MergedIn(n)' <=> MergedIn(n)
  BY <1>1, <1>2, <1>3 DEF MergedIn
<1>5. MergedIn(m)
  BY <1>1, <1>3 DEF MergedIn
<1>6. ASSUME NEW n \in Cand
      PROVE  Status(n)' = "merged" \/ Noting(n)' => MergedIn(n)'
  <2>1. CASE n = m
    BY <1>4, <1>5, <2>1
  <2>2. CASE n # m
    BY <1>4, <2>2, SaidOfOthers DEF Ledger
  <2>3. QED BY <2>1, <2>2
<1>7. ASSUME NEW n \in Cand, NEW i \in DOMAIN main',
             main'[i].what = "merge", main'[i].of = n
      PROVE  main'[i].undone <=> Gone(n)'
  <2>1. i \in DOMAIN main
    BY <1>1, <1>2, <1>7
  <2>2. CASE n = m
    <3>1. main[i].what = "merge" /\ main[i].of = m
      BY <1>1, <1>3, <1>7, <2>1, <2>2
    <3>2. i = k
      BY <1>1, <1>3, <2>1, <3>1 DEF MergedOnce
    <3>3. QED BY <1>1, <2>2, <3>2
  <2>3. CASE n # m
    <3>1. main'[i] = main[i]
      BY <1>1, <1>3, <1>7, <2>1, <2>3
    <3>2. Gone(n)' <=> Gone(n)
      BY <2>3, SaidOfOthers
    <3>3. QED BY <1>7, <2>1, <3>1, <3>2 DEF Ledger
  <2>4. QED BY <2>2, <2>3
<1>8. QED BY <1>6, <1>7 DEF Ledger

(* Where the requests stand, and what they did to main. *)
LEMMA RequestLabel ==
  ASSUME TypeOK, NEW c \in Caller, NEW m \in Cand, Request(c, m), ~again'
  PROVE  \/ /\ UNCHANGED main
            /\ call'[c] # Idle => call'[c].at \notin {"merged", "reverted"}
         \/ /\ Merges(m) /\ Status(m) \in {"committing", "approved"}
            /\ UNCHANGED cand /\ call'[c].at = "merged"
         \/ /\ \E k \in ToRevert(m) : Reverts(m, k)
            /\ call'[c] # Idle /\ call'[c].at = "reverted"
<1>1. cand[m] \in CandRow
  BY DEF TypeOK
<1>2. ASSUME NEW l \in CallLabel \ {"idle"}, NEW r \in CandRow, Goto(c, l, m, r)
      PROVE  call'[c] # Idle /\ call'[c].at = l
  BY <1>2, Turn
<1>3. ASSUME NEW st \in CandStatus, NEW l \in {"apply", "tests", "commit"},
             Goto(c, l, m, [cand[m] EXCEPT !.status = st])
      PROVE  call'[c].at \notin {"merged", "reverted"}
  <2> DEFINE r == [cand[m] EXCEPT !.status = st]
  <2>1. r \in CandRow
    BY <1>1, RowStatus
  <2>2. Goto(c, l, m, r) /\ l \in CallLabel \ {"idle"}
    BY <1>3 DEF CallLabel
  <2> HIDE DEF r
  <2>3. call'[c].at = l
    BY <1>2, <2>1, <2>2
  <2>4. QED BY <2>3
<1>4. CASE ApplyWorkspace(c, m)
  <2>1. "preparing" \in CandStatus
    BY DEF CandStatus
  <2>2. QED BY <1>3, <1>4, <2>1 DEF ApplyWorkspace
<1>5. CASE RunTests(c, m)
  <2>1. "testing" \in CandStatus
    BY DEF CandStatus
  <2>2. QED BY <1>3, <1>5, <2>1 DEF RunTests
<1>6. CASE CommitCandidate(c, m)
  <2>1. "committing" \in CandStatus
    BY DEF CandStatus
  <2>2. QED BY <1>3, <1>6, <2>1 DEF CommitCandidate
<1>7. CASE Finalize(c, m)
  <2>1. ~MergedIn(m) /\ Status(m) \in {"committing", "approved"}
    BY <1>7 DEF Finalize
  <2>2. \/ UNCHANGED <<main, call>>
        \/ /\ main' = Append(main, MergeOf(m)) /\ UNCHANGED cand
           /\ Goto(c, "merged", m, [cand[m] EXCEPT !.merge = Len(main) + 1])
    BY <1>7, <2>1 DEF Finalize, MergeOf
  <2>3. CASE UNCHANGED <<main, call>>
    BY <1>7, <2>3, CallTypes DEF Finalize
  <2>4. CASE /\ main' = Append(main, MergeOf(m)) /\ UNCHANGED cand
             /\ Goto(c, "merged", m, [cand[m] EXCEPT !.merge = Len(main) + 1])
    <3> DEFINE r == [cand[m] EXCEPT !.merge = Len(main) + 1]
    <3>1. Len(main) + 1 \in Nat /\ "merged" \in CallLabel \ {"idle"}
      BY MainTypes DEF CallLabel
    <3>2. r \in CandRow
      BY <1>1, <3>1, RowUpdates
    <3>3. Goto(c, "merged", m, r)
      BY <2>4
    <3> HIDE DEF r
    <3>4. call'[c].at = "merged"
      BY <1>2, <3>1, <3>2, <3>3
    <3>5. QED BY <2>1, <2>4, <3>4 DEF Merges
  <2>5. QED BY <2>2, <2>3, <2>4
<1>8. CASE Rollback(c, m)
  <2>1. "reverted" \in CallLabel \ {"idle"}
    BY DEF CallLabel
  <2>2. Goto(c, "reverted", m, cand[m]) /\ \E k \in ToRevert(m) : Reverts(m, k)
    BY <1>8 DEF Rollback, Revert, Reverts, RevertOf
  <2>3. call'[c] # Idle /\ call'[c].at = "reverted"
    BY <1>1, <1>2, <2>1, <2>2
  <2>4. QED BY <2>2, <2>3
<1>9. QED BY <1>4, <1>5, <1>6, <1>7, <1>8 DEF Request

LEMMA ContinueLabel ==
  ASSUME TypeOK, NEW c \in Caller, NEW m \in Cand, call[c].m = m, Continue(c),
         call[c] # Idle
  PROVE  \/ /\ UNCHANGED main
            /\ call'[c] # Idle => call'[c].at # "reverted"
         \/ /\ \E k \in ToRevert(m) : Reverts(m, k)
            /\ call'[c] # Idle /\ call'[c].at = "reverted"
            /\ call[c].at = "rollback"
<1>1. PICK row \in CandRow : row = call[c].row
  BY CallTypes
<1>2. cand[m] \in CandRow
  BY DEF TypeOK
<1>3. ASSUME NEW l \in CallLabel \ {"idle"}, NEW r \in CandRow, Goto(c, l, m, r)
      PROVE  call'[c] # Idle /\ call'[c].at = l
  BY <1>3, Turn
<1>4. ASSUME Return(c) PROVE call'[c] = Idle
  BY <1>4, TurnBack
<1>5. /\ "applied" \in CallLabel \ {"idle"} /\ "committed" \in CallLabel \ {"idle"}
      /\ "postcheck" \in CallLabel \ {"idle"} /\ "rollback" \in CallLabel \ {"idle"}
      /\ "reverted" \in CallLabel \ {"idle"} /\ "merged" \in CandStatus
  BY DEF CandStatus, CallLabel
<1>6. CASE GitApply(c)
  <2>1. UNCHANGED main /\ (Goto(c, "applied", m, row) \/ Return(c))
    BY <1>1, <1>6 DEF GitApply, Row
  <2>2. QED BY <1>3, <1>4, <1>5, <2>1
<1>7. CASE GitCommit(c)
  <2>1. UNCHANGED main /\ (Goto(c, "committed", m, row) \/ Return(c))
    BY <1>1, <1>7 DEF GitCommit, Row
  <2>2. QED BY <1>3, <1>4, <1>5, <2>1
<1>8. CASE SaveMerged(c)
  <2> DEFINE r == [row EXCEPT !.status = "merged"]
  <2>1. UNCHANGED main /\ (Return(c) \/ Goto(c, "postcheck", m, r))
    BY <1>1, <1>8 DEF SaveMerged, Row
  <2>2. r \in CandRow
    BY <1>5, RowStatus
  <2> HIDE DEF r
  <2>3. QED BY <1>3, <1>4, <1>5, <2>1, <2>2
<1>9. CASE PostCheck(c)
  <2>1. UNCHANGED main /\ (Return(c) \/ Goto(c, "rollback", m, row))
    BY <1>1, <1>9 DEF PostCheck, Row
  <2>2. QED BY <1>3, <1>4, <1>5, <2>1
<1>10. CASE AutoRollback(c)
  <2>1. /\ call[c].at = "rollback"
        /\ \/ UNCHANGED main /\ Return(c)
           \/ Goto(c, "reverted", m, cand[m]) /\ \E k \in ToRevert(m) : Reverts(m, k)
    BY <1>10 DEF AutoRollback, Revert, Doing, Reverts, RevertOf
  <2>2. QED BY <1>2, <1>3, <1>4, <1>5, <2>1
<1>11. CASE SaveApplied(c) \/ SaveTests(c) \/ SaveCommitted(c) \/ SaveRolledBack(c)
  <2>1. UNCHANGED main /\ Return(c)
    BY <1>11 DEF SaveApplied, SaveTests, SaveCommitted, SaveRolledBack
  <2>2. QED BY <1>4, <2>1
<1>12. QED BY <1>6, <1>7, <1>8, <1>9, <1>10, <1>11 DEF Continue

LEMMA AgainStays ==
  ASSUME [Next]_vars, ~again'
  PROVE  ~again
<1>1. ASSUME NEW c \in Caller, Continue(c) PROVE again' = again
  BY <1>1
     DEF Continue, GitApply, SaveApplied, SaveTests, GitCommit, SaveCommitted,
         SaveMerged, PostCheck, AutoRollback, SaveRolledBack
<1>2. ASSUME NEW c \in Caller, NEW m \in Cand, Request(c, m) PROVE again' = again
  BY <1>2
     DEF Request, ApplyWorkspace, RunTests, CommitCandidate, Finalize, Rollback
<1>3. QED BY <1>1, <1>2
             DEF Next, PatchNext, Prepare, Approve, Reject, Crash, vars

THEOREM LedgerHolds == Spec => []Ledger
<1>1. Init => Ledger
  <2> SUFFICES ASSUME Init PROVE Ledger
    OBVIOUS
  <2>1. \A m \in Cand : Status(m) # "merged" /\ ~Noting(m)
    BY FreshRow DEF Init, Status, Noting
  <2>2. QED BY <2>1 DEF Init, Ledger
<1>2. /\ TypeOK /\ CopiesFit /\ Alone /\ OwnMerges /\ MergedOnce
      /\ Ledger /\ [Next]_vars
      => Ledger'
  <2> SUFFICES ASSUME TypeOK, CopiesFit, Alone, OwnMerges, MergedOnce, Ledger,
                      [Next]_vars, Calm', ~again'
               PROVE  Ledger'
    BY DEF Ledger
  <2>1. Calm /\ ~again
    BY CalmBefore, AgainStays
  <2>2. ASSUME NEW c \in Caller, NEW m \in Cand, Request(c, m) PROVE Ledger'
    <3>1. ActsOn(c, m) /\ Enter(m) /\ call[c] = Idle
      BY <2>2, RequestActs
    <3>2. \A d \in Caller \ {c} : call[d] # Idle => call[d].m # m
      BY <3>1, CalmEntry
    <3>3. \A d \in Caller \ {c} : call'[d] # Idle => call'[d].m # m
      BY <3>1, <3>2 DEF ActsOn
    <3>4. (Gone(m) <=> Status(m) = "rolled_back") /\ ~Noting(m)
      BY <3>1, <3>2, SaidOf
    <3>5. /\ Gone(m)' <=> \/ Status(m)' = "rolled_back"
                          \/ call'[c] # Idle /\ call'[c].m = m /\ call'[c].at = "reverted"
          /\ Noting(m)' <=> call'[c] # Idle /\ call'[c].m = m /\ call'[c].at = "merged"
      BY <3>3 DEF Gone, Noting
    <3>6. CASE /\ UNCHANGED main
               /\ call'[c] # Idle => call'[c].at \notin {"merged", "reverted"}
      <4>1. (Gone(m)' <=> Gone(m)) /\ ~Noting(m)'
        BY <2>2, <3>4, <3>5, <3>6, RequestStatus
      <4>2. Status(m)' = "merged" => MergedIn(m)
        BY <2>1, <2>2, RequestStatus DEF Ledger
      <4>3. QED BY <2>1, <3>1, <3>6, <4>1, <4>2, LedgerKept
    <3>7. CASE /\ Merges(m) /\ Status(m) \in {"committing", "approved"}
               /\ UNCHANGED cand /\ call'[c].at = "merged"
      <4>1. ~Gone(m)'
        BY <3>5, <3>7 DEF Status
      <4>2. QED BY <2>1, <3>1, <3>7, <4>1, LedgerMerge
    <3>8. CASE /\ \E k \in ToRevert(m) : Reverts(m, k)
               /\ call'[c] # Idle /\ call'[c].at = "reverted"
      <4>1. Gone(m)'
        BY <3>1, <3>5, <3>8 DEF ActsOn
      <4>2. QED BY <2>1, <3>1, <3>8, <4>1, LedgerRevert
    <3>9. QED BY <2>2, <3>6, <3>7, <3>8, RequestLabel
  <2>3. ASSUME NEW c \in Caller, Continue(c) PROVE Ledger'
    <3>1. PICK m \in Cand : m = call[c].m
      BY <2>3, ContinueOn
    <3>2. call[c] # Idle /\ ActsOn(c, m)
      BY <2>3, <3>1, ContinueActs DEF CopiesFit
    <3>3. \A d \in Caller \ {c} : call[d] # Idle => call[d].m # m
      BY <2>1, <3>1, <3>2 DEF Alone
    <3>4. \A d \in Caller \ {c} : call'[d] # Idle => call'[d].m # m
      BY <3>2, <3>3 DEF ActsOn
    <3>5. Status(m) = call[c].row.status /\ CopyFits(c)
      BY <2>1, <3>1, <3>2 DEF Alone, Status, CopiesFit
    <3>6. /\ Gone(m) <=> Status(m) = "rolled_back" \/ call[c].at = "reverted"
          /\ Noting(m) <=> call[c].at = "merged"
      BY <3>1, <3>2, <3>3, SaidOf
    <3>7. /\ Gone(m)' <=> \/ Status(m)' = "rolled_back"
                          \/ call'[c] # Idle /\ call'[c].m = m /\ call'[c].at = "reverted"
          /\ Noting(m)' <=> call'[c] # Idle /\ call'[c].m = m /\ call'[c].at = "merged"
      BY <3>4 DEF Gone, Noting
    <3>8. /\ Status(m) \notin Closed
          /\ Status(m)' = "merged" => call[c].at \in {"merged", "postcheck", "rollback"}
          /\ Status(m)' = "rolled_back" <=> call[c].at = "reverted"
          /\ call'[c] # Idle => call'[c].at # "merged"
      BY <2>3, <3>1, <3>5, ContinueStatus
    <3>9. CASE UNCHANGED main /\ (call'[c] # Idle => call'[c].at # "reverted")
      <4>1. (Gone(m)' <=> Gone(m)) /\ ~Noting(m)'
        BY <3>6, <3>7, <3>8, <3>9 DEF Closed
      <4>2. Status(m)' = "merged" => Status(m) = "merged" \/ Noting(m)
        BY <3>2, <3>5, <3>6, <3>8 DEF CopyFits
      <4>3. QED BY <2>1, <3>1, <3>2, <3>9, <4>1, <4>2, LedgerKept DEF Ledger
    <3>10. CASE /\ \E k \in ToRevert(m) : Reverts(m, k)
                /\ call'[c] # Idle /\ call'[c].at = "reverted"
      <4>1. Gone(m)'
        BY <3>2, <3>7, <3>10 DEF ActsOn
      <4>2. QED BY <2>1, <3>1, <3>2, <3>10, <4>1, LedgerRevert
    <3>11. QED BY <2>3, <3>1, <3>2, <3>9, <3>10, ContinueLabel
  <2>4. ASSUME NEW m \in Cand, Touches(m) PROVE Ledger'
    <3>1. /\ \A n \in Cand \ {m} : cand'[n] = cand[n]
          /\ Status(m)' \in {"created", "merge_conflict", "approved", "rejected"}
          /\ UNCHANGED <<main, call>>
      BY <2>4, TouchActs, TouchMerge DEF Status
    <3>2. \A d \in Caller : call[d] # Idle => call[d].m # m
      <4>1. CASE Prepare(m)
        <5>1. Status(m) = "absent"
          BY <4>1 DEF Prepare
        <5>2. QED BY <5>1 DEF CopiesFit
      <4>2. CASE Approve(m) \/ Reject(m)
        BY <4>2, CalmEntry DEF Approve, Reject
      <4>3. QED BY <2>4, <4>1, <4>2 DEF Touches
    <3>3. Status(m) # "rolled_back"
      BY <2>4 DEF Touches, Prepare, Approve, Reject
    <3>4. ASSUME NEW n \in Cand
          PROVE  /\ Status(n)' = "merged" \/ Noting(n)' => MergedIn(n)
                 /\ Gone(n)' <=> Gone(n)
      <4>1. CASE n = m
        <5>1. ~Noting(m)' /\ ~Gone(m)' /\ ~Gone(m) /\ Status(m)' # "merged"
          BY <3>1, <3>2, <3>3 DEF Noting, Gone
        <5>2. QED BY <4>1, <5>1
      <4>2. CASE n # m
        <5>1. Status(n)' = Status(n) /\ (Noting(n)' <=> Noting(n)) /\ (Gone(n)' <=> Gone(n))
          BY <3>1, <4>2 DEF Status, Noting, Gone
        <5>2. QED BY <2>1, <5>1 DEF Ledger
      <4>3. QED BY <4>1, <4>2
    <3>5. \A n \in Cand : MergedIn(n)' <=> MergedIn(n)
      BY <3>1 DEF MergedIn
    <3>6. QED BY <2>1, <3>1, <3>4, <3>5 DEF Ledger
  <2>5. CASE PatchNext \/ Crash \/ UNCHANGED vars
    <3>1. UNCHANGED <<cand, main, call>>
      <4>1. CASE Crash
        <5>1. crashes \in Nat /\ crashes' = crashes + 1 /\ crashes' = 0
          BY <4>1, CounterTypes DEF Crash, Calm, Disturbed, TypeOK
        <5>2. QED BY <5>1
      <4>2. QED BY <2>5, <4>1 DEF PatchNext, vars
    <3>2. QED BY <2>1, <3>1 DEF Ledger, Status, Noting, Gone, MergedIn
  <2>6. QED BY <2>2, <2>3, <2>4, <2>5 DEF Next, Touches
<1>3. QED BY <1>1, <1>2, TypeCorrect, RequestsAlone, OwnMergesHold,
             MergesAreOnce, PTL DEF Spec

(* Between requests, the rows and main tell the same story; a revert takes  *)
(* back its own merge.                                                      *)
THEOREM LedgerIsSound == Spec => []LedgerSound
<1>1. TypeOK /\ OwnMerges /\ MergedOnce /\ AddsUnlessThere /\ Ledger => LedgerSound
  <2> SUFFICES ASSUME TypeOK, OwnMerges, MergedOnce, AddsUnlessThere, Ledger
               PROVE  LedgerSound
    OBVIOUS
  <2>1. RevertsOwn
    BY DEF RevertsOwn, OwnMerges
  <2>2. ASSUME ~Disturbed, ~again, NEW m \in Cand, ~Busy(m),
               \A n \in Cand \ {m} : Of(n) = Of(m) => ~MergedIn(n)
        PROVE  /\ Status(m) = "merged" => OnMain(Of(m))
               /\ Status(m) = "rolled_back" => ~OnMain(Of(m))
    <3>1. ~\E c \in Caller : call[c] # Idle /\ call[c].m = m
      BY <2>2, CallTypes DEF Busy
    <3>2. /\ Status(m) = "merged" => MergedIn(m)
          /\ \A i \in DOMAIN main :
               main[i].what = "merge" /\ main[i].of = m => (main[i].undone <=> Gone(m))
      BY <2>2 DEF Ledger, Calm
    <3>3. ASSUME Status(m) = "merged" PROVE OnMain(Of(m))
      <4>1. PICK i \in DOMAIN main : main[i].what = "merge" /\ main[i].of = m
        BY <3>2, <3>3 DEF MergedIn
      <4>2. ~main[i].undone
        BY <3>1, <3>2, <3>3, <4>1 DEF Gone
      <4>3. main[i].adds
        BY <2>2, <4>1 DEF AddsUnlessThere
      <4>4. QED BY <4>1, <4>2, <4>3 DEF OnMain
    <3>4. ASSUME Status(m) = "rolled_back", OnMain(Of(m)) PROVE FALSE
      <4>1. PICK i \in DOMAIN main : /\ main[i].what = "merge" /\ ~main[i].undone
                                     /\ Of(main[i].of) = Of(m)
        BY <3>4 DEF OnMain
      <4>2. main[i].of \in Cand /\ MergedIn(main[i].of)
        BY <4>1, MainTypes DEF MergedIn
      <4>3. main[i].of = m
        BY <2>2, <4>1, <4>2
      <4>4. QED BY <3>2, <3>4, <4>1, <4>3 DEF Gone
    <3>5. QED BY <3>3, <3>4
  <2>3. LedgerTrue
    BY <2>2 DEF LedgerTrue
  <2>4. QED BY <2>1, <2>3 DEF LedgerSound
<1>2. QED BY <1>1, TypeCorrect, OwnMergesHold, MergesAreOnce, LedgerHolds, PTL
=============================================================================
