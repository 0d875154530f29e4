--------------------------- MODULE PlanningProofs ---------------------------
(* Proofs about planning, for any plans, candidates, callers and bounds, and *)
(* however requests overlap or die: contracts come from approvals, rejected  *)
(* candidates stay rejected, the budget is charged at most once for each     *)
(* contract, nodes hold one contract each, and plans come from the provider  *)
(* that was asked.  The research loop that has plans made and reviewed, one  *)
(* session through two rounds, follows at the end.                           *)
EXTENDS Planning, ResearchLoop, FiniteSetTheorems, TLAPS

(* Calls on one candidate, and those among them on the way to an iteration.  *)
Spends == {"contract", "charge", "pay", "node", "iterate"}
Decides == {"approve", "reject"} \cup Spends

(* A copied row is one of the plan's; a new one is what the verifier says,   *)
(* and one that was read is not rejected.                                    *)
CopyFits(r, x) ==
  r.copy[x] # NoRow =>
    /\ r.at \in {"save", "store"} =>
         r.copy[x].plan = r.plan /\ r.copy[x].status \in {"verified", "rejected"}
    /\ r.at \notin {"save", "store"} => r.copy[x].status # "rejected"

(* What the place of a call says of it.                                      *)
Fits(r) ==
  /\ r.at \notin {"idle", "limit"} => r.plan \in Plan
  /\ r.at \in Decides => r.cand \in Cand
  /\ r.at \in Spends => r.node \in 1..MaxNodes
  /\ r.at \in {"node", "iterate"} => r.starts
  /\ r.starts => r.at \in Spends
  /\ r.at \in {"approve", "reject", "contract"} =>
       r.copy[r.cand] # NoRow /\ r.copy[r.cand].plan = r.plan
  /\ r.at = "contract" => r.copy[r.cand].status = "approved"
  /\ \A x \in Cand : CopyFits(r, x)

CallsFit == \A c \in Caller : Fits(call[c])

(* The values that stand for nothing have their types.                       *)
LEMMA Blank == NoRow \in Row /\ NoRows \in [Cand -> Row] /\ Idle \in Call /\ Fits(Idle)
<1>1. NoRow \in Row
  BY DEF NoRow, Row, Status
<1>2. NoRows \in [Cand -> Row]
  BY <1>1 DEF NoRows
<1>3. 0 \in 0..MaxNodes
  BY PlanningBounds
<1>4. Idle \in Call
  BY <1>2, <1>3 DEF Idle, Call, Label, Mode
<1>5. Fits(Idle)
  BY DEF Idle, Fits, CopyFits, NoRows, Decides, Spends
<1>6. QED BY <1>1, <1>2, <1>4, <1>5

(* A step of one caller changes its own record to one that fits.             *)
Sets(c, r) == r \in Call /\ Fits(r) /\ call' = [call EXCEPT ![c] = r]

(* Copies of rows are rows.                                                  *)
LEMMA CopiesAre ==
  ASSUME TypeOK, NEW s \in SUBSET Cand
  PROVE  /\ Copies(s) \in [Cand -> Row]
         /\ \A x \in Cand : Copies(s)[x] = IF x \in s THEN rows[x] ELSE NoRow
BY Blank DEF TypeOK, Copies

(* A row of a plan is there.                                                 *)
LEMMA RowsOfAre ==
  ASSUME NEW p \in Plan, NEW x \in RowsOf(p)
  PROVE  x \in Cand /\ rows[x].plan = p /\ rows[x] # NoRow
<1>1. NoRow.plan # p
  BY NoneIsNone DEF NoRow
<1>2. QED BY <1>1 DEF RowsOf

(* A record with a row struck out of its copies.                             *)
LEMMA Struck ==
  ASSUME NEW r \in Call, NEW x \in Cand
  PROVE  /\ [r EXCEPT !.copy[x] = NoRow] \in Call
         /\ [r EXCEPT !.copy[x] = NoRow] = [r EXCEPT !.copy = [r.copy EXCEPT ![x] = NoRow]]
BY Blank DEF Call

(* One that has written one of its rows.                                     *)
LEMMA WrittenSets ==
  ASSUME TypeOK, CallsFit, NEW c \in Caller, NEW x \in Cand, Written(c, x),
         call[c].at \in {"store", "review", "rank"}
  PROVE  \E r : Sets(c, r)
<1> DEFINE s == [call[c] EXCEPT !.copy[x] = NoRow]
<1>1. call[c] \in Call /\ Fits(call[c])
  BY DEF TypeOK, CallsFit
<1>2. s \in Call /\ s.at = call[c].at /\ s.plan = call[c].plan /\ s.starts = call[c].starts
      /\ \A y \in Cand : s.copy[y] \in {call[c].copy[y], NoRow}
  BY <1>1, Struck DEF Call
<1> HIDE DEF s
<1>3. Fits(s)
  BY <1>1, <1>2 DEF Fits, CopyFits, Decides, Spends
<1>4. call' = [call EXCEPT ![c] = Idle] \/ call' = [call EXCEPT ![c] = s]
  BY DEF Written, s
<1>5. QED BY <1>2, <1>3, <1>4, Blank DEF Sets

(* What beginning a request with a given record, or going on to one, shows.  *)
LEMMA BeginSets ==
  ASSUME NEW c \in Caller, NEW r \in Call, Fits(r), Begin(c, r)
  PROVE  \E t : Sets(c, t)
BY DEF Begin, Sets

(* A call that returns leaves the idle record.                               *)
LEMMA ReturnSets ==
  ASSUME NEW c \in Caller, Return(c)
  PROVE  \E t : Sets(c, t)
BY Blank DEF Return, Sets

(* The record a call takes of one row.                                       *)
LEMMA TakeHas ==
  ASSUME TypeOK, NEW l \in {"approve", "reject", "contract", "node"}, NEW p \in Plan,
         NEW x \in RowsOf(p), NEW t, t = Take(l, p, x)
  PROVE  /\ t \in Call /\ t.at = l /\ t.plan = p /\ t.cand = x /\ ~t.starts
         /\ x \in Cand /\ rows[x].plan = p /\ rows[x] # NoRow
         /\ \A y \in Cand : t.copy[y] = IF y \in {x} THEN rows[y] ELSE NoRow
<1>1. x \in Cand /\ rows[x].plan = p /\ rows[x] # NoRow
  BY RowsOfAre
<1>2. PICK k : k = Copies({x})
  OBVIOUS
<1>3. k \in [Cand -> Row] /\ \A y \in Cand : k[y] = IF y \in {x} THEN rows[y] ELSE NoRow
  BY <1>1, <1>2, CopiesAre
<1>4. t = [Idle EXCEPT !.at = l, !.plan = p, !.cand = x, !.copy = k]
  BY <1>2 DEF Take
<1>5. t \in Call
  BY <1>1, <1>3, <1>4, Blank DEF Call, Label
<1>6. t.at = l /\ t.plan = p /\ t.cand = x /\ t.copy = k /\ ~t.starts
  BY <1>4 DEF Idle
<1>7. QED BY <1>1, <1>3, <1>5, <1>6

(* It fits, with a node for those that need one.                             *)
LEMMA TakePlain ==
  ASSUME TypeOK, NEW l \in {"approve", "reject"}, NEW p \in Plan,
         NEW x \in RowsOf(p), rows[x].status # "rejected"
  PROVE  Take(l, p, x) \in Call /\ Fits(Take(l, p, x))
<1>1. PICK t : t = Take(l, p, x)
  OBVIOUS
<1>2. /\ t \in Call /\ t.at = l /\ t.plan = p /\ t.cand = x /\ ~t.starts
      /\ x \in Cand /\ rows[x].plan = p /\ rows[x] # NoRow
      /\ \A y \in Cand : t.copy[y] = IF y \in {x} THEN rows[y] ELSE NoRow
  BY <1>1, TakeHas
<1>3. Fits(t)
  BY <1>2 DEF Fits, CopyFits, Decides, Spends
<1>4. QED BY <1>1, <1>2, <1>3

(* With a node, for those that make or start a contract.                     *)
LEMMA TakeIs ==
  ASSUME TypeOK, NEW l \in {"contract", "node"}, NEW p \in Plan,
         NEW x \in RowsOf(p), NEW n \in 1..MaxNodes, NEW b \in BOOLEAN,
         rows[x].status # "rejected",
         l = "contract" => rows[x].status = "approved", l = "node" => b,
         NEW r, r = [Take(l, p, x) EXCEPT !.node = n, !.starts = b]
  PROVE  r \in Call /\ Fits(r)
<1>1. PICK t : t = Take(l, p, x)
  OBVIOUS
<1>2. /\ t \in Call /\ t.at = l /\ t.plan = p /\ t.cand = x /\ ~t.starts
      /\ x \in Cand /\ rows[x].plan = p /\ rows[x] # NoRow
      /\ \A y \in Cand : t.copy[y] = IF y \in {x} THEN rows[y] ELSE NoRow
  BY <1>1, TakeHas
<1>3. r = [t EXCEPT !.node = n, !.starts = b]
  BY <1>1
<1>4. r \in Call
  <2>1. n \in 0..MaxNodes
    BY PlanningBounds
  <2>2. QED BY <1>2, <1>3, <2>1 DEF Call
<1>5. /\ r.at = l /\ r.plan = p /\ r.cand = x /\ r.copy = t.copy
      /\ r.node = n /\ r.starts = b
  BY <1>2, <1>3 DEF Call
<1>6. Fits(r)
  BY <1>2, <1>5 DEF Fits, CopyFits, Decides, Spends
<1>7. QED BY <1>4, <1>6

(* A call that only goes on to a place where nothing more is asked of it.    *)
LEMMA GotoSets ==
  ASSUME TypeOK, CallsFit, NEW c \in Caller, NEW l \in {"ask", "list"},
         call[c].at = "configure", Goto(c, l)
  PROVE  \E r : Sets(c, r)
<1> DEFINE r == [call[c] EXCEPT !.at = l]
<1>1. call[c] \in Call /\ Fits(call[c])
  BY DEF TypeOK, CallsFit
<1>2. r \in Call
  BY <1>1 DEF Call, Label
<1>3. Fits(r)
  BY <1>1 DEF Fits, CopyFits, Decides, Spends, Call
<1>4. QED BY <1>2, <1>3 DEF Goto, Sets

(* Requests begin with a record that fits.                                   *)
LEMMA RequestSets ==
  ASSUME TypeOK, CallsFit, NEW c \in Caller, Request(c)
  PROVE  \E r : Sets(c, r)
<1>0. 0 \in 0..MaxNodes
  BY PlanningBounds
<1>1. CASE PlanNext(c)
  <2>1. PICK p \in Plan, m \in Mode :
          Begin(c, [Idle EXCEPT !.at = "configure", !.plans = TRUE, !.plan = p,
                                !.mode = m, !.read = Remaining])
    BY <1>1 DEF PlanNext
  <2> DEFINE r == [Idle EXCEPT !.at = "configure", !.plans = TRUE, !.plan = p,
                               !.mode = m, !.read = Remaining]
  <2>2. Remaining \in Nat
    BY PlanningBounds DEF Remaining, TypeOK
  <2>3. r \in Call
    BY <2>2, Blank DEF Call, Label, Idle
  <2>4. Fits(r)
    BY DEF Fits, CopyFits, Decides, Spends, Idle, NoRows
  <2>5. QED BY <2>1, <2>3, <2>4, BeginSets
<1>2. CASE ReviewPlan(c)
  <2>1. PICK p \in Plan, m \in Mode :
          Begin(c, [Idle EXCEPT !.at = "configure", !.plan = p, !.mode = m])
    BY <1>2 DEF ReviewPlan
  <2> DEFINE r == [Idle EXCEPT !.at = "configure", !.plan = p, !.mode = m]
  <2>2. r \in Call
    BY Blank DEF Call, Label, Idle
  <2>3. Fits(r)
    BY DEF Fits, CopyFits, Decides, Spends, Idle, NoRows
  <2>4. QED BY <2>1, <2>2, <2>3, BeginSets
<1>3. CASE RankPlan(c)
  <2>1. PICK p \in Plan, k \in SUBSET Cand :
          /\ k \subseteq RowsOf(p) /\ Kept(p, k)
          /\ Begin(c, [Idle EXCEPT !.at = "rank", !.plan = p,
                         !.copy = Copies(k \cup {x \in RowsOf(p) : Falls(x)}),
                         !.keep = k])
    BY <1>3 DEF RankPlan, RowsOf
  <2> DEFINE s == k \cup {x \in RowsOf(p) : Falls(x)}
             d == Copies(s)
             r == [Idle EXCEPT !.at = "rank", !.plan = p, !.copy = d, !.keep = k]
  <2>2. s \in SUBSET Cand /\ k \in SUBSET Cand
    BY DEF RowsOf
  <2>3. \A x \in s : rows[x].status # "rejected"
    BY <2>1 DEF Kept, Rankable, Eligible, Falls
  <2>4. d \in [Cand -> Row] /\ \A x \in Cand : d[x] = IF x \in s THEN rows[x] ELSE NoRow
    BY <2>2, CopiesAre
  <2> HIDE DEF s, d
  <2>5. r \in Call
    BY <2>2, <2>4, Blank DEF Call, Label, Idle
  <2>6. Fits(r)
    BY <2>3, <2>4 DEF Fits, CopyFits, Decides, Spends, Idle, NoRow
  <2>7. QED BY <2>1, <2>5, <2>6, BeginSets DEF s, d
<1>4. CASE Approve(c)
  <2>1. PICK p \in Plan, x \in Cand :
          x \in RowsOf(p) /\ Approvable(x) /\ Begin(c, Take("approve", p, x))
    BY <1>4 DEF Approve, RowsOf
  <2>2. QED BY <2>1, TakePlain, BeginSets DEF Approvable
<1>5. CASE Reject(c)
  <2>1. PICK p \in Plan, x \in Cand :
          x \in RowsOf(p) /\ rows[x].status # "rejected" /\ Begin(c, Take("reject", p, x))
    BY <1>5 DEF Reject, RowsOf
  <2>2. QED BY <2>1, TakePlain, BeginSets
<1>6. CASE Generate(c)
  <2>1. PICK p \in Plan, n \in 1..MaxNodes, b \in BOOLEAN, x \in Cand :
          /\ x \in RowsOf(p) /\ rows[x].status = "approved"
          /\ Begin(c, [Take("contract", p, x) EXCEPT !.node = n, !.starts = b])
    BY <1>6 DEF Generate, RowsOf
  <2> DEFINE r == [Take("contract", p, x) EXCEPT !.node = n, !.starts = b]
  <2>2. r \in Call /\ Fits(r)
    BY <2>1, TakeIs
  <2> HIDE DEF r
  <2>3. Begin(c, r)
    BY <2>1 DEF r
  <2>4. QED BY <2>2, <2>3, BeginSets
<1>7. CASE StartAgain(c)
  <2>1. PICK p \in Plan, n \in 1..MaxNodes, x \in Cand :
          /\ x \in RowsOf(p) /\ rows[x].status = "contract_generated"
          /\ Begin(c, [Take("node", p, x) EXCEPT !.node = n, !.starts = TRUE])
    BY <1>7 DEF StartAgain, RowsOf
  <2> DEFINE r == [Take("node", p, x) EXCEPT !.node = n, !.starts = TRUE]
  <2>2. r \in Call /\ Fits(r)
    BY <2>1, TakeIs
  <2> HIDE DEF r
  <2>3. Begin(c, r)
    BY <2>1 DEF r
  <2>4. QED BY <2>2, <2>3, BeginSets
<1>8. CASE SetBudget(c)
  <2> DEFINE r == [Idle EXCEPT !.at = "limit", !.read = used]
  <2>1. r \in Call
    BY Blank DEF Call, Label, Idle, TypeOK
  <2>2. Fits(r)
    BY DEF Fits, CopyFits, Decides, Spends, Idle, NoRows
  <2>3. QED BY <1>8, <2>1, <2>2, BeginSets DEF SetBudget
<1>9. QED BY <1>1, <1>2, <1>3, <1>4, <1>5, <1>6, <1>7, <1>8 DEF Request

(* What a planner's answer makes.                                            *)
LEMMA NewRowsAre ==
  ASSUME NEW p \in Plan, NEW out \in SUBSET Cand, NEW ok \in SUBSET out
  PROVE  /\ NewRows(p, out, ok) \in [Cand -> Row]
         /\ \A x \in Cand : NewRows(p, out, ok)[x] # NoRow =>
              /\ NewRows(p, out, ok)[x].plan = p
              /\ NewRows(p, out, ok)[x].status \in {"verified", "rejected"}
BY Blank DEF NewRows, Row, Status

(* A call on its way to an iteration goes on with its candidate and node.    *)
LEMMA SpendsOn ==
  ASSUME NEW r \in Call, Fits(r), r.at \in {"contract", "charge", "pay", "node"},
         NEW l \in {"charge", "pay", "node", "iterate"}, NEW n \in Nat, NEW k \in {r.copy, NoRows},
         l \in {"node", "iterate"} => r.starts,
         NEW t, t = [r EXCEPT !.at = l, !.copy = k, !.read = n]
  PROVE  t \in Call /\ Fits(t)
<1>1. k \in [Cand -> Row]
  BY Blank DEF Call
<1>2. t \in Call
  BY <1>1 DEF Call, Label
<1>3. /\ t.at = l /\ t.plan = r.plan /\ t.cand = r.cand /\ t.node = r.node
      /\ t.starts = r.starts /\ t.copy = k
  BY DEF Call
<1>4. Fits(t)
  BY <1>3 DEF Fits, CopyFits, Decides, Spends, NoRows
<1>5. QED BY <1>2, <1>4

(* Steps of a request leave a record that fits.                              *)
LEMMA ContinueSets ==
  ASSUME TypeOK, CallsFit, NEW c \in Caller, Continue(c)
  PROVE  \E r : Sets(c, r)
<1>0. call[c] \in Call /\ Fits(call[c])
  BY DEF TypeOK, CallsFit
<1>1. CASE Configure(c)
  BY <1>1, GotoSets, ReturnSets DEF Configure, Doing
<1>2. CASE Ask(c)
  <2>1. CASE Return(c)
    BY <2>1, ReturnSets
  <2>2. CASE ~Return(c)
    <3>1. PICK out \in SUBSET Cand, ok \in SUBSET Cand :
            /\ ok \subseteq out
            /\ call' = [call EXCEPT ![c].at = "save", ![c].maker = provider,
                          ![c].copy = NewRows(P(c), out, ok), ![c].read = 0]
      BY <1>2, <2>2 DEF Ask
    <3>2. PICK k : k = NewRows(P(c), out, ok)
      OBVIOUS
    <3>3. PICK r : r = [call[c] EXCEPT !.at = "save", !.maker = provider,
                                       !.copy = k, !.read = 0]
      OBVIOUS
    <3>4. call[c].plan \in Plan /\ ~call[c].starts
      BY <1>0, <1>2 DEF Ask, Doing, Fits, Spends
    <3>5. k \in [Cand -> Row] /\ \A x \in Cand : k[x] # NoRow =>
            k[x].plan = call[c].plan /\ k[x].status \in {"verified", "rejected"}
      BY <3>1, <3>2, <3>4, NewRowsAre DEF P
    <3>6. r \in Call
      BY <1>0, <3>3, <3>5 DEF Call, Label, TypeOK
    <3>7. /\ r.at = "save" /\ r.plan = call[c].plan /\ r.copy = k
          /\ r.starts = call[c].starts
      BY <1>0, <3>3 DEF Call
    <3>8. Fits(r)
      BY <3>4, <3>5, <3>7 DEF Fits, CopyFits, Decides, Spends
    <3>9. call' = [call EXCEPT ![c] = r]
      BY <3>1, <3>2, <3>3
    <3>10. QED BY <3>6, <3>8, <3>9 DEF Sets
  <2>3. QED BY <2>1, <2>2
<1>3. CASE Save(c)
  <2>1. CASE Return(c)
    BY <2>1, ReturnSets
  <2>2. CASE ~Return(c)
    <3>1. PICK r : r = [Idle EXCEPT !.at = "store", !.plan = P(c), !.copy = call[c].copy]
      OBVIOUS
    <3>2. call' = [call EXCEPT ![c] = r]
      BY <1>3, <2>2, <3>1 DEF Save
    <3>3. call[c].plan \in Plan
      BY <1>0, <1>3 DEF Save, Doing, Fits
    <3>4. r \in Call
      BY <1>0, <3>1, <3>3, Blank DEF Call, Label, P
    <3>5. r.at = "store" /\ r.plan = call[c].plan /\ r.copy = call[c].copy /\ ~r.starts
      BY <3>1 DEF Idle, P
    <3>6. Fits(r)
      BY <1>0, <1>3, <3>3, <3>5 DEF Save, Doing, Fits, CopyFits, Decides, Spends
    <3>7. QED BY <3>2, <3>4, <3>6 DEF Sets
  <2>3. QED BY <2>1, <2>2
<1>4. CASE Store(c)
  BY <1>4, WrittenSets DEF Store, Todo, Doing
<1>5. CASE List(c)
  <2>1. CASE Return(c)
    BY <2>1, ReturnSets
  <2>2. CASE ~Return(c)
    <3>1. PICK k : k = Copies(Eligible(P(c)))
      OBVIOUS
    <3>2. PICK r : r = [Idle EXCEPT !.at = "review", !.plan = P(c), !.copy = k]
      OBVIOUS
    <3>3. call' = [call EXCEPT ![c] = r]
      BY <1>5, <2>2, <3>1, <3>2 DEF List
    <3>4. call[c].plan \in Plan
      BY <1>0, <1>5 DEF List, Doing, Fits
    <3>5. k \in [Cand -> Row]
          /\ \A x \in Cand : k[x] # NoRow => k[x].status # "rejected"
      <4>1. Eligible(P(c)) \in SUBSET Cand
            /\ \A x \in Eligible(P(c)) : rows[x].status # "rejected"
        BY DEF Eligible, RowsOf
      <4>2. QED BY <3>1, <4>1, CopiesAre
    <3>6. r \in Call
      BY <3>2, <3>4, <3>5, Blank DEF Call, Label, P
    <3>7. r.at = "review" /\ r.plan = call[c].plan /\ r.copy = k /\ ~r.starts
      BY <3>2 DEF Idle, P
    <3>8. Fits(r)
      BY <3>4, <3>5, <3>7 DEF Fits, CopyFits, Decides, Spends
    <3>9. QED BY <3>3, <3>6, <3>8 DEF Sets
  <2>3. QED BY <2>1, <2>2
<1>6. CASE ReviewOne(c)
  <2>1. CASE Return(c)
    BY <2>1, ReturnSets
  <2>2. CASE ~Return(c)
    BY <1>6, <2>2, WrittenSets DEF ReviewOne, Todo, Doing
  <2>3. QED BY <2>1, <2>2
<1>7. CASE RankOne(c)
  BY <1>7, WrittenSets DEF RankOne, Todo, Doing
<1>8. CASE ApproveOne(c) \/ RejectOne(c) \/ ContractRefused(c) \/ Iterate(c) \/ Limit(c)
  BY <1>8, ReturnSets DEF ApproveOne, RejectOne, ContractRefused, Iterate, Limit
<1>9. CASE Contract(c)
  <2>1. PICK r : r = [call[c] EXCEPT !.at = "charge", !.copy = NoRows, !.read = call[c].read]
    OBVIOUS
  <2>2. call[c].at = "contract" /\ call[c].read \in Nat
    BY <1>0, <1>9 DEF Contract, Doing, Call
  <2>3. r \in Call /\ Fits(r)
    BY <1>0, <2>1, <2>2, SpendsOn
  <2>4. call' = [call EXCEPT ![c] = r]
    BY <1>0, <1>9, <2>1 DEF Contract, Call
  <2>5. QED BY <2>3, <2>4 DEF Sets
<1>10. CASE Charge(c)
  <2>1. PICK r : r = [call[c] EXCEPT !.at = "pay", !.copy = call[c].copy, !.read = used]
    OBVIOUS
  <2>2. call[c].at = "charge" /\ used \in Nat
    BY <1>10 DEF Charge, Doing, TypeOK
  <2>3. r \in Call /\ Fits(r)
    BY <1>0, <2>1, <2>2, SpendsOn
  <2>4. call' = [call EXCEPT ![c] = r]
    BY <1>0, <1>10, <2>1 DEF Charge, Call
  <2>5. QED BY <2>3, <2>4 DEF Sets
<1>11. CASE Pay(c)
  <2>1. CASE Return(c)
    BY <2>1, ReturnSets
  <2>2. CASE ~Return(c)
    <3>1. PICK r : r = [call[c] EXCEPT !.at = "node", !.copy = call[c].copy, !.read = 0]
      OBVIOUS
    <3>2. call[c].at = "pay" /\ call[c].starts
      BY <1>11, <2>2 DEF Pay, Doing
    <3>3. r \in Call /\ Fits(r)
      BY <1>0, <3>1, <3>2, SpendsOn
    <3>4. call' = [call EXCEPT ![c] = r]
      BY <1>0, <1>11, <2>2, <3>1 DEF Pay, Call
    <3>5. QED BY <3>3, <3>4 DEF Sets
  <2>3. QED BY <2>1, <2>2
<1>12. CASE PutNode(c)
  <2>1. PICK r : r = [call[c] EXCEPT !.at = "iterate", !.copy = NoRows, !.read = call[c].read]
    OBVIOUS
  <2>2. call[c].at = "node" /\ call[c].read \in Nat /\ call[c].starts
    BY <1>0, <1>12 DEF PutNode, Doing, Call, Fits
  <2>3. r \in Call /\ Fits(r)
    BY <1>0, <2>1, <2>2, SpendsOn
  <2>4. call' = [call EXCEPT ![c] = r]
    BY <1>0, <1>12, <2>1 DEF PutNode, Call
  <2>5. QED BY <2>3, <2>4 DEF Sets
<1>13. QED
  BY <1>1, <1>2, <1>3, <1>4, <1>5, <1>6, <1>7, <1>8, <1>9, <1>10, <1>11, <1>12
     DEF Continue

(* The types without those of the calls and of what Next says of races.      *)
StoredType ==
  /\ provider \in Mode
  /\ plans \in [Plan -> PlanRow]
  /\ rows \in [Cand -> Row]
  /\ nodes \in [1..MaxNodes -> (Plan \X Cand) \cup {None}]
  /\ iters \subseteq [plan: Plan, cand: Cand, node: 1..MaxNodes]
  /\ used \in Nat /\ spent \in 0..MaxSpent
  /\ approved \subseteq Plan \X Cand
  /\ credit \in [Cand -> Int]
  /\ rejected \subseteq Cand

(* A row written back from a copy is a row, and is there.                    *)
LEMMA PutIs ==
  ASSUME TypeOK, NEW c \in Caller, NEW x \in Todo(c), NEW s \in Status, Put(c, x, s)
  PROVE  /\ rows' \in [Cand -> Row] /\ x \in Cand
         /\ \A y \in Cand \ {x} : rows'[y] = rows[y]
         /\ rows'[x].plan = call[c].copy[x].plan /\ rows'[x].status = s
<1>1. x \in Cand /\ call[c].copy[x] \in Row
  BY DEF TypeOK, Call, Todo
<1>2. PICK r : r = [call[c].copy[x] EXCEPT !.status = s]
  OBVIOUS
<1>3. r \in Row /\ r.plan = call[c].copy[x].plan /\ r.status = s
  BY <1>1, <1>2 DEF Row
<1>4. rows' = [rows EXCEPT ![x] = r]
  BY <1>2 DEF Put
<1>5. QED BY <1>1, <1>3, <1>4 DEF TypeOK

(* The candidate of a decision is among the copies of its call.              *)
LEMMA CandIn ==
  ASSUME CallsFit, NEW c \in Caller, call[c].at \in {"approve", "reject", "contract"}
  PROVE  X(c) \in Todo(c)
BY DEF CallsFit, Fits, Decides, Spends, Todo, X

(* A review writes back the copy with its verdict.                           *)
LEMMA ReviewIs ==
  ASSUME TypeOK, NEW c \in Caller, NEW x \in Todo(c), NEW a \in BOOLEAN,
         rows' = [rows EXCEPT ![x] =
                    [call[c].copy[x] EXCEPT
                       !.status = IF a THEN "rejected" ELSE "reviewed",
                       !.against = a]]
  PROVE  /\ rows' \in [Cand -> Row] /\ x \in Cand
         /\ \A y \in Cand \ {x} : rows'[y] = rows[y]
         /\ rows'[x].status = IF a THEN "rejected" ELSE "reviewed"
<1>1. x \in Cand /\ call[c].copy[x] \in Row
  BY DEF TypeOK, Call, Todo
<1>2. PICK s : s = IF a THEN "rejected" ELSE "reviewed"
  OBVIOUS
<1>3. PICK r : r = [call[c].copy[x] EXCEPT !.status = s, !.against = a]
  OBVIOUS
<1>4. s \in Status
  BY <1>2 DEF Status
<1>5. r \in Row /\ r.status = s
  BY <1>1, <1>3, <1>4 DEF Row
<1>6. rows' = [rows EXCEPT ![x] = r]
  BY <1>2, <1>3
<1>7. QED BY <1>1, <1>2, <1>5, <1>6 DEF TypeOK

(* What is stored keeps its types.                                           *)
LEMMA RequestStored ==
  ASSUME TypeOK, NEW c \in Caller, Request(c)
  PROVE  StoredType'
BY DEF TypeOK, StoredType, Request, PlanNext, ReviewPlan, RankPlan, Approve,
   Reject, Generate, StartAgain, SetBudget, stored, past

(* What a step writes has its type.                                          *)
LEMMA ContinueStored ==
  ASSUME TypeOK, CallsFit, NEW c \in Caller, Continue(c)
  PROVE  StoredType'
<1>0. call[c] \in Call /\ Fits(call[c])
  BY DEF TypeOK, CallsFit
<1> USE DEF StoredType, TypeOK, stored, past
<1>1. CASE Configure(c)
  BY <1>0, <1>1 DEF Configure, Call
<1>2. CASE Ask(c) \/ List(c) \/ Charge(c) \/ ContractRefused(c)
  BY <1>2 DEF Ask, List, Charge, ContractRefused
<1>3. CASE Save(c)
  <2>1. PICK r : r = [there |-> TRUE, asked |-> call[c].mode,
                      maker |-> call[c].maker, said |-> provider]
    OBVIOUS
  <2>2. r \in PlanRow
    BY <1>0, <2>1 DEF PlanRow, Call
  <2>3. plans' = [plans EXCEPT ![P(c)] = r]
    BY <1>3, <2>1 DEF Save
  <2>4. plans' \in [Plan -> PlanRow]
    BY <2>2, <2>3
  <2>5. QED BY <1>3, <2>4 DEF Save
<1>4. CASE Store(c)
  <2>1. PICK x \in Todo(c) :
          /\ Put(c, x, call[c].copy[x].status)
          /\ rejected' = rejected \ {x} /\ credit' = [credit EXCEPT ![x] = 0]
    BY <1>4 DEF Store
  <2>2. call[c].copy[x].status \in Status /\ x \in Cand
    BY <1>0 DEF Call, Row, Todo
  <2>3. rows' \in [Cand -> Row]
    BY <2>1, <2>2, PutIs
  <2>4. rejected' \subseteq Cand /\ credit' \in [Cand -> Int]
    BY <2>1, <2>2
  <2>5. QED BY <1>4, <2>3, <2>4 DEF Store
<1>5. CASE ReviewOne(c)
  <2>1. CASE UNCHANGED <<rows, rejected>>
    BY <1>5, <2>1 DEF ReviewOne
  <2>2. CASE ~UNCHANGED <<rows, rejected>>
    <3>1. PICK x \in Todo(c), a \in BOOLEAN :
            /\ rows' = [rows EXCEPT ![x] =
                          [call[c].copy[x] EXCEPT
                             !.status = IF a THEN "rejected" ELSE "reviewed",
                             !.against = a]]
            /\ rejected' = IF a THEN rejected \cup {x} ELSE rejected
      BY <1>5, <2>2 DEF ReviewOne
    <3>2. rows' \in [Cand -> Row] /\ x \in Cand
      BY <3>1, ReviewIs
    <3>3. rejected' \subseteq Cand
      BY <3>1, <3>2
    <3>4. QED BY <1>5, <3>2, <3>3 DEF ReviewOne
  <2>3. QED BY <2>1, <2>2
<1>6. CASE RankOne(c)
  <2>1. PICK x \in Todo(c) : Put(c, x, IF x \in call[c].keep THEN "ranked" ELSE "reviewed")
    BY <1>6 DEF RankOne
  <2>2. (IF x \in call[c].keep THEN "ranked" ELSE "reviewed") \in Status
    BY DEF Status
  <2>3. rows' \in [Cand -> Row]
    BY <2>1, <2>2, PutIs
  <2>4. QED BY <1>6, <2>3 DEF RankOne
<1>7. CASE ApproveOne(c)
  <2>1. X(c) \in Todo(c) /\ "approved" \in Status /\ Put(c, X(c), "approved")
    BY <1>7, CandIn DEF ApproveOne, Doing, Status
  <2>2. rows' \in [Cand -> Row] /\ X(c) \in Cand /\ P(c) \in Plan
    BY <1>0, <1>7, <2>1, PutIs DEF ApproveOne, Doing, Fits, P
  <2>3. approved' \subseteq Plan \X Cand /\ credit' \in [Cand -> Int]
    BY <1>7, <2>2 DEF ApproveOne
  <2>4. QED BY <1>7, <2>2, <2>3 DEF ApproveOne
<1>8. CASE RejectOne(c)
  <2>1. X(c) \in Todo(c) /\ "rejected" \in Status /\ Put(c, X(c), "rejected")
    BY <1>8, CandIn DEF RejectOne, Doing, Status
  <2>2. rows' \in [Cand -> Row] /\ X(c) \in Cand
    BY <2>1, PutIs
  <2>3. rejected' \subseteq Cand
    BY <1>8, <2>2 DEF RejectOne
  <2>4. QED BY <1>8, <2>2, <2>3 DEF RejectOne
<1>9. CASE Contract(c)
  <2>1. X(c) \in Todo(c) /\ "contract_generated" \in Status
        /\ Put(c, X(c), "contract_generated")
    BY <1>9, CandIn DEF Contract, Doing, Status
  <2>2. rows' \in [Cand -> Row] /\ X(c) \in Cand
    BY <2>1, PutIs
  <2>3. spent' \in 0..MaxSpent /\ credit' \in [Cand -> Int]
    BY <1>9, <2>2, PlanningBounds DEF Contract
  <2>4. QED BY <1>9, <2>2, <2>3 DEF Contract
<1>10. CASE Pay(c)
  BY <1>0, <1>10 DEF Pay, Call
<1>11. CASE PutNode(c)
  <2>1. call[c].node \in 1..MaxNodes /\ P(c) \in Plan /\ X(c) \in Cand
    BY <1>0, <1>11 DEF PutNode, Doing, Fits, Decides, Spends, P, X
  <2>2. nodes' \in [1..MaxNodes -> (Plan \X Cand) \cup {None}]
    BY <1>11, <2>1 DEF PutNode
  <2>3. QED BY <1>11, <2>2 DEF PutNode
<1>12. CASE Iterate(c)
  <2>1. call[c].node \in 1..MaxNodes /\ P(c) \in Plan /\ X(c) \in Cand
    BY <1>0, <1>12 DEF Iterate, Doing, Fits, Decides, Spends, P, X
  <2>2. iters' \subseteq [plan: Plan, cand: Cand, node: 1..MaxNodes]
    BY <1>12, <2>1 DEF Iterate
  <2>3. QED BY <1>12, <2>2 DEF Iterate
<1>13. CASE Limit(c)
  BY <1>0, <1>13 DEF Limit, Call
<1>14. QED
  BY <1>1, <1>2, <1>3, <1>4, <1>5, <1>6, <1>7, <1>8, <1>9, <1>10, <1>11, <1>12,
     <1>13 DEF Continue

(* Rows, plans, nodes, iterations, counters and calls keep their types, and  *)
(* every call fits its place.                                                *)
THEOREM TypeCorrect == Spec => [](TypeOK /\ CallsFit)
<1>1. Init => TypeOK /\ CallsFit
  <2> SUFFICES ASSUME Init PROVE TypeOK /\ CallsFit
    OBVIOUS
  <2>1. NoPlan \in PlanRow
    BY DEF NoPlan, PlanRow, Mode
  <2>2. 0 \in 0..MaxSpent /\ 0 \in 0..MaxMishaps
    BY PlanningBounds
  <2>3. TypeOK
    BY <2>1, <2>2, Blank DEF Init, TypeOK, Mode
  <2>4. CallsFit
    BY Blank DEF Init, CallsFit
  <2>5. QED BY <2>3, <2>4
<1>2. TypeOK /\ CallsFit /\ [Next]_vars => (TypeOK /\ CallsFit)'
  <2> SUFFICES ASSUME TypeOK, CallsFit, [Next]_vars PROVE (TypeOK /\ CallsFit)'
    OBVIOUS
  <2>1. CASE /\ \E c \in Caller : (Request(c) /\ MayOverlap(c))
                                  \/ (Continue(c) /\ UNCHANGED mishaps)
             /\ raced' = raced \cup Clash'
    <3>1. PICK c \in Caller : (Request(c) /\ MayOverlap(c))
                              \/ (Continue(c) /\ UNCHANGED mishaps)
      BY <2>1
    <3>2. StoredType'
      BY <3>1, RequestStored, ContinueStored
    <3>3. PICK r : Sets(c, r)
      BY <3>1, RequestSets, ContinueSets
    <3>4. call' \in [Caller -> Call] /\ CallsFit'
      BY <3>3 DEF Sets, TypeOK, CallsFit
    <3>5. raced' \subseteq Things
      BY <2>1 DEF Clash, TypeOK
    <3>6. mishaps' \in 0..MaxMishaps
      BY <3>1, PlanningBounds DEF MayOverlap, TypeOK
    <3>7. QED BY <3>2, <3>4, <3>5, <3>6 DEF StoredType, TypeOK
  <2>2. CASE Crash
    <3>1. call' \in [Caller -> Call] /\ CallsFit'
      BY <2>2, Blank DEF Crash, CallsFit
    <3>2. mishaps' \in 0..MaxMishaps
      BY <2>2, PlanningBounds DEF Crash, TypeOK
    <3>3. raced' \subseteq Things
      BY <2>2 DEF Crash, TypeOK, Things
    <3>4. QED BY <2>2, <3>1, <3>2, <3>3 DEF Crash, TypeOK, stored, past, Mode
  <2>3. CASE UNCHANGED vars
    BY <2>3 DEF vars, stored, past, TypeOK, CallsFit
  <2>4. QED BY <2>1, <2>2, <2>3 DEF Next
<1>3. QED BY <1>1, <1>2, PTL DEF Spec

(* What a step of a call does to one row and to what is remembered of it.    *)
Kept1(y) ==
  /\ rows'[y] = rows[y] /\ credit'[y] = credit[y]
  /\ y \in rejected' <=> y \in rejected
Stored1(c, y) ==
  /\ call[c].at = "store" /\ rows'[y].status \in {"verified", "rejected"}
  /\ credit'[y] = 0 /\ y \notin rejected'
Judged1(c, y) ==
  /\ call[c].at \notin {"save", "store"}
  /\ rows'[y].status \in {"reviewed", "ranked", "rejected"}
  /\ credit'[y] = credit[y]
  /\ y \in rejected' <=> (y \in rejected \/ rows'[y].status = "rejected")
Approved1(c, y) ==
  /\ call[c].at = "approve" /\ rows'[y].status = "approved"
  /\ <<rows'[y].plan, y>> \in approved'
  /\ credit'[y] = credit[y] + 1 /\ (y \in rejected' <=> y \in rejected)
Contracted1(c, y) ==
  /\ call[c].at = "contract" /\ y = X(c) /\ call[c].copy[y].status = "approved"
  /\ rows'[y].status = "contract_generated" /\ rows'[y].plan = P(c)
  /\ credit'[y] = credit[y] - 1 /\ (y \in rejected' <=> y \in rejected)
Written1(c, y) ==
  /\ y \in Todo(c) /\ call'[c].copy[y] = NoRow
  /\ Stored1(c, y) \/ Judged1(c, y) \/ Approved1(c, y) \/ Contracted1(c, y)
RowStep(c) == \A y \in Cand : Kept1(y) \/ Written1(c, y)

(* What the record of the caller is made from.                               *)
CopyStep(c) ==
  \A y \in Cand : call'[c].copy[y] # NoRow =>
    \/ call'[c].copy[y] = rows[y]
    \/ call'[c].copy[y] = call[c].copy[y]
       /\ (call[c].at \in {"save", "store"} => call'[c].at \in {"save", "store"})
    \/ call'[c].at = "save" /\ call'[c].copy[y].status \in {"verified", "rejected"}
SpendStep(c) ==
  call'[c].at \in Spends =>
    \/ /\ call[c].at \in Spends /\ call'[c].plan = call[c].plan
       /\ call'[c].cand = call[c].cand /\ call'[c].node = call[c].node
       /\ call'[c].starts = call[c].starts
    \/ /\ call'[c].at \in {"contract", "node"} /\ call'[c].cand \in Cand
       /\ rows[call'[c].cand].status \in {"approved", "contract_generated"}
       /\ rows[call'[c].cand].plan = call'[c].plan
       /\ call'[c].node \in Free

Table(c) ==
  /\ RowStep(c) /\ CopyStep(c) /\ SpendStep(c)
  /\ approved \subseteq approved'
  /\ \A b \in Caller \ {c} : call'[b] = call[b]

(* Requests only read.                                                       *)
LEMMA RequestTable ==
  ASSUME TypeOK, CallsFit, NEW c \in Caller, Request(c)
  PROVE  Table(c)
<1>1. RowStep(c) /\ approved \subseteq approved'
  BY DEF RowStep, Kept1, Request, PlanNext, ReviewPlan, RankPlan, Approve,
     Reject, Generate, StartAgain, SetBudget, stored, past
<1>2. \A b \in Caller \ {c} : call'[b] = call[b]
  BY DEF TypeOK, Request, PlanNext, ReviewPlan, RankPlan, Approve, Reject,
         Generate, StartAgain, SetBudget, Begin
<1> SUFFICES CopyStep(c) /\ SpendStep(c)
  BY <1>1, <1>2 DEF Table
<1>3. CASE PlanNext(c) \/ ReviewPlan(c) \/ SetBudget(c)
  <2>1. PICK r : /\ call' = [call EXCEPT ![c] = r]
                 /\ r.copy = NoRows /\ r.at \in {"configure", "limit"}
    <3>1. CASE PlanNext(c)
      <4>1. PICK p \in Plan, m \in Mode :
              Begin(c, [Idle EXCEPT !.at = "configure", !.plans = TRUE, !.plan = p,
                                    !.mode = m, !.read = Remaining])
        BY <3>1 DEF PlanNext
      <4>2. PICK r : r = [Idle EXCEPT !.at = "configure", !.plans = TRUE, !.plan = p,
                                      !.mode = m, !.read = Remaining]
        OBVIOUS
      <4>3. r.copy = NoRows /\ r.at = "configure"
        BY <4>2 DEF Idle
      <4>4. QED BY <4>1, <4>2, <4>3 DEF Begin
    <3>2. CASE ReviewPlan(c)
      <4>1. PICK p \in Plan, m \in Mode :
              Begin(c, [Idle EXCEPT !.at = "configure", !.plan = p, !.mode = m])
        BY <3>2 DEF ReviewPlan
      <4>2. PICK r : r = [Idle EXCEPT !.at = "configure", !.plan = p, !.mode = m]
        OBVIOUS
      <4>3. r.copy = NoRows /\ r.at = "configure"
        BY <4>2 DEF Idle
      <4>4. QED BY <4>1, <4>2, <4>3 DEF Begin
    <3>3. CASE SetBudget(c)
      <4>1. PICK r : r = [Idle EXCEPT !.at = "limit", !.read = used]
        OBVIOUS
      <4>2. r.copy = NoRows /\ r.at = "limit"
        BY <4>1 DEF Idle
      <4>3. QED BY <3>3, <4>1, <4>2 DEF SetBudget, Begin
    <3>4. QED BY <1>3, <3>1, <3>2, <3>3
  <2>2. call'[c] = r
    BY <2>1 DEF TypeOK
  <2>3. QED BY <2>1, <2>2 DEF CopyStep, SpendStep, NoRows, Spends
<1>4. CASE RankPlan(c)
  <2>1. PICK s \in SUBSET Cand : call'[c].copy = Copies(s) /\ call'[c].at = "rank"
    <3>1. PICK p \in Plan, k \in SUBSET Cand :
            /\ k \subseteq RowsOf(p)
            /\ Begin(c, [Idle EXCEPT !.at = "rank", !.plan = p,
                           !.copy = Copies(k \cup {x \in RowsOf(p) : Falls(x)}),
                           !.keep = k])
      BY <1>4 DEF RankPlan, RowsOf
    <3>2. PICK s : s = k \cup {x \in RowsOf(p) : Falls(x)}
      OBVIOUS
    <3>3. s \in SUBSET Cand
      BY <3>2 DEF RowsOf
    <3>4. PICK d : d = Copies(s)
      OBVIOUS
    <3>5. PICK r : r = [Idle EXCEPT !.at = "rank", !.plan = p, !.copy = d, !.keep = k]
      OBVIOUS
    <3>6. r.copy = d /\ r.at = "rank"
      BY <3>5 DEF Idle
    <3>7. call'[c] = r
      BY <3>1, <3>2, <3>4, <3>5 DEF Begin, TypeOK
    <3>8. QED BY <3>3, <3>4, <3>6, <3>7
  <2>2. \A y \in Cand : call'[c].copy[y] # NoRow => call'[c].copy[y] = rows[y]
    BY <2>1, CopiesAre
  <2>3. QED BY <2>1, <2>2 DEF CopyStep, SpendStep, Spends
<1>5. CASE Approve(c) \/ Reject(c)
  <2>1. PICK l \in {"approve", "reject"}, p \in Plan, x \in Cand :
          x \in RowsOf(p) /\ Begin(c, Take(l, p, x))
    BY <1>5 DEF Approve, Reject, RowsOf
  <2>2. PICK t : t = Take(l, p, x)
    OBVIOUS
  <2>3. t.at = l /\ \A y \in Cand : t.copy[y] = IF y \in {x} THEN rows[y] ELSE NoRow
    BY <2>1, <2>2, TakeHas
  <2>4. call'[c] = t
    BY <2>1, <2>2 DEF Begin, TypeOK
  <2>5. QED BY <2>3, <2>4 DEF CopyStep, SpendStep, Spends
<1>6. CASE Generate(c) \/ StartAgain(c)
  <2>1. PICK l \in {"contract", "node"}, p \in Plan, n \in 1..MaxNodes, b \in BOOLEAN,
             x \in Cand :
          /\ x \in RowsOf(p) /\ n \in Free
          /\ rows[x].status \in {"approved", "contract_generated"}
          /\ Begin(c, [Take(l, p, x) EXCEPT !.node = n, !.starts = b])
    BY <1>6 DEF Generate, StartAgain, RowsOf, IsNext
  <2>2. PICK t : t = Take(l, p, x)
    OBVIOUS
  <2>3. /\ t \in Call /\ t.at = l /\ t.plan = p /\ t.cand = x /\ rows[x].plan = p
        /\ \A y \in Cand : t.copy[y] = IF y \in {x} THEN rows[y] ELSE NoRow
    BY <2>1, <2>2, TakeHas
  <2>4. call'[c] = [t EXCEPT !.node = n, !.starts = b]
    BY <2>1, <2>2 DEF Begin, TypeOK
  <2>5. /\ call'[c].at = l /\ call'[c].plan = p /\ call'[c].cand = x /\ call'[c].node = n
        /\ call'[c].copy = t.copy
    BY <2>3, <2>4 DEF Call
  <2>6. CopyStep(c)
    BY <2>3, <2>5 DEF CopyStep
  <2>7. SpendStep(c)
    BY <2>1, <2>3, <2>5 DEF SpendStep
  <2>8. QED BY <2>6, <2>7
<1>7. QED BY <1>3, <1>4, <1>5, <1>6 DEF Request

(* A call that has written a row forgets its copy; one that returns, all.    *)
LEMMA WrittenIs ==
  ASSUME TypeOK, NEW c \in Caller, NEW x \in Cand, Written(c, x)
  PROVE  /\ call'[c].copy[x] = NoRow /\ call'[c].at \in {call[c].at, "idle"}
         /\ \A y \in Cand : call'[c].copy[y] \in {call[c].copy[y], NoRow}
         /\ \A b \in Caller \ {c} : call'[b] = call[b]
<1>1. call[c] \in Call
  BY DEF TypeOK
<1>2. PICK r : r = [call[c] EXCEPT !.copy[x] = NoRow]
  OBVIOUS
<1>3. /\ r.copy[x] = NoRow /\ r.at = call[c].at
      /\ \A y \in Cand : r.copy[y] \in {call[c].copy[y], NoRow}
  BY <1>1, <1>2 DEF Call
<1>4. call' = [call EXCEPT ![c] = Idle] \/ call' = [call EXCEPT ![c] = r]
  BY <1>2 DEF Written
<1>5. Idle.at = "idle" /\ \A y \in Cand : Idle.copy[y] = NoRow
  BY DEF Idle, NoRows
<1>6. QED BY <1>3, <1>4, <1>5 DEF TypeOK

(* One that is over then has no copies.                                      *)
LEMMA OverIs ==
  ASSUME TypeOK, NEW c \in Caller, NEW x \in Cand, Written(c, x),
         call[c].at # "idle", call'[c].at = "idle"
  PROVE  \A y \in Cand : call'[c].copy[y] = NoRow
<1>1. PICK r : r = [call[c] EXCEPT !.copy[x] = NoRow]
  OBVIOUS
<1>2. r.at = call[c].at
  BY <1>1 DEF TypeOK, Call
<1>3. call' = [call EXCEPT ![c] = Idle] \/ call' = [call EXCEPT ![c] = r]
  BY <1>1 DEF Written
<1>4. call' = [call EXCEPT ![c] = Idle]
  BY <1>2, <1>3 DEF TypeOK
<1>5. QED BY <1>4 DEF TypeOK, Idle, NoRows

(* A call that returns has no copies.                                        *)
LEMMA ReturnIs ==
  ASSUME TypeOK, NEW c \in Caller, Return(c)
  PROVE  /\ call'[c].at = "idle" /\ \A y \in Cand : call'[c].copy[y] = NoRow
         /\ \A b \in Caller \ {c} : call'[b] = call[b]
BY DEF TypeOK, Return, Idle, NoRows

(* A step that leaves the rows and what is remembered of them.               *)
LEMMA NothingWritten ==
  ASSUME NEW c \in Caller, UNCHANGED <<rows, approved, credit, rejected>>
  PROVE  RowStep(c) /\ approved \subseteq approved'
BY DEF RowStep, Kept1

(* A step that writes one row.                                               *)
LEMMA OneWritten ==
  ASSUME NEW c \in Caller, NEW x \in Cand, Written1(c, x),
         \A y \in Cand \ {x} : Kept1(y)
  PROVE  RowStep(c)
BY DEF RowStep

(* Every other step is one of the table.                                     *)
LEMMA ContinueTable ==
  ASSUME TypeOK, CallsFit, NEW c \in Caller, Continue(c)
  PROVE  Table(c)
<1>0. call[c] \in Call /\ Fits(call[c])
  BY DEF TypeOK, CallsFit
<1> USE DEF stored, past
<1>1. CASE Configure(c)
  <2>1. RowStep(c) /\ approved \subseteq approved'
    BY <1>1, NothingWritten DEF Configure
  <2>2. PICK r : /\ call' = [call EXCEPT ![c] = r] /\ r.at \in {"ask", "list", "idle"}
                 /\ \A y \in Cand : r.copy[y] \in {call[c].copy[y], NoRow}
    BY <1>0, <1>1 DEF Configure, Goto, Return, Idle, NoRows, Call
  <2>3. call'[c] = r /\ \A b \in Caller \ {c} : call'[b] = call[b]
    BY <2>2 DEF TypeOK
  <2>4. call[c].at = "configure"
    BY <1>1 DEF Configure, Doing
  <2>5. QED BY <2>1, <2>2, <2>3, <2>4 DEF Table, CopyStep, SpendStep, Spends
<1>2. CASE Ask(c)
  <2>1. RowStep(c) /\ approved \subseteq approved'
    BY <1>2, NothingWritten DEF Ask
  <2>2. CASE Return(c)
    BY <2>1, <2>2, ReturnIs DEF Table, CopyStep, SpendStep, Spends
  <2>3. CASE ~Return(c)
    <3>1. PICK out \in SUBSET Cand, ok \in SUBSET Cand :
            /\ ok \subseteq out
            /\ call' = [call EXCEPT ![c].at = "save", ![c].maker = provider,
                          ![c].copy = NewRows(P(c), out, ok), ![c].read = 0]
      BY <1>2, <2>3 DEF Ask
    <3>2. PICK k : k = NewRows(P(c), out, ok)
      OBVIOUS
    <3>3. PICK r : r = [call[c] EXCEPT !.at = "save", !.maker = provider,
                                       !.copy = k, !.read = 0]
      OBVIOUS
    <3>4. call[c].plan \in Plan
      BY <1>0, <1>2 DEF Ask, Doing, Fits
    <3>5. \A x \in Cand : k[x] # NoRow => k[x].status \in {"verified", "rejected"}
      BY <3>1, <3>2, <3>4, NewRowsAre DEF P
    <3>6. r.at = "save" /\ r.copy = k
      BY <1>0, <3>3 DEF Call
    <3>7. call'[c] = r /\ \A b \in Caller \ {c} : call'[b] = call[b]
      BY <3>1, <3>2, <3>3 DEF TypeOK
    <3>8. QED BY <2>1, <3>5, <3>6, <3>7 DEF Table, CopyStep, SpendStep, Spends
  <2>4. QED BY <2>2, <2>3
<1>3. CASE Save(c)
  <2>1. RowStep(c) /\ approved \subseteq approved'
    BY <1>3, NothingWritten DEF Save
  <2>2. CASE Return(c)
    BY <2>1, <2>2, ReturnIs DEF Table, CopyStep, SpendStep, Spends
  <2>3. CASE ~Return(c)
    <3>1. PICK r : r = [Idle EXCEPT !.at = "store", !.plan = P(c), !.copy = call[c].copy]
      OBVIOUS
    <3>2. call'[c] = r /\ \A b \in Caller \ {c} : call'[b] = call[b]
      BY <1>3, <2>3, <3>1 DEF Save, TypeOK
    <3>3. r.at = "store" /\ r.copy = call[c].copy
      BY <3>1 DEF Idle
    <3>4. QED BY <2>1, <3>2, <3>3 DEF Table, CopyStep, SpendStep, Spends
  <2>4. QED BY <2>2, <2>3
<1>4. CASE Store(c)
  <2>1. PICK x \in Todo(c) :
          /\ Put(c, x, call[c].copy[x].status) /\ Written(c, x)
          /\ rejected' = rejected \ {x} /\ credit' = [credit EXCEPT ![x] = 0]
    BY <1>4 DEF Store
  <2>2. /\ call[c].copy[x].status \in Status /\ x \in Cand /\ call[c].at = "store"
        /\ call[c].copy[x].status \in {"verified", "rejected"}
    BY <1>0, <1>4 DEF Store, Doing, Call, Row, Todo, Fits, CopyFits
  <2>3. /\ \A y \in Cand \ {x} : rows'[y] = rows[y]
        /\ rows'[x].status \in {"verified", "rejected"}
    BY <2>1, <2>2, PutIs
  <2>4. RowStep(c)
    BY <2>1, <2>2, <2>3, WrittenIs
       DEF RowStep, Kept1, Written1, Stored1, TypeOK
  <2>5. CopyStep(c) /\ SpendStep(c) /\ \A b \in Caller \ {c} : call'[b] = call[b]
    <3>1. /\ call'[c].at \in {"store", "idle"}
          /\ \A y \in Cand : call'[c].copy[y] \in {call[c].copy[y], NoRow}
          /\ \A b \in Caller \ {c} : call'[b] = call[b]
          /\ call'[c].at = "idle" => \A y \in Cand : call'[c].copy[y] = NoRow
      BY <2>1, <2>2, WrittenIs, OverIs
    <3>2. QED BY <3>1 DEF CopyStep, SpendStep, Spends
  <2>6. QED BY <1>4, <2>4, <2>5 DEF Store, Table
<1>5. CASE ReviewOne(c)
  <2>1. CASE Return(c) /\ UNCHANGED <<rows, rejected>>
    BY <1>5, <2>1, ReturnIs, NothingWritten
       DEF ReviewOne, Table, CopyStep, SpendStep, Spends
  <2>2. CASE ~(Return(c) /\ UNCHANGED <<rows, rejected>>)
    <3>1. PICK x \in Todo(c), a \in BOOLEAN :
            /\ rows' = [rows EXCEPT ![x] =
                          [call[c].copy[x] EXCEPT
                             !.status = IF a THEN "rejected" ELSE "reviewed",
                             !.against = a]]
            /\ rejected' = (IF a THEN rejected \cup {x} ELSE rejected)
            /\ Written(c, x)
      BY <1>5, <2>2 DEF ReviewOne
    <3>2. /\ x \in Cand /\ \A y \in Cand \ {x} : rows'[y] = rows[y]
          /\ rows'[x].status = IF a THEN "rejected" ELSE "reviewed"
      BY <3>1, ReviewIs
    <3>3. call[c].at = "review" /\ UNCHANGED <<approved, credit>>
      BY <1>5 DEF ReviewOne, Doing
    <3>4. RowStep(c)
      BY <3>1, <3>2, <3>3, WrittenIs DEF RowStep, Kept1, Written1, Judged1
    <3>5. QED BY <3>1, <3>2, <3>3, <3>4, WrittenIs
              DEF Table, CopyStep, SpendStep, Spends
  <2>3. QED BY <2>1, <2>2
<1>6. CASE RankOne(c)
  <2>1. PICK x \in Todo(c) :
          /\ Put(c, x, IF x \in call[c].keep THEN "ranked" ELSE "reviewed")
          /\ Written(c, x)
    BY <1>6 DEF RankOne
  <2>2. (IF x \in call[c].keep THEN "ranked" ELSE "reviewed") \in Status
    BY DEF Status
  <2>3. /\ x \in Cand /\ \A y \in Cand \ {x} : rows'[y] = rows[y]
        /\ rows'[x].status \in {"ranked", "reviewed"}
    BY <2>1, <2>2, PutIs
  <2>4. call[c].at = "rank" /\ UNCHANGED <<approved, credit, rejected>>
    BY <1>6 DEF RankOne, Doing
  <2>5. RowStep(c)
    BY <2>1, <2>3, <2>4, WrittenIs DEF RowStep, Kept1, Written1, Judged1
  <2>6. QED BY <2>1, <2>3, <2>4, <2>5, WrittenIs
            DEF Table, CopyStep, SpendStep, Spends
<1>7. CASE ApproveOne(c)
  <2>1. X(c) \in Todo(c) /\ "approved" \in Status /\ Put(c, X(c), "approved")
        /\ Return(c) /\ call[c].at = "approve"
    BY <1>7, CandIn DEF ApproveOne, Doing, Status
  <2>2. /\ X(c) \in Cand /\ \A y \in Cand \ {X(c)} : rows'[y] = rows[y]
        /\ rows'[X(c)].plan = call[c].copy[X(c)].plan /\ rows'[X(c)].status = "approved"
    BY <2>1, PutIs
  <2>3. call[c].copy[X(c)].plan = P(c)
    BY <1>0, <2>1 DEF Fits, X, P
  <2>4. RowStep(c)
    BY <1>7, <2>1, <2>2, <2>3, ReturnIs
       DEF ApproveOne, RowStep, Kept1, Written1, Approved1, TypeOK
  <2>5. QED BY <1>7, <2>1, <2>4, ReturnIs
            DEF ApproveOne, Table, CopyStep, SpendStep, Spends
<1>8. CASE RejectOne(c)
  <2>1. X(c) \in Todo(c) /\ "rejected" \in Status /\ Put(c, X(c), "rejected")
        /\ Return(c) /\ call[c].at = "reject"
    BY <1>8, CandIn DEF RejectOne, Doing, Status
  <2>2. /\ X(c) \in Cand /\ \A y \in Cand \ {X(c)} : rows'[y] = rows[y]
        /\ rows'[X(c)].status = "rejected"
    BY <2>1, PutIs
  <2>3. RowStep(c)
    BY <1>8, <2>1, <2>2, ReturnIs
       DEF RejectOne, RowStep, Kept1, Written1, Judged1
  <2>4. QED BY <1>8, <2>1, <2>3, ReturnIs
            DEF RejectOne, Table, CopyStep, SpendStep, Spends
<1>9. CASE Contract(c)
  <2>1. X(c) \in Todo(c) /\ "contract_generated" \in Status
        /\ Put(c, X(c), "contract_generated") /\ call[c].at = "contract"
    BY <1>9, CandIn DEF Contract, Doing, Status
  <2>2. /\ X(c) \in Cand /\ \A y \in Cand \ {X(c)} : rows'[y] = rows[y]
        /\ rows'[X(c)].plan = call[c].copy[X(c)].plan
        /\ rows'[X(c)].status = "contract_generated"
    BY <2>1, PutIs
  <2>3. call[c].copy[X(c)].plan = P(c) /\ call[c].copy[X(c)].status = "approved"
    BY <1>0, <2>1 DEF Fits, X, P
  <2>4. PICK r : r = [call[c] EXCEPT !.at = "charge", !.copy = NoRows]
    OBVIOUS
  <2>5. /\ r.copy = NoRows /\ r.plan = call[c].plan /\ r.cand = call[c].cand
        /\ r.node = call[c].node /\ r.starts = call[c].starts
    BY <1>0, <2>4 DEF Call
  <2>6. call'[c] = r /\ \A b \in Caller \ {c} : call'[b] = call[b]
    BY <1>9, <2>4 DEF Contract, TypeOK
  <2>7. RowStep(c)
    BY <1>9, <2>1, <2>2, <2>3, <2>5, <2>6
       DEF Contract, RowStep, Kept1, Written1, Contracted1, TypeOK, NoRows
  <2>8. CopyStep(c) /\ SpendStep(c)
    BY <2>1, <2>5, <2>6 DEF CopyStep, SpendStep, Spends, NoRows
  <2>9. QED BY <1>9, <2>6, <2>7, <2>8 DEF Contract, Table
<1>10. CASE ContractRefused(c) \/ Limit(c) \/ Iterate(c)
  BY <1>10, ReturnIs, NothingWritten
     DEF ContractRefused, Limit, Iterate, Table, CopyStep, SpendStep, Spends
<1>11. CASE Charge(c)
  <2>1. PICK r : r = [call[c] EXCEPT !.at = "pay", !.read = used]
    OBVIOUS
  <2>2. /\ r.at = "pay" /\ r.copy = call[c].copy /\ r.plan = call[c].plan
        /\ r.cand = call[c].cand /\ r.node = call[c].node /\ r.starts = call[c].starts
    BY <1>0, <2>1 DEF Call
  <2>3. call'[c] = r /\ \A b \in Caller \ {c} : call'[b] = call[b]
    BY <1>11, <2>1 DEF Charge, TypeOK
  <2>4. call[c].at = "charge" /\ RowStep(c) /\ approved \subseteq approved'
    BY <1>11, NothingWritten DEF Charge, Doing
  <2>5. QED BY <2>2, <2>3, <2>4 DEF Table, CopyStep, SpendStep, Spends
<1>12. CASE Pay(c)
  <2>1. call[c].at = "pay" /\ RowStep(c) /\ approved \subseteq approved'
    BY <1>12, NothingWritten DEF Pay, Doing
  <2>2. CASE Return(c)
    BY <2>1, <2>2, ReturnIs DEF Table, CopyStep, SpendStep, Spends
  <2>3. CASE ~Return(c)
    <3>1. PICK r : r = [call[c] EXCEPT !.at = "node", !.read = 0]
      OBVIOUS
    <3>2. /\ r.at = "node" /\ r.copy = call[c].copy /\ r.plan = call[c].plan
          /\ r.cand = call[c].cand /\ r.node = call[c].node /\ r.starts = call[c].starts
      BY <1>0, <3>1 DEF Call
    <3>3. call'[c] = r /\ \A b \in Caller \ {c} : call'[b] = call[b]
      BY <1>12, <2>3, <3>1 DEF Pay, TypeOK
    <3>4. QED BY <2>1, <3>2, <3>3 DEF Table, CopyStep, SpendStep, Spends
  <2>4. QED BY <2>2, <2>3
<1>13. CASE PutNode(c)
  <2>1. PICK r : r = [call[c] EXCEPT !.at = "iterate", !.copy = NoRows]
    OBVIOUS
  <2>2. /\ r.copy = NoRows /\ r.plan = call[c].plan
        /\ r.cand = call[c].cand /\ r.node = call[c].node /\ r.starts = call[c].starts
    BY <1>0, <2>1 DEF Call
  <2>3. call'[c] = r /\ \A b \in Caller \ {c} : call'[b] = call[b]
    BY <1>13, <2>1 DEF PutNode, TypeOK
  <2>4. call[c].at = "node" /\ RowStep(c) /\ approved \subseteq approved'
    BY <1>13, NothingWritten DEF PutNode, Doing
  <2>5. QED BY <2>2, <2>3, <2>4 DEF Table, CopyStep, SpendStep, Spends, NoRows
<1>14. CASE List(c)
  <2>1. RowStep(c) /\ approved \subseteq approved'
    BY <1>14, NothingWritten DEF List
  <2>2. CASE Return(c)
    BY <2>1, <2>2, ReturnIs DEF Table, CopyStep, SpendStep, Spends
  <2>3. CASE ~Return(c)
    <3>1. PICK k : k = Copies(Eligible(P(c)))
      OBVIOUS
    <3>2. PICK r : r = [Idle EXCEPT !.at = "review", !.plan = P(c), !.copy = k]
      OBVIOUS
    <3>3. call'[c] = r /\ \A b \in Caller \ {c} : call'[b] = call[b]
      BY <1>14, <2>3, <3>1, <3>2 DEF List, TypeOK
    <3>4. Eligible(P(c)) \in SUBSET Cand
      BY DEF Eligible, RowsOf
    <3>5. \A y \in Cand : k[y] # NoRow => k[y] = rows[y]
      BY <3>1, <3>4, CopiesAre
    <3>6. r.at = "review" /\ r.copy = k
      BY <3>2 DEF Idle
    <3>7. QED BY <2>1, <3>3, <3>5, <3>6 DEF Table, CopyStep, SpendStep, Spends
  <2>4. QED BY <2>2, <2>3
<1>15. QED
  BY <1>1, <1>2, <1>3, <1>4, <1>5, <1>6, <1>7, <1>8, <1>9, <1>10, <1>11, <1>12,
     <1>13, <1>14 DEF Continue

-----------------------------------------------------------------------------
(* Two calls on one thing have been noted.                                   *)
Apart == Clash \subseteq raced

(* A copy of a row no two calls met on is the row.                           *)
Fresh ==
  \A c \in Caller : \A x \in Cand \ raced :
    x \in Todo(c) /\ call[c].at \notin {"save", "store"} => call[c].copy[x] = rows[x]

(* Rows, copies, calls and iterations have the approvals they speak of.      *)
Had(r, x, s) == r.status \in {"approved", "contract_generated"} => <<r.plan, x>> \in s
Earned ==
  /\ \A x \in Cand : Had(rows[x], x, approved)
  /\ \A c \in Caller : \A x \in Todo(c) : Had(call[c].copy[x], x, approved)
  /\ \A c \in Caller : call[c].at \in Spends => <<P(c), X(c)>> \in approved
  /\ \A i \in iters : <<i.plan, i.cand>> \in approved

(* An approved row has an approval left.                                     *)
Credited ==
  \A x \in Cand \ raced :
    credit[x] >= 0 /\ (rows[x].status = "approved" => credit[x] >= 1)

DecisionInv == Apart /\ Fresh /\ Earned /\ Credited /\ RejectionsStand

(* Calls on one thing that was not raced for are one.                        *)
LEMMA Alone ==
  ASSUME Apart, NEW t \in Things \ raced, NEW a \in Caller, NEW b \in Caller,
         t \in Touched(a), t \in Touched(b)
  PROVE  a = b
BY DEF Apart, Clash

(* Only one call at a time holds a copy of a row that was not raced.         *)
LEMMA AloneOnRow ==
  ASSUME Apart, NEW x \in Cand \ raced, NEW a \in Caller, NEW b \in Caller,
         x \in Todo(a), x \in Todo(b)
  PROVE  a = b
BY Alone DEF Things, Touched

(* A step is one of a call and notes who met whom, a death, or nothing.      *)
Moves(c) == Request(c) \/ Continue(c)
(* A step is a move of one caller, a death or nothing.                       *)
LEMMA StepIs ==
  ASSUME [Next]_vars
  PROVE  \/ raced' = raced \cup Clash' /\ \E c \in Caller : Moves(c)
         \/ Crash \/ UNCHANGED vars
BY DEF Next, Moves

(* Clashes are noted at every step and never forgotten.                      *)
LEMMA ApartKept ==
  ASSUME Apart, [Next]_vars
  PROVE  Apart' /\ raced \subseteq raced'
<1>1. CASE raced' = raced \cup Clash'
  BY <1>1 DEF Apart
<1>2. CASE Crash
  <2>1. raced \subseteq raced' /\ call' = [c \in Caller |-> Idle]
    BY <1>2 DEF Crash
  <2>2. \A c \in Caller : Touched(c)' = {}
    BY <2>1 DEF Touched, Todo, Idle, NoRows
  <2>3. Clash' = {}
    BY <2>2 DEF Clash
  <2>4. QED BY <2>1, <2>3 DEF Apart
<1>3. CASE UNCHANGED vars
  <2>1. raced' = raced /\ call' = call
    BY <1>3 DEF vars
  <2>2. Clash' = Clash
    BY <2>1 DEF Clash, Touched, Todo
  <2>3. QED BY <2>1, <2>2 DEF Apart
<1>4. QED BY <1>1, <1>2, <1>3, StepIs

(* Iterations are only added, by calls that are about to.                    *)
IterStep(c) ==
  \/ iters' = iters
  \/ /\ call[c].at = "iterate"
     /\ iters' = iters \cup {[plan |-> P(c), cand |-> X(c), node |-> call[c].node]}

(* Writing rows keeps the rest.                                              *)
LEMMA DecisionStep ==
  ASSUME TypeOK, CallsFit, DecisionInv, NEW c \in Caller, Table(c), raced \subseteq raced',
         TypeOK', CallsFit', IterStep(c)
  PROVE  Fresh' /\ Earned' /\ Credited' /\ RejectionsStand'
<1>0. call[c] \in Call /\ Fits(call[c])
  BY DEF TypeOK, CallsFit
<1> USE DEF DecisionInv
<1>1. ASSUME NEW x \in Cand, x \notin raced, Written1(c, x)
      PROVE  /\ \A b \in Caller \ {c} : x \notin Todo(b)
             /\ call[c].at \notin {"save", "store"} =>
                  call[c].copy[x] = rows[x] /\ x \notin rejected
  <2>1. x \in Todo(c)
    BY <1>1 DEF Written1
  <2>2. \A b \in Caller \ {c} : x \notin Todo(b)
    BY <1>1, <2>1, AloneOnRow
  <2>3. ASSUME call[c].at \notin {"save", "store"}
        PROVE  call[c].copy[x] = rows[x] /\ x \notin rejected
    <3>1. call[c].copy[x] = rows[x]
      BY <1>1, <2>1, <2>3 DEF Fresh
    <3>2. call[c].copy[x].status # "rejected"
      BY <1>0, <2>1, <2>3 DEF Fits, CopyFits, Todo
    <3>3. QED BY <1>1, <3>1, <3>2 DEF RejectionsStand
  <2>4. QED BY <2>2, <2>3
<1>2. Fresh'
  <2> SUFFICES ASSUME NEW b \in Caller, NEW x \in Cand, x \notin raced,
                      (x \in Todo(b))', call'[b].at \notin {"save", "store"}
               PROVE  call'[b].copy[x] = rows'[x]
    BY DEF Fresh
  <2>1. call'[b].copy[x] # NoRow
    BY DEF Todo
  <2>2. CASE b = c
    <3>1. rows'[x] = rows[x]
      BY <2>1, <2>2 DEF Table, RowStep, Kept1, Written1
    <3>2. \/ call'[c].copy[x] = rows[x]
          \/ call'[c].copy[x] = call[c].copy[x] /\ call[c].at \notin {"save", "store"}
      BY <2>1, <2>2 DEF Table, CopyStep
    <3>3. QED BY <2>1, <2>2, <3>1, <3>2 DEF Fresh, Todo
  <2>3. CASE b # c
    <3>1. call'[b] = call[b]
      BY <2>3 DEF Table
    <3>2. x \in Todo(b) /\ call[b].copy[x] = rows[x]
      BY <2>1, <3>1 DEF Fresh, Todo
    <3>3. rows'[x] = rows[x]
      BY <1>1, <2>3, <3>2 DEF Table, RowStep, Kept1
    <3>4. QED BY <3>1, <3>2, <3>3
  <2>4. QED BY <2>2, <2>3
<1>3. Earned'
  <2>0. approved \subseteq approved'
    BY DEF Table
  <2>1. ASSUME NEW x \in Cand PROVE Had(rows'[x], x, approved')
    <3>1. CASE Kept1(x)
      BY <2>0, <3>1 DEF Kept1, Earned, Had
    <3>2. CASE Written1(c, x) /\ ~Contracted1(c, x)
      BY <3>2 DEF Written1, Stored1, Judged1, Approved1, Had
    <3>3. CASE Contracted1(c, x)
      <4>1. <<P(c), X(c)>> \in approved
        BY <3>3 DEF Contracted1, Earned, Spends
      <4>2. QED BY <2>0, <3>3, <4>1 DEF Contracted1, Had
    <3>4. QED BY <3>1, <3>2, <3>3 DEF Table, RowStep
  <2>2. ASSUME NEW b \in Caller, NEW x \in Cand, call'[b].copy[x] # NoRow
        PROVE  Had(call'[b].copy[x], x, approved')
    <3>1. CASE b = c
      <4>1. \/ call'[c].copy[x] = rows[x]
            \/ call'[c].copy[x] = call[c].copy[x]
            \/ call'[c].copy[x].status \in {"verified", "rejected"}
        BY <2>2, <3>1 DEF Table, CopyStep
      <4>2. QED BY <2>0, <2>2, <3>1, <4>1 DEF Earned, Had, Todo
    <3>2. CASE b # c
      <4>1. call'[b] = call[b]
        BY <3>2 DEF Table
      <4>2. QED BY <2>0, <2>2, <4>1 DEF Earned, Had, Todo
    <3>3. QED BY <3>1, <3>2
  <2>3. ASSUME NEW b \in Caller, call'[b].at \in Spends
        PROVE  <<call'[b].plan, call'[b].cand>> \in approved'
    <3>1. CASE b = c
      BY <2>0, <2>3, <3>1 DEF Table, SpendStep, Earned, Had, P, X
    <3>2. CASE b # c
      <4>1. call'[b] = call[b]
        BY <3>2 DEF Table
      <4>2. QED BY <2>0, <2>3, <4>1 DEF Earned, P, X
    <3>3. QED BY <3>1, <3>2
  <2>4. ASSUME NEW i \in iters' PROVE <<i.plan, i.cand>> \in approved'
    BY <2>0, <2>4 DEF IterStep, Earned, Spends
  <2>5. QED BY <2>1, <2>2, <2>3, <2>4 DEF Earned, Todo, P, X
<1>4. Credited'
  <2> SUFFICES ASSUME NEW x \in Cand, x \notin raced
               PROVE  credit'[x] >= 0 /\ (rows'[x].status = "approved" => credit'[x] >= 1)
    BY DEF Credited
  <2>1. credit[x] \in Int /\ credit[x] >= 0 /\ (rows[x].status = "approved" => credit[x] >= 1)
    BY DEF Credited, TypeOK
  <2>2. CASE Kept1(x)
    BY <2>1, <2>2 DEF Kept1
  <2>3. CASE Written1(c, x)
    <3>1. CASE Stored1(c, x)
      BY <3>1 DEF Stored1
    <3>2. CASE Judged1(c, x)
      BY <2>1, <3>2 DEF Judged1
    <3>3. CASE Approved1(c, x)
      BY <2>1, <3>3 DEF Approved1
    <3>4. CASE Contracted1(c, x)
      BY <1>1, <2>1, <2>3, <3>4 DEF Contracted1
    <3>5. QED BY <2>3, <3>1, <3>2, <3>3, <3>4 DEF Written1
  <2>4. QED BY <2>2, <2>3 DEF Table, RowStep
<1>5. RejectionsStand'
  <2> SUFFICES ASSUME NEW x \in Cand, x \notin raced, x \in rejected'
               PROVE  rows'[x].status = "rejected"
    BY DEF RejectionsStand, TypeOK
  <2>1. CASE Kept1(x)
    BY <2>1 DEF Kept1, RejectionsStand
  <2>2. CASE Written1(c, x)
    BY <1>1, <2>2 DEF Written1, Stored1, Judged1, Approved1, Contracted1
  <2>3. QED BY <2>1, <2>2 DEF Table, RowStep
<1>6. QED BY <1>2, <1>3, <1>4, <1>5

(* Iterations are only made by a call that iterates.                         *)
LEMMA ItersAre ==
  ASSUME NEW c \in Caller, Moves(c)
  PROVE  IterStep(c)
<1>1. CASE Request(c)
  BY <1>1
     DEF IterStep, Request, PlanNext, ReviewPlan, RankPlan, Approve, Reject,
         Generate, StartAgain, SetBudget, stored
<1>2. CASE Continue(c)
  BY <1>2
     DEF IterStep, Continue, Configure, Ask, Save, Store, List, ReviewOne,
         RankOne, ApproveOne, RejectOne, ContractRefused, Contract, Charge, Pay,
         PutNode, Iterate, Limit, Doing, stored
<1>3. QED BY <1>1, <1>2 DEF Moves

(* Every move is one of the table.                                           *)
LEMMA MovesTable ==
  ASSUME TypeOK, CallsFit, NEW c \in Caller, Moves(c)
  PROVE  Table(c)
BY RequestTable, ContinueTable DEF Moves

(* A contract is made only for a candidate a human has approved, one for     *)
(* each approval at most, and a rejection stands.                            *)
THEOREM DecisionsHold == Spec => []DecisionsStand
<1>1. Init => DecisionInv
  <2> SUFFICES ASSUME Init PROVE DecisionInv
    OBVIOUS
  <2>1. \A c \in Caller : call[c] = Idle /\ Touched(c) = {} /\ Todo(c) = {}
    BY DEF Init, Touched, Todo, Idle, NoRows
  <2>2. Apart
    BY <2>1 DEF Apart, Clash
  <2>3. Fresh /\ RejectionsStand
    BY <2>1 DEF Fresh, Init, RejectionsStand
  <2>4. Earned /\ Credited
    BY <2>1 DEF Earned, Credited, Had, Init, NoRows, NoRow, Idle, Spends
  <2>5. QED BY <2>2, <2>3, <2>4 DEF DecisionInv
<1>2. TypeOK /\ CallsFit /\ (TypeOK /\ CallsFit)' /\ DecisionInv /\ [Next]_vars
        => DecisionInv'
  <2> SUFFICES ASSUME TypeOK, CallsFit, TypeOK', CallsFit', DecisionInv, [Next]_vars
               PROVE  DecisionInv'
    OBVIOUS
  <2>1. Apart' /\ raced \subseteq raced'
    BY ApartKept DEF DecisionInv
  <2>2. CASE \E c \in Caller : Moves(c)
    <3>1. PICK c \in Caller : Moves(c)
      BY <2>2
    <3>2. Table(c)
      BY <3>1, MovesTable
    <3>3. IterStep(c)
      BY <3>1, ItersAre
    <3>4. Fresh' /\ Earned' /\ Credited' /\ RejectionsStand'
      BY <2>1, <3>2, <3>3, DecisionStep
    <3>5. QED BY <2>1, <3>4 DEF DecisionInv
  <2>3. CASE Crash
    <3>1. /\ \A c \in Caller : call'[c] = Idle
          /\ UNCHANGED <<rows, iters, approved, credit, rejected>>
      BY <2>3 DEF Crash, stored, past
    <3>2. \A c \in Caller : Todo(c)' = {} /\ call'[c].at \notin Spends
      BY <3>1 DEF Todo, Idle, NoRows, Spends
    <3>3. Fresh' /\ Earned'
      BY <3>1, <3>2 DEF DecisionInv, Fresh, Earned
    <3>4. Credited' /\ RejectionsStand'
      BY <2>1, <3>1 DEF DecisionInv, Credited, RejectionsStand
    <3>5. QED BY <2>1, <3>3, <3>4 DEF DecisionInv
  <2>4. CASE UNCHANGED vars
    BY <2>4
       DEF vars, stored, past, DecisionInv, Apart, Clash, Touched, Todo, Fresh,
           Earned, Had, Credited, RejectionsStand, P, X
  <2>5. QED BY <2>2, <2>3, <2>4, StepIs
<1>3. DecisionInv => DecisionsStand
  BY DEF DecisionInv, Earned, Credited, DecisionsStand, ContractsEarned
<1>4. QED BY <1>1, <1>2, <1>3, TypeCorrect, PTL DEF Spec

-----------------------------------------------------------------------------
(* What is charged and owed is what contracts were made; a read that is      *)
(* about to be written back is of the present unless two met on the budget.  *)
BudgetInv ==
  /\ Apart /\ IsFiniteSet(Owing)
  /\ used + Cardinality(Owing) <= spent
  /\ \A c \in Caller :
       call[c].at \in {"pay", "limit"} => call[c].read + Cardinality(Owing) <= spent
  /\ "budget" \notin raced =>
       /\ used + Cardinality(Owing) = spent
       /\ \A c \in Caller : call[c].at \in {"pay", "limit"} => call[c].read = used

(* What a step does to the budget.                                           *)
BudgetMove(c) ==
  \/ /\ call[c].at = "contract" /\ call'[c].at = "charge"
     /\ used' = used /\ spent' = spent + 1
  \/ /\ call[c].at \in {"idle", "charge"}
     /\ call'[c].at = (IF call[c].at = "idle" THEN "limit" ELSE "pay")
     /\ call'[c].read = used /\ used' = used /\ spent' = spent
  \/ /\ call[c].at = "pay" /\ call'[c].at \notin {"charge", "pay", "limit"}
     /\ used' = call[c].read + 1 /\ spent' = spent
  \/ /\ call[c].at = "limit" /\ call'[c].at = "idle"
     /\ used' = call[c].read /\ spent' = spent
  \/ /\ call[c].at \notin {"charge", "pay"}
     /\ call'[c].at \notin {"charge", "pay", "limit"}
     /\ used' = used /\ spent' = spent

(* Where the first step of a request leads.                                  *)
LEMMA RequestBegins ==
  ASSUME TypeOK, NEW c \in Caller, Request(c), ~SetBudget(c)
  PROVE  call'[c].at \in {"configure", "rank", "approve", "reject", "contract", "node"}
<1>1. CASE PlanNext(c) \/ ReviewPlan(c) \/ RankPlan(c)
  <2>1. PICK r : call' = [call EXCEPT ![c] = r] /\ r.at \in {"configure", "rank"}
    <3>1. CASE PlanNext(c)
      <4>1. PICK p \in Plan, m \in Mode :
              Begin(c, [Idle EXCEPT !.at = "configure", !.plans = TRUE, !.plan = p,
                                    !.mode = m, !.read = Remaining])
        BY <3>1 DEF PlanNext
      <4>2. PICK r : r = [Idle EXCEPT !.at = "configure", !.plans = TRUE, !.plan = p,
                                      !.mode = m, !.read = Remaining]
        OBVIOUS
      <4>3. r.at = "configure"
        BY <4>2 DEF Idle
      <4>4. QED BY <4>1, <4>2, <4>3 DEF Begin
    <3>2. CASE ReviewPlan(c)
      <4>1. PICK p \in Plan, m \in Mode :
              Begin(c, [Idle EXCEPT !.at = "configure", !.plan = p, !.mode = m])
        BY <3>2 DEF ReviewPlan
      <4>2. PICK r : r = [Idle EXCEPT !.at = "configure", !.plan = p, !.mode = m]
        OBVIOUS
      <4>3. r.at = "configure"
        BY <4>2 DEF Idle
      <4>4. QED BY <4>1, <4>2, <4>3 DEF Begin
    <3>3. CASE RankPlan(c)
      <4>1. PICK p \in Plan, k \in SUBSET Cand :
              /\ k \subseteq RowsOf(p)
              /\ Begin(c, [Idle EXCEPT !.at = "rank", !.plan = p,
                             !.copy = Copies(k \cup {x \in RowsOf(p) : Falls(x)}),
                             !.keep = k])
        BY <3>3 DEF RankPlan, RowsOf
      <4>2. PICK d : d = Copies(k \cup {x \in RowsOf(p) : Falls(x)})
        OBVIOUS
      <4>3. PICK r : r = [Idle EXCEPT !.at = "rank", !.plan = p, !.copy = d, !.keep = k]
        OBVIOUS
      <4>4. r.at = "rank"
        BY <4>3 DEF Idle
      <4>5. QED BY <4>1, <4>2, <4>3, <4>4 DEF Begin
    <3>4. QED BY <1>1, <3>1, <3>2, <3>3
  <2>2. QED BY <2>1 DEF TypeOK
<1>2. CASE Approve(c) \/ Reject(c)
  BY ZenonT(30), <1>2 DEF Approve, Reject, Begin, TypeOK, Take, Idle
<1>3. CASE Generate(c)
  <2>1. PICK p \in Plan, n \in 1..MaxNodes, b \in BOOLEAN, x \in Cand :
          Begin(c, [Take("contract", p, x) EXCEPT !.node = n, !.starts = b])
    BY <1>3 DEF Generate, RowsOf
  <2>2. PICK r : r = [Take("contract", p, x) EXCEPT !.node = n, !.starts = b]
    OBVIOUS
  <2>3. r.at = "contract"
    BY <2>2 DEF Take, Idle
  <2>4. QED BY <2>1, <2>2, <2>3 DEF Begin, TypeOK
<1>4. CASE StartAgain(c)
  <2>1. PICK p \in Plan, n \in 1..MaxNodes, x \in Cand :
          Begin(c, [Take("node", p, x) EXCEPT !.node = n, !.starts = TRUE])
    BY <1>4 DEF StartAgain, RowsOf
  <2>2. PICK r : r = [Take("node", p, x) EXCEPT !.node = n, !.starts = TRUE]
    OBVIOUS
  <2>3. r.at = "node"
    BY <2>2 DEF Take, Idle
  <2>4. QED BY <2>1, <2>2, <2>3 DEF Begin, TypeOK
<1>5. QED BY <1>1, <1>2, <1>3, <1>4 DEF Request

(* A step is one of these moves.                                             *)
LEMMA BudgetMoves ==
  ASSUME TypeOK, CallsFit, NEW c \in Caller, Moves(c)
  PROVE  BudgetMove(c)
<1>0. call[c] \in Call
  BY DEF TypeOK
<1> USE DEF BudgetMove, stored, past, Doing
<1>1. CASE SetBudget(c)
  <2>1. PICK r : r = [Idle EXCEPT !.at = "limit", !.read = used]
    OBVIOUS
  <2>2. r.at = "limit" /\ r.read = used
    BY <2>1 DEF Idle
  <2>3. call[c].at = "idle" /\ call'[c] = r
    BY <1>1, <2>1 DEF SetBudget, Begin, TypeOK
  <2>4. QED BY <1>1, <2>2, <2>3 DEF SetBudget
<1>2. CASE Request(c) /\ ~SetBudget(c)
  <2>1. UNCHANGED <<used, spent>> /\ call[c].at = "idle"
    BY <1>2
       DEF Request, PlanNext, ReviewPlan, RankPlan, Approve, Reject, Generate,
           StartAgain, Begin
  <2>2. call'[c].at \in {"configure", "rank", "approve", "reject", "contract", "node"}
    BY <1>2, RequestBegins
  <2>3. QED BY <2>1, <2>2
<1>3. CASE Contract(c) \/ Charge(c)
  BY <1>0, <1>3 DEF Contract, Charge, TypeOK, Call
<1>4. CASE Pay(c)
  <2>1. CASE Return(c)
    BY <1>4, <2>1, ReturnIs DEF Pay
  <2>2. CASE ~Return(c)
    BY <1>0, <1>4, <2>2 DEF Pay, TypeOK, Call
  <2>3. QED BY <2>1, <2>2
<1>5. CASE Limit(c)
  BY <1>5, ReturnIs DEF Limit
<1>6. CASE Store(c) \/ ReviewOne(c) \/ RankOne(c)
  <2>1. UNCHANGED <<used, spent>> /\ call[c].at \in {"store", "review", "rank"}
    BY <1>6 DEF Store, ReviewOne, RankOne
  <2>2. call'[c].at \in {"store", "review", "rank", "idle"}
    BY <1>6, <2>1, WrittenIs, ReturnIs DEF Store, ReviewOne, RankOne, Todo
  <2>3. QED BY <2>1, <2>2
<1>7. CASE ApproveOne(c) \/ RejectOne(c) \/ ContractRefused(c) \/ Iterate(c)
  BY <1>7, ReturnIs DEF ApproveOne, RejectOne, ContractRefused, Iterate
<1>8. CASE Configure(c) \/ Ask(c) \/ Save(c) \/ List(c)
  <2>1. UNCHANGED <<used, spent>> /\ call[c].at \in {"configure", "ask", "save", "list"}
    BY <1>8 DEF Configure, Ask, Save, List
  <2>2. CASE Return(c)
    BY <2>1, <2>2, ReturnIs
  <2>3. CASE ~Return(c)
    <3>1. PICK r : /\ call' = [call EXCEPT ![c] = r]
                   /\ r.at \in {"ask", "list", "save", "store", "review"}
      <4>1. CASE Configure(c)
        <5>1. PICK l \in {"ask", "list"} : call' = [call EXCEPT ![c].at = l]
          BY <2>3, <4>1 DEF Configure, Goto
        <5>2. PICK r : r = [call[c] EXCEPT !.at = l]
          OBVIOUS
        <5>3. r.at = l
          BY <1>0, <5>2 DEF Call
        <5>4. QED BY <5>1, <5>2, <5>3
      <4>2. CASE Ask(c)
        <5>1. PICK d : call' = [call EXCEPT ![c].at = "save", ![c].maker = provider,
                                            ![c].copy = d, ![c].read = 0]
          BY <2>3, <4>2 DEF Ask
        <5>2. PICK r : r = [call[c] EXCEPT !.at = "save", !.maker = provider,
                                           !.copy = d, !.read = 0]
          OBVIOUS
        <5>3. r.at = "save"
          BY <1>0, <5>2 DEF Call
        <5>4. QED BY <5>1, <5>2, <5>3
      <4>3. CASE Save(c)
        <5>1. PICK r : r = [Idle EXCEPT !.at = "store", !.plan = P(c), !.copy = call[c].copy]
          OBVIOUS
        <5>2. r.at = "store"
          BY <5>1 DEF Idle
        <5>3. QED BY <2>3, <4>3, <5>1, <5>2 DEF Save
      <4>4. CASE List(c)
        <5>1. PICK d : d = Copies(Eligible(P(c)))
          OBVIOUS
        <5>2. PICK r : r = [Idle EXCEPT !.at = "review", !.plan = P(c), !.copy = d]
          OBVIOUS
        <5>3. r.at = "review"
          BY <5>2 DEF Idle
        <5>4. QED BY <2>3, <4>4, <5>1, <5>2, <5>3 DEF List
      <4>5. QED BY <1>8, <4>1, <4>2, <4>3, <4>4
    <3>2. QED BY <2>1, <3>1 DEF TypeOK
  <2>4. QED BY <2>2, <2>3
<1>9. CASE PutNode(c)
  BY <1>0, <1>9 DEF PutNode, TypeOK, Call
<1>10. QED
  BY <1>1, <1>2, <1>3, <1>4, <1>5, <1>6, <1>7, <1>8, <1>9
     DEF Moves, Request, Continue

(* Owing gains a call that makes its contract and loses one that pays.       *)
LEMMA OwingIs ==
  ASSUME TypeOK, TypeOK', NEW c \in Caller, IsFiniteSet(Owing),
         \A b \in Caller \ {c} : call'[b] = call[b]
  PROVE  /\ IsFiniteSet(Owing') /\ Cardinality(Owing) \in Nat /\ Cardinality(Owing') \in Nat
         /\ Cardinality(Owing') - Cardinality(Owing) =
              (IF call'[c].at \in {"charge", "pay"} THEN 1 ELSE 0)
              - (IF call[c].at \in {"charge", "pay"} THEN 1 ELSE 0)
<1>1. Owing' = IF call'[c].at \in {"charge", "pay"} THEN Owing \cup {c} ELSE Owing \ {c}
  BY DEF Owing
<1>2. c \in Owing <=> call[c].at \in {"charge", "pay"}
  BY DEF Owing
<1>3. /\ IsFiniteSet(Owing \cup {c}) /\ IsFiniteSet(Owing \ {c})
      /\ Cardinality(Owing \cup {c}) =
           IF c \in Owing THEN Cardinality(Owing) ELSE Cardinality(Owing) + 1
      /\ Cardinality(Owing \ {c}) =
           IF c \in Owing THEN Cardinality(Owing) - 1 ELSE Cardinality(Owing)
  BY FS_AddElement, FS_RemoveElement
<1>4. IsFiniteSet(Owing')
  BY <1>1, <1>3
<1>5. Cardinality(Owing) \in Nat /\ Cardinality(Owing') \in Nat
  BY <1>4, FS_CardinalityType
<1>6. CASE call'[c].at \in {"charge", "pay"}
  BY <1>1, <1>2, <1>3, <1>4, <1>5, <1>6
<1>7. CASE call'[c].at \notin {"charge", "pay"}
  BY <1>1, <1>2, <1>3, <1>4, <1>5, <1>7
<1>8. QED BY <1>6, <1>7

(* Only one call at a time is about to write a budget that is not raced for. *)
LEMMA OnBudget ==
  ASSUME Apart, "budget" \notin raced, NEW a \in Caller, NEW b \in Caller,
         call[a].at \in {"pay", "limit"}, call[b].at \in {"pay", "limit"}
  PROVE  a = b
<1>1. "budget" \in Touched(a) /\ "budget" \in Touched(b) /\ "budget" \in Things
  BY DEF Touched, Things
<1>2. QED BY <1>1, Alone

(* The budget is charged once for every contract, or lost between two calls  *)
(* or in a death, and never more.                                            *)
THEOREM BudgetHolds == Spec => []BudgetKept
<1>1. Init => BudgetInv
  <2> SUFFICES ASSUME Init PROVE BudgetInv
    OBVIOUS
  <2>1. \A c \in Caller : call[c].at = "idle" /\ Touched(c) = {}
    BY DEF Init, Touched, Todo, Idle, NoRows
  <2>2. Owing = {} /\ Clash = {}
    BY <2>1 DEF Owing, Clash
  <2>3. QED BY <2>1, <2>2, FS_EmptySet DEF BudgetInv, Apart, Init
<1>2. TypeOK /\ CallsFit /\ (TypeOK /\ CallsFit)' /\ BudgetInv /\ [Next]_vars => BudgetInv'
  <2> SUFFICES ASSUME TypeOK, CallsFit, TypeOK', CallsFit', BudgetInv, [Next]_vars
               PROVE  BudgetInv'
    OBVIOUS
  <2>1. Apart /\ Apart' /\ raced \subseteq raced' /\ IsFiniteSet(Owing)
    BY ApartKept DEF BudgetInv
  <2>2. CASE \E c \in Caller : Moves(c)
    <3>1. PICK c \in Caller : Moves(c)
      BY <2>2
    <3>2. BudgetMove(c) /\ \A b \in Caller \ {c} : call'[b] = call[b]
      BY <3>1, BudgetMoves, MovesTable DEF Table
    <3>3. PICK m \in Nat : m = Cardinality(Owing)
      BY <2>1, FS_CardinalityType
    <3>4. PICK n \in Nat : n = Cardinality(Owing')
      BY <2>1, <3>2, OwingIs
    <3>5. IsFiniteSet(Owing')
          /\ n - m = (IF call'[c].at \in {"charge", "pay"} THEN 1 ELSE 0)
                     - (IF call[c].at \in {"charge", "pay"} THEN 1 ELSE 0)
      BY <2>1, <3>2, <3>3, <3>4, OwingIs
    <3>6. used \in Nat /\ used' \in Nat /\ spent \in Nat /\ spent' \in Nat
      BY PlanningBounds DEF TypeOK
    <3>7. \A b \in Caller : call[b].read \in Nat /\ call'[b].read \in Nat
      BY DEF TypeOK, Call
    <3>8. /\ used + m <= spent
          /\ \A b \in Caller : call[b].at \in {"pay", "limit"} => call[b].read + m <= spent
      BY <3>3 DEF BudgetInv
    <3>8a. \/ n = m + 1 /\ used' = used /\ spent' = spent + 1
           \/ n = m /\ used' = used /\ spent' = spent
           \/ n = m - 1 /\ used' = call[c].read + 1 /\ spent' = spent /\ call[c].at = "pay"
           \/ n = m /\ used' = call[c].read /\ spent' = spent /\ call[c].at = "limit"
      BY <3>2, <3>3, <3>4, <3>5 DEF BudgetMove
    <3>9. used' + n <= spent'
      BY <3>8a, <3>3, <3>4, <3>6, <3>7, <3>8
    <3>10. ASSUME NEW b \in Caller, call'[b].at \in {"pay", "limit"}
           PROVE  call'[b].read + n <= spent'
      BY <3>2, <3>5, <3>6, <3>7, <3>8, <3>10 DEF BudgetMove
    <3>11. ASSUME "budget" \notin raced'
           PROVE  /\ used' + n = spent'
                  /\ \A b \in Caller : call'[b].at \in {"pay", "limit"} => call'[b].read = used'
      <4>1. /\ "budget" \notin raced /\ used + m = spent
            /\ \A b \in Caller : call[b].at \in {"pay", "limit"} => call[b].read = used
        BY <2>1, <3>3, <3>11 DEF BudgetInv
      <4>2. used' + n = spent'
        BY <3>8a, <3>3, <3>4, <3>6, <3>7, <4>1
      <4>3. ASSUME NEW b \in Caller, call'[b].at \in {"pay", "limit"}
            PROVE  call'[b].read = used'
        <5>1. CASE b = c
          BY <3>2, <4>3, <5>1 DEF BudgetMove
        <5>2. CASE b # c
          <6>1. call[b].at \in {"pay", "limit"} /\ call'[b].read = used
            BY <3>2, <4>1, <4>3, <5>2
          <6>2. call[c].at \notin {"pay", "limit"}
            BY <2>1, <4>1, <5>2, <6>1, OnBudget
          <6>3. QED BY <3>2, <6>1, <6>2 DEF BudgetMove
        <5>3. QED BY <5>1, <5>2
      <4>4. QED BY <4>2, <4>3
    <3>12. QED BY <2>1, <3>4, <3>5, <3>9, <3>10, <3>11 DEF BudgetInv
  <2>3. CASE Crash
    <3>1. /\ \A c \in Caller : call'[c].at = "idle"
          /\ UNCHANGED <<used, spent>>
          /\ raced' = IF Owing = {} THEN raced ELSE raced \cup {"budget"}
      BY <2>3 DEF Crash, stored, past, Idle
    <3>2. Owing' = {}
      BY <3>1 DEF Owing
    <3>3. IsFiniteSet(Owing') /\ Cardinality(Owing') = 0 /\ Cardinality(Owing) \in Nat
          /\ (Owing = {} => Cardinality(Owing) = 0)
      BY <2>1, <3>2, FS_EmptySet, FS_CardinalityType
    <3>4. used \in Nat /\ spent \in Nat
      BY PlanningBounds DEF TypeOK
    <3>5. used' + Cardinality(Owing') <= spent'
      BY <3>1, <3>3, <3>4 DEF BudgetInv
    <3>6. "budget" \notin raced' => used' + Cardinality(Owing') = spent'
      BY <3>1, <3>3, <3>4 DEF BudgetInv
    <3>7. QED BY <2>1, <3>1, <3>3, <3>5, <3>6 DEF BudgetInv
  <2>4. CASE UNCHANGED vars
    <3>1. Owing' = Owing
      BY <2>4 DEF vars, Owing
    <3>2. QED BY <2>1, <2>4, <3>1 DEF vars, stored, past, BudgetInv
  <2>5. QED BY <2>2, <2>3, <2>4, StepIs
<1>3. TypeOK /\ BudgetInv => BudgetKept
  <2> SUFFICES ASSUME TypeOK, BudgetInv PROVE BudgetKept
    OBVIOUS
  <2>1. used \in Nat /\ spent \in Nat /\ Cardinality(Owing) \in Nat
    BY PlanningBounds, FS_CardinalityType DEF TypeOK, BudgetInv
  <2>2. QED BY <2>1 DEF BudgetInv, BudgetKept
<1>4. QED BY <1>1, <1>2, <1>3, TypeCorrect, PTL DEF Spec

-----------------------------------------------------------------------------
(* A call that starts has found its node free and then filled it, and no     *)
(* other has filled it unless two starts met.                                *)
NodesInv ==
  /\ Apart
  /\ \A i \in iters : nodes[i.node] # None
  /\ \A c \in Caller : call[c].at = "iterate" => nodes[call[c].node] # None
  /\ "nodes" \notin raced =>
       /\ \A i \in iters : nodes[i.node] = <<i.plan, i.cand>>
       /\ \A c \in Caller : call[c].starts =>
            nodes[call[c].node] = IF call[c].at = "iterate" THEN <<P(c), X(c)>> ELSE None

(* Nodes are filled by the call that goes on to iterate, and by no other.    *)
NodeMove(c) ==
  \/ nodes' = nodes /\ call'[c].at # "iterate"
  \/ /\ call[c].at = "node" /\ call'[c].at = "iterate"
     /\ nodes' = [nodes EXCEPT ![call[c].node] = <<P(c), X(c)>>]

(* A step is one of these.                                                   *)
LEMMA NodeMoves ==
  ASSUME TypeOK, CallsFit, NEW c \in Caller, Moves(c)
  PROVE  NodeMove(c)
<1>0. call[c] \in Call
  BY DEF TypeOK
<1>1. CASE PutNode(c)
  BY <1>0, <1>1 DEF PutNode, Doing, NodeMove, TypeOK, Call
<1>2. CASE Moves(c) /\ ~PutNode(c)
  <2>1. nodes' = nodes
    <3>1. CASE Request(c)
      BY <3>1
         DEF Request, PlanNext, ReviewPlan, RankPlan, Approve, Reject, Generate,
             StartAgain, SetBudget, stored
    <3>2. CASE Continue(c) /\ ~PutNode(c)
      BY <3>2
         DEF Continue, Configure, Ask, Save, Store, List, ReviewOne, RankOne,
             ApproveOne, RejectOne, ContractRefused, Contract, Charge, Pay,
             Iterate, Limit, stored
    <3>3. QED BY <1>2, <3>1, <3>2 DEF Moves
  <2>2. call[c].at = "node" => PutNode(c)
    BY <1>2
       DEF Moves, Request, PlanNext, ReviewPlan, RankPlan, Approve, Reject,
           Generate, StartAgain, SetBudget, Begin, Continue, Configure, Ask,
           Save, Store, List, ReviewOne, RankOne, ApproveOne, RejectOne,
           ContractRefused, Contract, Charge, Pay, Iterate, Limit, Doing
  <2>3. call[c].at = "iterate" => Iterate(c)
    BY <1>2
       DEF Moves, Request, PlanNext, ReviewPlan, RankPlan, Approve, Reject,
           Generate, StartAgain, SetBudget, Begin, Continue, Configure, Ask,
           Save, Store, List, ReviewOne, RankOne, ApproveOne, RejectOne,
           ContractRefused, Contract, Charge, Pay, Limit, Doing
  <2>4. call'[c].at # "iterate"
    <3>1. CASE call[c].at \in {"contract", "charge", "pay", "iterate"}
      <4>1. CASE Contract(c) \/ Charge(c)
        BY <1>0, <4>1 DEF Contract, Charge, TypeOK, Call
      <4>2. CASE Pay(c)
        BY <1>0, <4>2 DEF Pay, Return, Idle, TypeOK, Call
      <4>3. CASE ContractRefused(c) \/ Iterate(c)
        BY <4>3, ReturnIs DEF ContractRefused, Iterate
      <4>4. ContractRefused(c) \/ Contract(c) \/ Charge(c) \/ Pay(c) \/ Iterate(c)
        BY <1>2, <3>1
           DEF Moves, Request, PlanNext, ReviewPlan, RankPlan, Approve, Reject,
               Generate, StartAgain, SetBudget, Begin, Continue, Configure, Ask,
               Save, Store, List, ReviewOne, RankOne, ApproveOne, RejectOne,
               Limit, Doing
      <4>5. QED BY <4>1, <4>2, <4>3, <4>4
    <3>2. CASE call[c].at \notin {"contract", "charge", "pay", "node", "iterate"}
      BY <1>2, <3>2, MovesTable DEF Table, SpendStep, Spends
    <3>3. QED BY <1>2, <2>2, <3>1, <3>2
  <2>5. QED BY <2>1, <2>4 DEF NodeMove
<1>3. QED BY <1>1, <1>2

(* A call that has made its iteration is over.                               *)
LEMMA IterateEnds ==
  ASSUME TypeOK, NEW c \in Caller, Moves(c), call[c].at = "iterate"
  PROVE  call'[c].at = "idle"
<1>1. Iterate(c)
  BY DEF Moves, Request, PlanNext, ReviewPlan, RankPlan, Approve, Reject,
     Generate, StartAgain, SetBudget, Begin, Continue, Configure, Ask, Save,
     Store, List, ReviewOne, RankOne, ApproveOne, RejectOne, ContractRefused,
     Contract, Charge, Pay, PutNode, Limit, Doing
<1>2. QED BY <1>1, ReturnIs DEF Iterate

(* Only one call at a time starts if starts were not raced.                  *)
LEMMA OnNodes ==
  ASSUME Apart, "nodes" \notin raced, NEW a \in Caller, NEW b \in Caller,
         call[a].starts, call[b].starts
  PROVE  a = b
<1>1. "nodes" \in Touched(a) /\ "nodes" \in Touched(b) /\ "nodes" \in Things
  BY DEF Touched, Things
<1>2. QED BY <1>1, Alone

(* An iteration's node holds the contract of its own candidate, unless two   *)
(* starts met.                                                               *)
THEOREM NodesHold == Spec => []NodesApart
<1>1. Init => NodesInv
  <2> SUFFICES ASSUME Init PROVE NodesInv
    OBVIOUS
  <2>1. \A c \in Caller : call[c].at = "idle" /\ Touched(c) = {} /\ ~call[c].starts
    BY DEF Init, Touched, Todo, Idle, NoRows
  <2>2. Clash = {}
    BY <2>1 DEF Clash
  <2>3. QED BY <2>1, <2>2 DEF NodesInv, Apart, Init
<1>2. TypeOK /\ CallsFit /\ (TypeOK /\ CallsFit)' /\ NodesInv /\ [Next]_vars => NodesInv'
  <2> SUFFICES ASSUME TypeOK, CallsFit, TypeOK', CallsFit', NodesInv, [Next]_vars
               PROVE  NodesInv'
    OBVIOUS
  <2>1. Apart /\ Apart' /\ raced \subseteq raced'
    BY ApartKept DEF NodesInv
  <2>2. CASE \E c \in Caller : Moves(c)
    <3>1. PICK c \in Caller : Moves(c)
      BY <2>2
    <3>2. NodeMove(c) /\ IterStep(c) /\ SpendStep(c)
          /\ \A b \in Caller \ {c} : call'[b] = call[b]
      BY <3>1, NodeMoves, ItersAre, MovesTable DEF Table
    <3>3. \A b \in Caller : Fits(call[b]) /\ Fits(call'[b])
      BY DEF CallsFit
    <3>4. <<P(c), X(c)>> # None \/ call[c].at \notin Decides
      BY <3>3, NoneIsNone DEF Fits, P, X, Decides, Spends
    <3>5. \A n \in 1..MaxNodes : nodes'[n] = nodes[n]
            \/ /\ call[c].at = "node" /\ call'[c].at = "iterate" /\ n = call[c].node
               /\ nodes'[n] = <<P(c), X(c)>>
      BY <3>2 DEF NodeMove, TypeOK
    <3>6. /\ \A i \in iters : i.node \in 1..MaxNodes
          /\ \A i \in iters' : i.node \in 1..MaxNodes
      BY DEF TypeOK
    <3>7. ASSUME NEW n \in 1..MaxNodes, nodes[n] # None PROVE nodes'[n] # None
      BY <3>4, <3>5, <3>7 DEF Decides, Spends
    <3>8. ASSUME NEW i \in iters' PROVE nodes'[i.node] # None
      BY <3>2, <3>6, <3>7 DEF NodesInv, IterStep
    <3>9. ASSUME NEW b \in Caller, call'[b].at = "iterate" PROVE nodes'[call'[b].node] # None
      <4>1. CASE b = c
        <5>1. call[c].at = "node" /\ call'[c].node = call[c].node
              /\ nodes' = [nodes EXCEPT ![call[c].node] = <<P(c), X(c)>>]
          BY <3>2, <3>9, <4>1 DEF NodeMove, SpendStep, Spends
        <5>2. call[c].node \in 1..MaxNodes
          BY <3>3, <5>1 DEF Fits, Spends
        <5>3. QED BY <3>4, <4>1, <5>1, <5>2 DEF TypeOK, Decides, Spends
      <4>2. CASE b # c
        <5>1. call'[b] = call[b] /\ call[b].node \in 1..MaxNodes
          BY <3>2, <3>3, <3>9, <4>2 DEF Fits, Spends
        <5>2. QED BY <3>7, <3>9, <5>1 DEF NodesInv
      <4>3. QED BY <4>1, <4>2
    <3>10. ASSUME "nodes" \notin raced'
           PROVE  /\ \A i \in iters' : nodes'[i.node] = <<i.plan, i.cand>>
                  /\ \A b \in Caller : call'[b].starts =>
                       nodes'[call'[b].node] = IF call'[b].at = "iterate"
                                               THEN <<call'[b].plan, call'[b].cand>> ELSE None
      <4>0. "nodes" \notin raced
        BY <2>1, <3>10
      <4>1. /\ \A i \in iters : nodes[i.node] = <<i.plan, i.cand>>
            /\ \A b \in Caller : call[b].starts =>
                 nodes[call[b].node] = IF call[b].at = "iterate" THEN <<P(b), X(b)>> ELSE None
        BY <4>0 DEF NodesInv
      <4>2. ASSUME NEW n \in 1..MaxNodes, nodes[n] # None PROVE nodes'[n] = nodes[n]
        BY <3>3, <3>5, <4>1, <4>2 DEF Fits
      <4>3. ASSUME NEW i \in iters' PROVE nodes'[i.node] = <<i.plan, i.cand>>
        <5>1. CASE i \in iters
          BY <3>6, <4>1, <4>2, <5>1 DEF NodesInv
        <5>2. CASE i \notin iters
          <6>1. call[c].at = "iterate" /\ i.plan = P(c) /\ i.cand = X(c)
                /\ i.node = call[c].node
            BY <3>2, <4>3, <5>2 DEF IterStep
          <6>2. call[c].starts
            BY <3>3, <6>1 DEF Fits
          <6>3. nodes[i.node] = <<P(c), X(c)>> /\ nodes[i.node] # None
            BY <4>1, <6>1, <6>2 DEF NodesInv
          <6>4. QED BY <3>6, <4>2, <4>3, <6>1, <6>3
        <5>3. QED BY <5>1, <5>2
      <4>4. ASSUME NEW b \in Caller, call'[b].starts
            PROVE  nodes'[call'[b].node] = IF call'[b].at = "iterate"
                                           THEN <<call'[b].plan, call'[b].cand>> ELSE None
        <5>1. call'[b].at \in Spends /\ call'[b].node \in 1..MaxNodes
          BY <3>3, <4>4 DEF Fits
        <5>2. CASE b = c /\ call'[c].at = "iterate"
          <6>1. call[c].at = "node" /\ call'[c].node = call[c].node
                /\ call'[c].plan = P(c) /\ call'[c].cand = X(c)
                /\ nodes' = [nodes EXCEPT ![call[c].node] = <<P(c), X(c)>>]
            BY <3>2, <5>2 DEF NodeMove, SpendStep, Spends, P, X
          <6>2. QED BY <5>1, <5>2, <6>1 DEF TypeOK
        <5>3. CASE b = c /\ call'[c].at # "iterate"
          <6>1. nodes' = nodes
            BY <3>2, <5>3 DEF NodeMove
          <6>2. CASE call'[c].node \in Free
            BY <5>3, <6>1, <6>2 DEF Free
          <6>3. CASE call'[c].node \notin Free
            <7>1. call[c].at \in Spends /\ call[c].starts /\ call'[c].node = call[c].node
              BY <3>2, <4>4, <5>1, <5>3, <6>3 DEF SpendStep
            <7>2. call[c].at # "iterate"
              BY <3>1, <5>1, <5>3, IterateEnds DEF Spends
            <7>3. QED BY <4>1, <5>3, <6>1, <7>1, <7>2
          <6>4. QED BY <6>2, <6>3
        <5>4. CASE b # c
          <6>1. call'[b] = call[b]
            BY <3>2, <5>4
          <6>2. CASE nodes' = nodes
            BY <4>1, <4>4, <6>1, <6>2 DEF P, X
          <6>3. CASE nodes' # nodes
            <7>1. call[c].starts
              BY <3>2, <3>3, <6>3 DEF NodeMove, Fits
            <7>2. QED BY <2>1, <4>0, <4>4, <5>4, <6>1, <7>1, OnNodes
          <6>4. QED BY <6>2, <6>3
        <5>5. QED BY <5>2, <5>3, <5>4
      <4>5. QED BY <4>3, <4>4
    <3>11. QED BY <2>1, <3>8, <3>9, <3>10 DEF NodesInv, P, X
  <2>3. CASE Crash
    <3>1. /\ \A c \in Caller : call'[c].at = "idle" /\ ~call'[c].starts
          /\ UNCHANGED <<nodes, iters>>
      BY <2>3 DEF Crash, stored, Idle
    <3>2. QED BY <2>1, <3>1 DEF NodesInv
  <2>4. CASE UNCHANGED vars
    BY <2>1, <2>4 DEF vars, stored, NodesInv, P, X
  <2>5. QED BY <2>2, <2>3, <2>4, StepIs
<1>3. NodesInv => NodesApart
  BY DEF NodesInv, NodesApart
<1>4. QED BY <1>1, <1>2, <1>3, TypeCorrect, PTL DEF Spec
-----------------------------------------------------------------------------
(* Everything recorded of a plan is what was asked for, and so is everything *)
(* a request under way has and will record.                                  *)
MakerInv ==
  /\ Apart
  /\ "provider" \notin raced =>
       /\ \A p \in Plan : plans[p].maker = plans[p].asked /\ plans[p].said = plans[p].asked
       /\ \A c \in Caller :
            /\ call[c].at \in {"ask", "save"} => provider = call[c].mode
            /\ call[c].at = "save" => call[c].maker = call[c].mode

(* What a step does to the provider and to what is recorded of it.           *)
MakerMove(c) ==
  \/ UNCHANGED <<provider, plans>> /\ call'[c].at \notin {"ask", "save"}
  \/ /\ call[c].at = "configure" /\ call'[c].at # "save" /\ call'[c].mode = call[c].mode
     /\ provider' = call[c].mode /\ UNCHANGED plans
  \/ /\ call[c].at = "ask" /\ call'[c].mode = call[c].mode /\ call'[c].maker = provider
     /\ UNCHANGED <<provider, plans>>
  \/ /\ call[c].at = "save" /\ call'[c].at \notin {"ask", "save"} /\ UNCHANGED provider
     /\ plans' = [plans EXCEPT ![P(c)] = [there |-> TRUE, asked |-> call[c].mode,
                                          maker |-> call[c].maker, said |-> provider]]

(* A step is one of these.                                                   *)
LEMMA MakerMoves ==
  ASSUME TypeOK, CallsFit, NEW c \in Caller, Moves(c)
  PROVE  MakerMove(c)
<1>0. call[c] \in Call
  BY DEF TypeOK
<1> USE DEF MakerMove, stored, past, Doing
<1>1. CASE SetBudget(c)
  <2>1. PICK r : r = [Idle EXCEPT !.at = "limit", !.read = used]
    OBVIOUS
  <2>2. r.at = "limit"
    BY <2>1 DEF Idle
  <2>3. call'[c] = r
    BY <1>1, <2>1 DEF SetBudget, Begin, TypeOK
  <2>4. QED BY <1>1, <2>2, <2>3 DEF SetBudget
<1>2. CASE Request(c) /\ ~SetBudget(c)
  <2>1. UNCHANGED <<provider, plans>>
    BY <1>2
       DEF Request, PlanNext, ReviewPlan, RankPlan, Approve, Reject, Generate,
           StartAgain
  <2>2. QED BY <1>2, <2>1, RequestBegins
<1>3. CASE Contract(c) \/ Charge(c) \/ PutNode(c)
  BY <1>0, <1>3 DEF Contract, Charge, PutNode, TypeOK, Call
<1>4. CASE Pay(c)
  <2>1. CASE Return(c)
    BY <1>4, <2>1, ReturnIs DEF Pay
  <2>2. CASE ~Return(c)
    BY <1>0, <1>4, <2>2 DEF Pay, TypeOK, Call
  <2>3. QED BY <2>1, <2>2
<1>5. CASE Limit(c) \/ ApproveOne(c) \/ RejectOne(c) \/ ContractRefused(c) \/ Iterate(c)
  BY <1>5, ReturnIs DEF Limit, ApproveOne, RejectOne, ContractRefused, Iterate
<1>6. CASE Store(c) \/ ReviewOne(c) \/ RankOne(c)
  <2>1. UNCHANGED <<provider, plans>> /\ call[c].at \in {"store", "review", "rank"}
    BY <1>6 DEF Store, ReviewOne, RankOne
  <2>2. call'[c].at \in {"store", "review", "rank", "idle"}
    BY <1>6, <2>1, WrittenIs, ReturnIs DEF Store, ReviewOne, RankOne, Todo
  <2>3. QED BY <2>1, <2>2
<1>7. CASE Configure(c)
  <2>1. CASE Return(c) /\ UNCHANGED provider
    BY <1>7, <2>1, ReturnIs DEF Configure
  <2>2. CASE ~(Return(c) /\ UNCHANGED provider)
    <3>1. PICK l \in {"ask", "list"} : call' = [call EXCEPT ![c].at = l]
      BY <1>7, <2>2 DEF Configure, Goto
    <3>2. call'[c].at = l /\ call'[c].mode = call[c].mode
      BY <1>0, <3>1 DEF TypeOK, Call
    <3>3. QED BY <1>7, <2>2, <3>2 DEF Configure
  <2>3. QED BY <2>1, <2>2
<1>8. CASE Ask(c)
  <2>1. CASE Return(c)
    BY <1>8, <2>1, ReturnIs DEF Ask
  <2>2. CASE ~Return(c)
    <3>1. PICK d : call' = [call EXCEPT ![c].at = "save", ![c].maker = provider,
                                        ![c].copy = d, ![c].read = 0]
      BY <1>8, <2>2 DEF Ask
    <3>2. PICK r : r = [call[c] EXCEPT !.at = "save", !.maker = provider,
                                       !.copy = d, !.read = 0]
      OBVIOUS
    <3>3. r.mode = call[c].mode /\ r.maker = provider
      BY <1>0, <3>2 DEF Call
    <3>4. call'[c] = r
      BY <3>1, <3>2 DEF TypeOK
    <3>5. QED BY <1>8, <3>3, <3>4 DEF Ask
  <2>3. QED BY <2>1, <2>2
<1>9. CASE Save(c)
  <2>1. CASE Return(c)
    BY <1>9, <2>1, ReturnIs DEF Save
  <2>2. CASE ~Return(c)
    <3>1. PICK r : r = [Idle EXCEPT !.at = "store", !.plan = P(c), !.copy = call[c].copy]
      OBVIOUS
    <3>2. r.at = "store"
      BY <3>1 DEF Idle
    <3>3. call'[c] = r
      BY <1>9, <2>2, <3>1 DEF Save, TypeOK
    <3>4. QED BY <1>9, <3>2, <3>3 DEF Save
  <2>3. QED BY <2>1, <2>2
<1>10. CASE List(c)
  <2>1. CASE Return(c)
    BY <1>10, <2>1, ReturnIs DEF List
  <2>2. CASE ~Return(c)
    <3>1. PICK d : d = Copies(Eligible(P(c)))
      OBVIOUS
    <3>2. PICK r : r = [Idle EXCEPT !.at = "review", !.plan = P(c), !.copy = d]
      OBVIOUS
    <3>3. r.at = "review"
      BY <3>2 DEF Idle
    <3>4. call'[c] = r
      BY <1>10, <2>2, <3>1, <3>2 DEF List, TypeOK
    <3>5. QED BY <1>10, <3>3, <3>4 DEF List
  <2>3. QED BY <2>1, <2>2
<1>11. QED
  BY <1>1, <1>2, <1>3, <1>4, <1>5, <1>6, <1>7, <1>8, <1>9, <1>10
     DEF Moves, Request, Continue

(* Only one call at a time has to do with the provider if it was not raced.  *)
LEMMA OnProvider ==
  ASSUME Apart, "provider" \notin raced, NEW a \in Caller, NEW b \in Caller,
         call[a].at \in {"configure", "ask", "save"},
         call[b].at \in {"configure", "ask", "save"}
  PROVE  a = b
<1>1. "provider" \in Touched(a) /\ "provider" \in Touched(b) /\ "provider" \in Things
  BY DEF Touched, Things
<1>2. QED BY <1>1, Alone

(* A plan comes from the provider that was asked and is recorded so, unless  *)
(* two requests met on the provider they share.                              *)
THEOREM MakersHold == Spec => []MadeAsAsked
<1>1. Init => MakerInv
  <2> SUFFICES ASSUME Init PROVE MakerInv
    OBVIOUS
  <2>1. \A c \in Caller : call[c].at = "idle" /\ Touched(c) = {}
    BY DEF Init, Touched, Todo, Idle, NoRows
  <2>2. Clash = {}
    BY <2>1 DEF Clash
  <2>3. QED BY <2>1, <2>2 DEF MakerInv, Apart, Init, NoPlan
<1>2. TypeOK /\ CallsFit /\ TypeOK' /\ MakerInv /\ [Next]_vars => MakerInv'
  <2> SUFFICES ASSUME TypeOK, CallsFit, TypeOK', MakerInv, [Next]_vars
               PROVE  MakerInv'
    OBVIOUS
  <2>1. Apart /\ Apart' /\ raced \subseteq raced'
    BY ApartKept DEF MakerInv
  <2>2. CASE \E c \in Caller : Moves(c)
    <3>1. PICK c \in Caller : Moves(c)
      BY <2>2
    <3>2. MakerMove(c) /\ \A b \in Caller \ {c} : call'[b] = call[b]
      BY <3>1, MakerMoves, MovesTable DEF Table
    <3> SUFFICES ASSUME "provider" \notin raced'
                 PROVE  /\ \A p \in Plan : /\ plans'[p].maker = plans'[p].asked
                                          /\ plans'[p].said = plans'[p].asked
                        /\ \A b \in Caller :
                             /\ call'[b].at \in {"ask", "save"} => provider' = call'[b].mode
                             /\ call'[b].at = "save" => call'[b].maker = call'[b].mode
      BY <2>1 DEF MakerInv
    <3>3. "provider" \notin raced
      BY <2>1
    <3>4. /\ \A p \in Plan : plans[p].maker = plans[p].asked /\ plans[p].said = plans[p].asked
          /\ \A b \in Caller :
               /\ call[b].at \in {"ask", "save"} => provider = call[b].mode
               /\ call[b].at = "save" => call[b].maker = call[b].mode
      BY <3>3 DEF MakerInv
    <3>5. ASSUME NEW p \in Plan
          PROVE  plans'[p].maker = plans'[p].asked /\ plans'[p].said = plans'[p].asked
      <4>1. CASE plans'[p] = plans[p]
        BY <3>4, <4>1
      <4>2. CASE plans'[p] # plans[p]
        <5>1. /\ call[c].at = "save"
              /\ plans'[p] = [there |-> TRUE, asked |-> call[c].mode,
                              maker |-> call[c].maker, said |-> provider]
          BY <3>2, <4>2 DEF MakerMove, TypeOK
        <5>2. QED BY <3>4, <5>1
      <4>3. QED BY <4>1, <4>2
    <3>6. ASSUME NEW b \in Caller, call'[b].at \in {"ask", "save"}
          PROVE  /\ provider' = call'[b].mode
                 /\ call'[b].at = "save" => call'[b].maker = call'[b].mode
      <4>1. CASE b = c
        BY <3>2, <3>4, <3>6, <4>1 DEF MakerMove
      <4>2. CASE b # c
        <5>1. call'[b] = call[b]
          BY <3>2, <4>2
        <5>2. call[c].at # "configure"
          BY <2>1, <3>3, <3>6, <4>2, <5>1, OnProvider
        <5>3. provider' = provider
          BY <3>2, <5>2 DEF MakerMove
        <5>4. QED BY <3>4, <3>6, <5>1, <5>3
      <4>3. QED BY <4>1, <4>2
    <3>7. QED BY <3>5, <3>6
  <2>3. CASE Crash
    <3>1. (\A c \in Caller : call'[c].at = "idle") /\ UNCHANGED plans
      BY <2>3 DEF Crash, stored, Idle
    <3>2. QED BY <2>1, <3>1 DEF MakerInv
  <2>4. CASE UNCHANGED vars
    BY <2>1, <2>4 DEF vars, stored, MakerInv
  <2>5. QED BY <2>2, <2>3, <2>4, StepIs
<1>3. MakerInv => MadeAsAsked
  BY DEF MakerInv, MadeAsAsked
<1>4. QED BY <1>1, <1>2, <1>3, TypeCorrect, PTL DEF Spec

-----------------------------------------------------------------------------
(* Rows shared without a lock keep their types, the budget its count and     *)
(* every iteration its node, however requests overlap or die.                *)
THEOREM PlansAreKept == Spec => []PlansKept
<1>1. TypeOK /\ BudgetKept /\ NodesApart => PlansKept
  BY DEF PlansKept
<1>2. QED BY <1>1, TypeCorrect, BudgetHolds, NodesHold, PTL

-----------------------------------------------------------------------------
(* The research loop, for any number of requests, plans, iterations and     *)
(* bounds, however requests overlap and processes die.  A session is a row  *)
(* that requests hold copies of, so who may still write back an early copy  *)
(* decides how many experiments it may yet run; and a request that nothing  *)
(* disturbs holds what the rows say, which carries the order of the rounds. *)

(* The calls of the service on a session, its rounds and its iterations. *)
Active == {c \in Requester : ~At(c, "idle")}

(* States of a session before its experiment.                              *)
Before == {"absent", "created", "baseline_ready", "round_1_planning",
           "round_1_reviewing", "round_1_waiting_approval"}
Early == session.status \in Before

(* Requests that may yet bring an experiment about: those that are about to  *)
(* run one; those whose copy of the session may put it back to before its    *)
(* experiment; and those that will read the session once more.               *)
Starters == {c \in Requester : At(c, "approve_and_run")}
Restorers == {c \in Active : Copy(c).status \in Before \/ At(c, "execute")}
Readers == {c \in Active \ Restorers : At(c, "evidence")}
Hopeful == Starters \cup (IF Restorers = {} /\ ~Early THEN {}
                          ELSE Restorers \cup Readers)

(* The session itself, if no request will.                                   *)
Spare == IF Early /\ Restorers \cup Readers = {} THEN 1 ELSE 0

(* Every experiment, run or to be run, but one is owed to an overlap.         *)
RunsPaid ==
  /\ IsFiniteSet(Active)
  /\ Cardinality(ran) + Cardinality(Hopeful) + Spare <= 1 + overlaps

(* A request has what it read when it passed its guards.                     *)
HeldFits == \A c \in Requester :
  /\ request[c].at \in {"execute", "approve_and_run", "ran", "ran_session"}
       => /\ request[c].r.iter # 0 /\ request[c].r.approved # 0
          /\ request[c].s.status = "round_1_executing"
  /\ request[c].at = "fail" => request[c].why \in Failure

(* What a request that nothing disturbs holds of the rows.                   *)
UpToDate(q) ==
  /\ q.at \notin {"idle", "rounds", "execute"} => q.s = session
  /\ q.at = "rounds" => session.status = "created"
  /\ q.at = "execute" => q.s = [session EXCEPT !.status = "round_1_executing"]
  /\ q.at \in {"iteration", "approved", "save", "rejected", "execute"}
       => session.status = "round_1_waiting_approval"
  /\ q.at \in {"critic", "iteration", "rejected", "execute", "approve_and_run", "ran"}
       => q.r = rounds[q.n]
  /\ q.at \in {"iteration", "approved", "execute", "approve_and_run", "ran", "evidence",
               "feedback", "fed"} => q.n = 1
  /\ q.at \in {"iteration", "approved"} => q.r.there /\ q.r.fed = rounds[1].fed
  /\ q.at = "planner" => FeedbackGate(q.n)
  /\ q.at = "planned" => rounds[q.n].plan # 0
  /\ q.at \in {"evidence", "feedback"} => rounds[1].there
  /\ q.at = "fed" => rounds[1].fed
  /\ q.at \in {"ran", "ran_session"} => ran # {}

(* What the rounds of a session look like in each of its states, if nothing  *)
(* has disturbed its requests.                                               *)
RoundsFit ==
  /\ rounds[2].there => rounds[1].there
  /\ \A n \in 1..2 : ~rounds[n].there => rounds[n] = NoRound
  /\ rounds[2].plan # 0 => rounds[1].fed
  /\ session.status \in PastRound1 \cup {"round_1_executing"} => rounds[1].approved # 0
  /\ session.status \in PastRound1 => rounds[1].fed /\ ran # {}
  /\ session.status \in {"round_2_reviewing", "completed"} => rounds[2].plan # 0

(* It executes: the experiment has run, is about to, or has failed.          *)
Executing == session.status = "round_1_executing" /\ ran = {} =>
  \E c \in Requester : request[c].at \in {"approve_and_run", "fail"}

Undisturbed ==
  ~Disturbed =>
    /\ \A c, d \in Active : c = d
    /\ \A c \in Requester : UpToDate(request[c])
    /\ RoundsFit
    /\ Executing

LoopInv == LoopTypeOK /\ HeldFits /\ RunsPaid /\ Undisturbed

(* The records of a session, a round and a request that are not there.     *)
LEMMA NothingTyped ==
  /\ NoSession \in Session /\ NoRound \in Round /\ NoRequest \in Held
  /\ NoRequest.at = "idle" /\ NoSession.status = "absent"
<1>1. NoSession \in Session /\ NoSession.status = "absent"
  BY DEF NoSession, Session, LoopStatus
<1>2. NoRound \in Round
  BY LoopBounds DEF NoRound, Round
<1>3. NoRequest \in Held /\ NoRequest.at = "idle"
  BY <1>1, <1>2 DEF NoRequest, Held, RequestLabel
<1>4. QED BY <1>1, <1>2, <1>3

(* What a transition makes of a session. *)
LEMMA Transition ==
  ASSUME NEW s \in Session, NEW from, NEW to \in LoopStatus
  PROVE  /\ To(s, from, to) \in Session
         /\ To(s, from, to).status = IF s.status = from THEN to ELSE s.status
         /\ s.status # from => To(s, from, to) = s
BY DEF To, Session

LEMMA WithStatus ==
  ASSUME NEW s \in Session, NEW to \in LoopStatus
  PROVE  /\ [s EXCEPT !.status = to] \in Session
         /\ [s EXCEPT !.status = to].status = to
BY DEF Session

(* The parts of what a request holds. *)
LEMMA HeldParts ==
  ASSUME NEW q \in Held
  PROVE  /\ q.at \in RequestLabel /\ q.s \in Session /\ q.s.status \in LoopStatus
         /\ q.r \in Round /\ q.n \in 1..2 /\ q.why \in Failure \cup {"none"}
         /\ q.wait \in BOOLEAN
BY DEF Held, Session

(* A request begins: counted, if others go on.                             *)
LEMMA EnterTyped ==
  ASSUME LoopTypeOK, NEW c \in Requester, Enter(c)
  PROVE  /\ overlaps' \in 0..MaxDisturbances /\ deaths' = deaths
         /\ overlaps' >= overlaps
         /\ request[c].at = "idle" /\ session # NoSession
         /\ \/ Active = {} /\ overlaps' = overlaps
            \/ Active # {} /\ overlaps' = overlaps + 1
<1>1. Busy <=> Active # {}
  BY DEF Busy, Active
<1>2. overlaps \in Nat /\ deaths \in Nat
  BY LoopBounds DEF LoopTypeOK
<1>3. CASE Busy
  <2>1. overlaps + deaths < MaxDisturbances /\ overlaps' = overlaps + 1
    BY <1>3 DEF Enter, Mishap
  <2>2. overlaps + 1 \in 0..MaxDisturbances
    BY <1>2, <2>1, LoopBounds
  <2>3. QED BY <1>1, <1>2, <1>3, <2>1, <2>2 DEF Enter, At
<1>4. CASE ~Busy
  BY <1>1, <1>2, <1>4 DEF Enter, At, LoopTypeOK
<1>5. QED BY <1>3, <1>4

(* What the request of c holds after a step of it, that of others staying. *)
Becomes(c, q) == request' = [request EXCEPT ![c] = q]

LEMMA OthersStay ==
  ASSUME LoopTypeOK, NEW c \in Requester, NEW q \in Held, Becomes(c, q)
  PROVE  /\ request' \in [Requester -> Held] /\ request'[c] = q
         /\ \A d \in Requester \ {c} : request'[d] = request[d]
BY DEF Becomes, LoopTypeOK

-----------------------------------------------------------------------------
(* The payment for experiments: Cardinality(ran), Hopeful and Spare.        *)

LEMMA HopefulFinite ==
  ASSUME IsFiniteSet(Active)
  PROVE  /\ Starters \subseteq Active /\ Restorers \subseteq Active /\ Readers \subseteq Active
         /\ Hopeful \subseteq Active /\ IsFiniteSet(Hopeful)
         /\ Cardinality(Hopeful) \in Nat
<1>1. /\ Starters \subseteq Active /\ Restorers \subseteq Active /\ Readers \subseteq Active
      /\ Hopeful \subseteq Active
  BY DEF Starters, Restorers, Readers, Hopeful, Active, At
<1>2. IsFiniteSet(Hopeful)
  BY <1>1, FS_Subset
<1>3. QED BY <1>1, <1>2, FS_CardinalityType

(* Sets counted after a step.                                               *)
LEMMA CountSubset ==
  ASSUME NEW T, IsFiniteSet(T), NEW S \in SUBSET T
  PROVE  /\ IsFiniteSet(S) /\ Cardinality(S) \in Nat /\ Cardinality(T) \in Nat
         /\ Cardinality(S) <= Cardinality(T)
         /\ \A x \in T \ S : Cardinality(S) + 1 <= Cardinality(T)
<1>1. IsFiniteSet(S) /\ Cardinality(S) <= Cardinality(T)
  BY FS_Subset
<1>2. Cardinality(S) \in Nat /\ Cardinality(T) \in Nat
  BY <1>1, FS_CardinalityType
<1>3. ASSUME NEW x \in T \ S PROVE Cardinality(S) + 1 <= Cardinality(T)
  <2>1. /\ S \cup {x} \subseteq T
        /\ IsFiniteSet(S \cup {x}) /\ Cardinality(S \cup {x}) = Cardinality(S) + 1
    BY <1>1, FS_AddElement
  <2>2. Cardinality(S \cup {x}) <= Cardinality(T)
    BY <2>1, FS_Subset
  <2>3. QED BY <2>1, <2>2
<1>4. QED BY <1>1, <1>2, <1>3

LEMMA CountAdd ==
  ASSUME NEW T, IsFiniteSet(T), NEW x, NEW S \in SUBSET (T \cup {x})
  PROVE  /\ IsFiniteSet(S) /\ Cardinality(S) \in Nat /\ Cardinality(T) \in Nat
         /\ Cardinality(S) <= Cardinality(T) + 1
<1>1. IsFiniteSet(T \cup {x}) /\ Cardinality(T \cup {x}) <= Cardinality(T) + 1
  <2>1. /\ IsFiniteSet(T \cup {x})
        /\ Cardinality(T \cup {x}) = IF x \in T THEN Cardinality(T) ELSE Cardinality(T) + 1
    BY FS_AddElement
  <2>2. Cardinality(T) \in Nat
    BY FS_CardinalityType
  <2>3. QED BY <2>1, <2>2
<1>2. IsFiniteSet(S) /\ Cardinality(S) <= Cardinality(T \cup {x})
  BY <1>1, FS_Subset
<1>3. /\ Cardinality(S) \in Nat /\ Cardinality(T) \in Nat
      /\ Cardinality(T \cup {x}) \in Nat
  BY <1>1, <1>2, FS_CardinalityType
<1>4. QED BY <1>1, <1>2, <1>3

LEMMA RanFinite ==
  ASSUME LoopTypeOK
  PROVE  IsFiniteSet(ran) /\ Cardinality(ran) \in Nat
<1>1. IsFiniteSet(1..MaxIter)
  BY LoopBounds, FS_Interval
<1>2. IsFiniteSet(ran)
  BY <1>1, FS_Subset DEF LoopTypeOK
<1>3. QED BY <1>2, FS_CardinalityType

(* A step that makes no request hopeful which was not, and that puts the     *)
(* session back only by a request that might: it costs nothing.              *)
LEMMA PaidIfNoMore ==
  ASSUME LoopTypeOK, RunsPaid, IsFiniteSet(Active'),
         Starters' \subseteq Starters, Restorers' \subseteq Restorers,
         Readers' \subseteq Readers,
         Starters \cap (Restorers \cup Readers) = {},
         Early' => Early \/ Restorers # {},
         UNCHANGED ran, overlaps' \in Nat, overlaps' >= overlaps
  PROVE  RunsPaid'
<1>1. Hopeful' \subseteq Hopeful
  <2>1. CASE Restorers' = {} /\ ~Early'
    BY <2>1 DEF Hopeful
  <2>2. CASE ~(Restorers' = {} /\ ~Early')
    BY <2>2 DEF Hopeful
  <2>3. QED BY <2>1, <2>2
<1>2. /\ Spare' \in {0, 1} /\ Spare \in {0, 1}
      /\ Spare' = 1 => Spare = 1 \/ \E x \in Hopeful : x \notin Hopeful'
  <2>1. Spare' \in {0, 1} /\ Spare \in {0, 1}
    BY DEF Spare
  <2>2. ASSUME Spare' = 1, Spare # 1
        PROVE  \E x \in Hopeful : x \notin Hopeful'
    <3>1. Early' /\ Restorers' \cup Readers' = {}
      BY <2>2 DEF Spare
    <3>2. ~(Early /\ Restorers \cup Readers = {})
      BY <2>2 DEF Spare
    <3>3. Hopeful' = Starters'
      BY <3>1 DEF Hopeful
    <3>4. PICK x \in Restorers \cup Readers : x \in Hopeful
      BY <3>1, <3>2 DEF Hopeful
    <3>5. QED BY <3>3, <3>4
  <2>3. QED BY <2>1, <2>2
<1>3. /\ IsFiniteSet(Hopeful) /\ Cardinality(Hopeful) \in Nat
      /\ Cardinality(Hopeful') \in Nat /\ Cardinality(Hopeful') <= Cardinality(Hopeful)
      /\ \A x \in Hopeful \ Hopeful' : Cardinality(Hopeful') + 1 <= Cardinality(Hopeful)
  BY <1>1, HopefulFinite, CountSubset DEF RunsPaid
<1>4. Cardinality(Hopeful') + Spare' <= Cardinality(Hopeful) + Spare
  BY <1>2, <1>3
<1>5. Cardinality(ran) \in Nat /\ overlaps \in Nat
  BY RanFinite, LoopBounds DEF LoopTypeOK
<1>6. Cardinality(ran) + Cardinality(Hopeful) + Spare <= 1 + overlaps
  BY DEF RunsPaid
<1>7. Cardinality(ran') + Cardinality(Hopeful') + Spare' <= 1 + overlaps'
  BY <1>2, <1>3, <1>4, <1>5, <1>6
<1>8. QED BY <1>7 DEF RunsPaid

(* A request begins: alone it takes over the hope of the session, with      *)
(* others going on an overlap pays for it.                                  *)
LEMMA PaidIfEntered ==
  ASSUME LoopTypeOK, RunsPaid, NEW c \in Requester, c \notin Active,
         IsFiniteSet(Active'), Starters' = Starters,
         Restorers \subseteq Restorers', Restorers' \subseteq Restorers \cup {c},
         Readers \subseteq Readers', Readers' \subseteq Readers \cup {c},
         c \in Restorers' => Early, Early' <=> Early, UNCHANGED ran,
         \/ Active = {} /\ overlaps' = overlaps
         \/ overlaps' = overlaps + 1
  PROVE  RunsPaid'
<1>1. /\ Cardinality(ran) \in Nat /\ overlaps \in Nat
      /\ IsFiniteSet(Hopeful) /\ Cardinality(Hopeful) \in Nat
  BY RanFinite, HopefulFinite, LoopBounds DEF LoopTypeOK, RunsPaid
<1>2. Spare' \in {0, 1} /\ Spare \in {0, 1} /\ (Spare' = 1 => Spare = 1)
  BY DEF Spare
<1>3. Cardinality(ran) + Cardinality(Hopeful) + Spare <= 1 + overlaps
  BY DEF RunsPaid
<1>4. Hopeful' \subseteq Hopeful \cup {c}
  <2>1. CASE Restorers' = {} /\ ~Early'
    BY <2>1 DEF Hopeful
  <2>2. CASE ~(Restorers' = {} /\ ~Early')
    <3>1. ~(Restorers = {} /\ ~Early)
      BY <2>2
    <3>2. QED BY <2>2, <3>1 DEF Hopeful
  <2>3. QED BY <2>1, <2>2
<1>5. Cardinality(Hopeful') \in Nat /\ Cardinality(Hopeful') <= Cardinality(Hopeful) + 1
  BY <1>1, <1>4, CountAdd
<1>6. CASE overlaps' = overlaps + 1
  <2>1. Cardinality(ran') + Cardinality(Hopeful') + Spare' <= 1 + overlaps'
    BY <1>1, <1>2, <1>3, <1>5, <1>6
  <2>2. QED BY <2>1 DEF RunsPaid
<1>7. CASE Active = {} /\ overlaps' = overlaps
  <2>1. Hopeful = {} /\ Starters = {} /\ Restorers = {} /\ Readers = {}
    BY <1>7, HopefulFinite DEF RunsPaid
  <2>2. Cardinality(Hopeful) = 0
    BY <2>1, FS_EmptySet
  <2>3. CASE Early
    <3>1. Spare = 1 /\ (Hopeful' = {} \/ Spare' = 0)
      BY <2>1, <2>3 DEF Spare, Hopeful
    <3>2. Cardinality(Hopeful') + Spare' <= 1
      <4>1. CASE Hopeful' = {}
        <5>1. Cardinality(Hopeful') = 0
          BY <4>1, FS_EmptySet
        <5>2. Spare' = 0 \/ Spare' = 1
          BY <1>2
        <5>3. QED BY <1>5, <5>1, <5>2
      <4>2. CASE Spare' = 0
        BY <1>5, <2>2, <4>2
      <4>3. QED BY <3>1, <4>1, <4>2
    <3>3. Cardinality(ran') + Cardinality(Hopeful') + Spare' <= 1 + overlaps'
      BY <1>1, <1>2, <1>3, <1>5, <1>7, <2>2, <3>1, <3>2
    <3>4. QED BY <3>3 DEF RunsPaid
  <2>4. CASE ~Early
    <3>1. Hopeful' = {} /\ Spare' = 0
      BY <2>1, <2>4 DEF Spare, Hopeful
    <3>2. Cardinality(ran') + Cardinality(Hopeful') + Spare' <= 1 + overlaps'
      BY <1>1, <1>2, <1>3, <1>7, <2>2, <3>1, FS_EmptySet
    <3>3. QED BY <3>2 DEF RunsPaid
  <2>5. QED BY <2>3, <2>4
<1>8. QED BY <1>6, <1>7

(* The session goes on to execute: a request is now about to run.           *)
LEMMA PaidIfExecuting ==
  ASSUME LoopTypeOK, RunsPaid, NEW c \in Restorers, IsFiniteSet(Active'),
         Starters' = Starters \cup {c}, Restorers' \subseteq Restorers,
         Readers' \subseteq Readers, ~Early', UNCHANGED <<ran, overlaps>>
  PROVE  RunsPaid'
<1>1. /\ Cardinality(ran) \in Nat /\ overlaps \in Nat
      /\ IsFiniteSet(Hopeful) /\ Cardinality(Hopeful) \in Nat
  BY RanFinite, HopefulFinite, LoopBounds DEF LoopTypeOK, RunsPaid
<1>2. Spare' = 0 /\ Spare \in {0, 1}
  BY DEF Spare
<1>3. Hopeful' \subseteq Hopeful
  BY DEF Hopeful
<1>4. Cardinality(Hopeful') \in Nat /\ Cardinality(Hopeful') <= Cardinality(Hopeful)
  BY <1>1, <1>3, CountSubset
<1>5. Cardinality(ran') + Cardinality(Hopeful') + Spare' <= 1 + overlaps'
  BY <1>1, <1>2, <1>4 DEF RunsPaid
<1>6. QED BY <1>5 DEF RunsPaid

(* It runs its iteration, or fails.                                         *)
LEMMA PaidIfRun ==
  ASSUME LoopTypeOK, RunsPaid, NEW c \in Starters, IsFiniteSet(Active'),
         Starters' = Starters \ {c}, Restorers' = Restorers, Readers' = Readers,
         c \notin Restorers \cup Readers,
         Early' <=> Early, NEW k, ran' \in {ran, ran \cup {k}}, UNCHANGED overlaps
  PROVE  RunsPaid'
<1>1. /\ IsFiniteSet(ran) /\ Cardinality(ran) \in Nat /\ overlaps \in Nat
      /\ IsFiniteSet(Hopeful) /\ Cardinality(Hopeful) \in Nat
  BY RanFinite, HopefulFinite, LoopBounds DEF LoopTypeOK, RunsPaid
<1>2. Spare' = Spare /\ Spare \in {0, 1}
  BY DEF Spare
<1>3. Hopeful' \subseteq Hopeful /\ c \in Hopeful \ Hopeful'
  BY DEF Hopeful
<1>4. Cardinality(Hopeful') \in Nat /\ Cardinality(Hopeful') + 1 <= Cardinality(Hopeful)
  BY <1>1, <1>3, CountSubset
<1>5. Cardinality(ran') \in Nat /\ Cardinality(ran') <= Cardinality(ran) + 1
  BY <1>1, CountAdd
<1>6. Cardinality(ran') + Cardinality(Hopeful') + Spare' <= 1 + overlaps'
  BY <1>1, <1>2, <1>4, <1>5 DEF RunsPaid
<1>7. QED BY <1>6 DEF RunsPaid

(* A request reads the session once more, while it is early.                *)
LEMMA PaidIfReread ==
  ASSUME LoopTypeOK, RunsPaid, NEW c \in Readers, IsFiniteSet(Active'),
         Starters' = Starters, Restorers' = Restorers \cup {c},
         Readers' = Readers \ {c}, Early, Early', UNCHANGED <<ran, overlaps>>
  PROVE  RunsPaid'
<1>1. Hopeful' = Hopeful
  BY DEF Hopeful
<1>2. Spare' = Spare
  BY DEF Spare
<1>3. QED BY <1>1, <1>2 DEF RunsPaid

(* What a request is about to run it puts no session back for.              *)
LEMMA StartersApart ==
  ASSUME HeldFits
  PROVE  Starters \cap (Restorers \cup Readers) = {}
BY DEF HeldFits, Starters, Restorers, Readers, At, Copy, Before

(* The process dies: no request is left, the session may be early.          *)
LEMMA PaidIfDied ==
  ASSUME LoopTypeOK, HeldFits, RunsPaid, Active' = {}, UNCHANGED <<session, ran, overlaps>>
  PROVE  RunsPaid'
<1>1. /\ IsFiniteSet(Active') /\ Starters' = {} /\ Restorers' = {} /\ Readers' = {}
      /\ Hopeful' = {}
  BY FS_EmptySet DEF Hopeful, Starters, Restorers, Readers, Active, At
<1>2. Early' <=> Early
  BY DEF Early
<1>3. QED BY <1>1, <1>2, PaidIfNoMore, StartersApart, LoopBounds DEF LoopTypeOK

-----------------------------------------------------------------------------
(* One step of one request.                                                 *)

LEMMA ActiveMoves ==
  ASSUME LoopTypeOK, IsFiniteSet(Active), NEW c \in Requester, NEW q \in Held, Becomes(c, q)
  PROVE  /\ Active' = IF q.at = "idle" THEN Active \ {c} ELSE Active \cup {c}
         /\ IsFiniteSet(Active')
<1>1. Active' = IF q.at = "idle" THEN Active \ {c} ELSE Active \cup {c}
  BY OthersStay DEF Active, At
<1>2. IsFiniteSet(Active \cup {c})
  BY FS_AddElement
<1>3. Active' \subseteq Active \cup {c}
  BY <1>1
<1>4. QED BY <1>1, <1>2, <1>3, FS_Subset

(* Undisturbed, it is the only request that goes on.                        *)
LEMMA AloneKeeps ==
  ASSUME LoopTypeOK, NEW c \in Requester, NEW q \in Held, Becomes(c, q),
         Active \subseteq {c}, UpToDate(q)', RoundsFit',
         session'.status = "round_1_executing"
           => ran' # {} \/ q.at \in {"approve_and_run", "fail"}
  PROVE  Undisturbed'
<1>1. request'[c] = q /\ \A d \in Requester \ {c} : request'[d] = request[d]
  BY OthersStay
<1>2. \A d \in Requester \ {c} : request'[d].at = "idle"
  BY <1>1 DEF Active, At
<1>3. \A d, e \in Active' : d = e
  BY <1>2 DEF Active, At
<1>4. ASSUME NEW d \in Requester PROVE UpToDate(request[d])'
  <2>1. CASE d = c
    BY <1>1, <2>1
  <2>2. CASE d # c
    <3>1. PICK p : p = request'[d]
      OBVIOUS
    <3>2. p.at = "idle"
      BY <1>2, <2>2, <3>1
    <3>3. UpToDate(p)'
      BY <3>2 DEF UpToDate
    <3>4. QED BY <3>1, <3>3
  <2>3. QED BY <2>1, <2>2
<1>5. Executing'
  BY <1>1 DEF Executing
<1>6. QED BY <1>3, <1>4, <1>5 DEF Undisturbed

(* What is given of a request that is alone.                                *)
LEMMA AloneNow ==
  ASSUME LoopInv, ~Disturbed, NEW c \in Active
  PROVE  /\ Active \subseteq {c} /\ UpToDate(request[c]) /\ RoundsFit
         /\ session.status = "round_1_executing"
              => ran # {} \/ request[c].at \in {"approve_and_run", "fail"}
<1>1. /\ \A d \in Active : d = c
      /\ UpToDate(request[c]) /\ RoundsFit /\ Executing
  BY DEF LoopInv, Undisturbed, Active
<1>2. \A d \in Requester \ {c} : request[d].at = "idle"
  BY <1>1 DEF Active, At
<1>3. QED BY <1>1, <1>2 DEF Executing

(* A request that goes on, without running an iteration.                    *)
LEMMA ProceedKeeps ==
  ASSUME LoopInv, NEW c \in Requester, NEW p \in Held, NEW q \in Held,
         p = request[c], Becomes(c, q),
         p.at \notin {"idle", "execute"},
         q.at \notin {"evidence", "execute", "approve_and_run"},
         q.at = "idle" \/ q.s = p.s \/ q.s.status \notin Before \/ p.s.status \in Before,
         q.at \in {"ran", "ran_session"}
           => q.r.iter # 0 /\ q.r.approved # 0 /\ q.s.status = "round_1_executing",
         q.at = "fail" => q.why \in Failure,
         session' \in Session,
         session'.status \in Before => session.status \in Before \/ p.s.status \in Before,
         rounds' \in [1..2 -> Round], planned' \in 0..MaxPlans,
         iterations' \in [1..MaxIter -> IterStatus],
         UNCHANGED <<ran, overlaps, deaths>>,
         ~Disturbed /\ Active \subseteq {c} =>
           /\ UpToDate(q)' /\ RoundsFit'
           /\ session'.status = "round_1_executing" => ran # {} \/ q.at = "fail"
  PROVE  LoopInv'
<1> USE DEF LoopInv
<1>1. /\ request' \in [Requester -> Held] /\ request'[c] = q
      /\ \A d \in Requester \ {c} : request'[d] = request[d]
  BY OthersStay
<1>2. LoopTypeOK'
  BY <1>1 DEF LoopTypeOK
<1>3. HeldFits'
  BY <1>1 DEF HeldFits
<1>4. RunsPaid'
  <2>1. IsFiniteSet(Active')
    BY ActiveMoves DEF RunsPaid
  <2>2. Starters' \subseteq Starters
    BY <1>1 DEF Starters, At
  <2>3. Restorers' \subseteq Restorers
    BY <1>1 DEF Restorers, Active, At, Copy
  <2>4. Readers' \subseteq Readers
    <3>1. ASSUME NEW d \in Readers' PROVE d \in Readers
      <4>1. d # c /\ d \in Requester /\ request'[d] = request[d]
        BY <1>1, <3>1 DEF Readers, Active, At
      <4>2. QED BY <3>1, <4>1 DEF Readers, Restorers, Active, At, Copy
    <3>2. QED BY <3>1
  <2>5. Early' => Early \/ Restorers # {}
    BY DEF Early, Restorers, Active, At, Copy
  <2>6. overlaps' \in Nat /\ overlaps' >= overlaps
    BY LoopBounds DEF LoopTypeOK
  <2>7. QED BY <2>1, <2>2, <2>3, <2>4, <2>5, <2>6, StartersApart, PaidIfNoMore
<1>5. Undisturbed'
  <2>1. SUFFICES ASSUME ~Disturbed' PROVE Undisturbed'
    BY DEF Undisturbed
  <2>2. ~Disturbed
    BY <2>1 DEF Disturbed
  <2>3. c \in Active
    BY DEF Active, At
  <2>4. Active \subseteq {c}
    BY <2>2, <2>3, AloneNow
  <2>5. QED BY <2>2, <2>4, AloneKeeps
<1>6. QED BY <1>2, <1>3, <1>4, <1>5

(* A request that begins.                                                   *)
LEMMA BeginKeeps ==
  ASSUME LoopInv, NEW c \in Requester, NEW q \in Held, Becomes(c, q),
         request[c].at = "idle",
         \/ Active = {} /\ overlaps' = overlaps
         \/ Active # {} /\ overlaps' = overlaps + 1,
         overlaps' \in 0..MaxDisturbances, UNCHANGED deaths,
         q.at \notin {"approve_and_run", "ran", "ran_session"},
         q.at = "execute" => /\ Early /\ q.r.iter # 0 /\ q.r.approved # 0
                             /\ q.s.status = "round_1_executing",
         q.at = "fail" => q.why \in Failure,
         q.s.status \in Before => Early,
         session' \in Session, Early' <=> Early,
         UNCHANGED <<rounds, planned, iterations, ran>>,
         session'.status = "round_1_executing" => session.status = "round_1_executing",
         ~Disturbed => UpToDate(q)' /\ RoundsFit'
  PROVE  LoopInv'
<1> USE DEF LoopInv
<1>1. /\ request' \in [Requester -> Held] /\ request'[c] = q
      /\ \A d \in Requester \ {c} : request'[d] = request[d]
  BY OthersStay
<1>2. LoopTypeOK'
  BY <1>1 DEF LoopTypeOK
<1>3. HeldFits'
  BY <1>1 DEF HeldFits
<1>4. c \notin Active /\ c \notin Starters /\ c \notin Restorers /\ c \notin Readers
  BY DEF Active, Starters, Restorers, Readers, At
<1>5. RunsPaid'
  <2>1. IsFiniteSet(Active')
    BY ActiveMoves DEF RunsPaid
  <2>2. Starters' = Starters
    BY <1>1, <1>4 DEF Starters, At
  <2>3. Restorers \subseteq Restorers' /\ Restorers' \subseteq Restorers \cup {c}
    <3>1. ASSUME NEW d \in Requester, d # c
          PROVE  d \in Restorers' <=> d \in Restorers
      BY <1>1, <3>1 DEF Restorers, Active, At, Copy
    <3>2. Restorers \subseteq Requester /\ Restorers' \subseteq Requester
      BY DEF Restorers, Active
    <3>3. QED BY <1>4, <3>1, <3>2
  <2>4. Readers \subseteq Readers' /\ Readers' \subseteq Readers \cup {c}
    <3>1. ASSUME NEW d \in Requester, d # c
          PROVE  d \in Readers' <=> d \in Readers
      BY <1>1, <3>1 DEF Readers, Restorers, Active, At, Copy
    <3>2. Readers \subseteq Requester /\ Readers' \subseteq Requester
      BY DEF Readers, Active
    <3>3. QED BY <1>4, <3>1, <3>2
  <2>5. c \in Restorers' => Early
    BY <1>1 DEF Restorers, Active, At, Copy
  <2>6. QED BY <1>4, <2>1, <2>2, <2>3, <2>4, <2>5, PaidIfEntered
<1>6. Undisturbed'
  <2>1. SUFFICES ASSUME ~Disturbed' PROVE Undisturbed'
    BY DEF Undisturbed
  <2>2. overlaps \in Nat
    BY LoopBounds DEF LoopTypeOK
  <2>3. ~Disturbed /\ Active = {}
    BY <2>1, <2>2 DEF Disturbed
  <2>4. session.status = "round_1_executing" => ran # {}
    BY <2>3 DEF Undisturbed, Executing, Active, At
  <2>5. QED BY <2>3, <2>4, AloneKeeps
<1>7. QED BY <1>2, <1>3, <1>5, <1>6

(* A step of the session alone, which no request begins or ends with.       *)
LEMMA SessionKeeps ==
  ASSUME LoopInv, UNCHANGED <<request, rounds, planned, iterations, ran, deaths>>,
         \/ Active = {} /\ overlaps' = overlaps
         \/ Active # {} /\ overlaps' = overlaps + 1,
         overlaps' \in 0..MaxDisturbances,
         session' \in Session, Early' <=> Early,
         session'.status # "round_1_executing",
         ~Disturbed => RoundsFit'
  PROVE  LoopInv'
<1> USE DEF LoopInv
<1>1. LoopTypeOK' /\ HeldFits'
  BY DEF LoopTypeOK, HeldFits
<1>2. /\ Active' = Active /\ Starters' = Starters /\ Restorers' = Restorers
      /\ Readers' = Readers
  BY DEF Active, Starters, Restorers, Readers, At, Copy
<1>3. overlaps \in Nat
  BY LoopBounds DEF LoopTypeOK
<1>4. RunsPaid'
  <2>1. overlaps' \in Nat /\ overlaps' >= overlaps
    BY <1>3
  <2>2. QED BY <1>2, <2>1, StartersApart, PaidIfNoMore DEF RunsPaid
<1>5. Undisturbed'
  <2>1. SUFFICES ASSUME ~Disturbed' PROVE Undisturbed'
    BY DEF Undisturbed
  <2>2. ~Disturbed /\ Active = {}
    BY <1>3, <2>1 DEF Disturbed
  <2>3. ASSUME NEW d \in Requester PROVE UpToDate(request[d])'
    <3>1. PICK p : p = request'[d]
      OBVIOUS
    <3>2. p.at = "idle"
      BY <2>2, <3>1 DEF Active, At
    <3>3. UpToDate(p)'
      BY <3>2 DEF UpToDate
    <3>4. QED BY <3>1, <3>3
  <2>4. Executing'
    BY DEF Executing
  <2>5. QED BY <1>2, <2>2, <2>3, <2>4 DEF Undisturbed
<1>6. QED BY <1>1, <1>4, <1>5

(* The process dies; iterations go on.                                      *)
LEMMA ProcessDiesKeeps ==
  ASSUME LoopInv, ProcessDies
  PROVE  LoopInv'
<1> USE DEF LoopInv
<1>1. /\ \A c \in Requester : request'[c] = NoRequest
      /\ request' \in [Requester -> Held]
      /\ UNCHANGED <<session, rounds, planned, iterations, ran, overlaps>>
      /\ deaths' = deaths + 1 /\ overlaps + deaths < MaxDisturbances
  BY NothingTyped DEF ProcessDies, Mishap
<1>2. deaths \in Nat /\ overlaps \in Nat
  BY LoopBounds DEF LoopTypeOK
<1>3. deaths' \in 0..MaxDisturbances /\ deaths' > 0
  BY <1>1, <1>2, LoopBounds
<1>4. LoopTypeOK'
  BY <1>1, <1>3 DEF LoopTypeOK
<1>5. HeldFits'
  BY <1>1, NothingTyped DEF HeldFits
<1>6. Active' = {}
  BY <1>1, NothingTyped DEF Active, At
<1>7. RunsPaid'
  BY <1>1, <1>6, PaidIfDied
<1>8. Undisturbed'
  BY <1>3 DEF Undisturbed, Disturbed
<1>9. QED BY <1>4, <1>5, <1>7, <1>8

LEMMA IterationMovesKeeps ==
  ASSUME LoopInv, NEW k \in 1..MaxIter, IterationMoves(k)
  PROVE  LoopInv'
<1> USE DEF LoopInv
<1>1. UNCHANGED <<session, rounds, planned, ran, request, overlaps, deaths>>
  BY DEF IterationMoves
<1>2. LoopTypeOK' /\ HeldFits'
  BY <1>1 DEF IterationMoves, LoopTypeOK, HeldFits, IterStatus
<1>3. RunsPaid'
  BY <1>1
     DEF RunsPaid, Hopeful, Spare, Early, Active, Starters, Restorers, Readers,
         At, Copy
<1>4. Undisturbed'
  BY <1>1
     DEF Undisturbed, Disturbed, Active, At, UpToDate, FeedbackGate,
         RoundExists, RoundsFit, Executing
<1>5. QED BY <1>2, <1>3, <1>4

-----------------------------------------------------------------------------
(* The requests, as they begin.                                             *)

LEMMA SessionNow ==
  ASSUME LoopTypeOK
  PROVE  /\ session \in Session /\ session.status \in LoopStatus
         /\ rounds[1] \in Round /\ rounds[2] \in Round
         /\ rounds \in [1..2 -> Round]
         /\ \A n \in 1..2 : n = 1 \/ n = 2
BY DEF LoopTypeOK, Session

LEMMA CreateKeeps ==
  ASSUME LoopInv, NEW c \in Requester, Create(c)
  PROVE  LoopInv'
<1>1. PICK q : q = [NoRequest EXCEPT !.at = "rounds"]
  OBVIOUS
<1>2. /\ q \in Held /\ q.at = "rounds" /\ q.s = NoSession /\ q.n = 1
  BY <1>1, NothingTyped DEF NoRequest, Held, RequestLabel
<1>3. PICK s : s = [NoSession EXCEPT !.status = "created"]
  OBVIOUS
<1>4. s \in Session /\ s.status = "created"
  BY <1>3, NothingTyped, WithStatus DEF LoopStatus
<1>5. /\ Becomes(c, q) /\ session = NoSession /\ session' = s /\ request[c].at = "idle"
      /\ UNCHANGED <<rounds, planned, iterations, ran, overlaps, deaths>>
      /\ Active = {}
  BY <1>1, <1>3 DEF Create, Becomes, At, Busy, Active
<1>6. Early /\ Early'
  BY <1>4, <1>5, NothingTyped DEF Early, Before
<1>7. UpToDate(q)'
  BY <1>2, <1>4, <1>5 DEF UpToDate
<1>8. ~Disturbed => RoundsFit'
  BY <1>4, <1>5 DEF RoundsFit, PastRound1, LoopInv, Undisturbed
<1>9. overlaps' \in 0..MaxDisturbances
  BY <1>5 DEF LoopInv, LoopTypeOK
<1>10. QED BY <1>2, <1>4, <1>5, <1>6, <1>7, <1>8, <1>9, BeginKeeps

LEMMA MarkBaselineReadyKeeps ==
  ASSUME LoopInv, NEW c \in Requester, MarkBaselineReady(c)
  PROVE  LoopInv'
<1>1. PICK s : s = [session EXCEPT !.status = "baseline_ready"]
  OBVIOUS
<1>2. s \in Session /\ s.status = "baseline_ready"
  BY <1>1, SessionNow, WithStatus DEF LoopStatus, LoopInv
<1>3. /\ session.status = "created" /\ session' = s /\ Enter(c)
      /\ UNCHANGED <<rounds, planned, iterations, ran, request>>
  BY <1>1 DEF MarkBaselineReady
<1>4. /\ overlaps' \in 0..MaxDisturbances /\ deaths' = deaths
      /\ \/ Active = {} /\ overlaps' = overlaps
         \/ Active # {} /\ overlaps' = overlaps + 1
  BY <1>3, EnterTyped DEF LoopInv
<1>5. Early /\ Early'
  BY <1>2, <1>3 DEF Early, Before
<1>6. ~Disturbed => RoundsFit'
  BY <1>2, <1>3 DEF RoundsFit, PastRound1, LoopInv, Undisturbed
<1>7. QED BY <1>2, <1>3, <1>4, <1>5, <1>6, SessionKeeps

LEMMA PrepareNextRoundKeeps ==
  ASSUME LoopInv, NEW c \in Requester, PrepareNextRound(c)
  PROVE  LoopInv'
<1>1. PICK s : s = [status |-> "round_2_planning", round |-> 2]
  OBVIOUS
<1>2. s \in Session /\ s.status = "round_2_planning"
  BY <1>1 DEF LoopStatus, Session
<1>3. /\ session.status = "round_1_feedback_ready" /\ session' = s /\ Enter(c)
      /\ UNCHANGED <<rounds, planned, iterations, ran, request>>
  BY <1>1 DEF PrepareNextRound
<1>4. /\ overlaps' \in 0..MaxDisturbances /\ deaths' = deaths
      /\ \/ Active = {} /\ overlaps' = overlaps
         \/ Active # {} /\ overlaps' = overlaps + 1
  BY <1>3, EnterTyped DEF LoopInv
<1>5. ~Early /\ ~Early'
  BY <1>2, <1>3 DEF Early, Before
<1>6. ~Disturbed => RoundsFit'
  BY <1>2, <1>3 DEF RoundsFit, PastRound1, LoopInv, Undisturbed
<1>7. QED BY <1>2, <1>3, <1>4, <1>5, <1>6, SessionKeeps

(* A request on a session that stays as it is.                              *)
LEMMA AskKeeps ==
  ASSUME LoopInv, NEW c \in Requester, NEW q \in Held, Becomes(c, q), Enter(c),
         q.at \notin {"approve_and_run", "ran", "ran_session"},
         q.at = "execute" => /\ Early /\ q.r.iter # 0 /\ q.r.approved # 0
                             /\ q.s.status = "round_1_executing",
         q.at = "fail" => q.why \in Failure,
         q.s.status \in Before => Early,
         UNCHANGED <<session, rounds, planned, iterations, ran>>,
         ~Disturbed /\ RoundsFit => UpToDate(q)
  PROVE  LoopInv'
<1>1. /\ overlaps' \in 0..MaxDisturbances /\ deaths' = deaths
      /\ request[c].at = "idle"
      /\ \/ Active = {} /\ overlaps' = overlaps
         \/ Active # {} /\ overlaps' = overlaps + 1
  BY EnterTyped DEF LoopInv
<1>2. ~Disturbed => UpToDate(q)' /\ RoundsFit'
  <2>1. SUFFICES ASSUME ~Disturbed PROVE UpToDate(q)' /\ RoundsFit'
    OBVIOUS
  <2>2. RoundsFit /\ UpToDate(q)
    BY <2>1 DEF LoopInv, Undisturbed
  <2>3. RoundsFit'
    BY <2>2 DEF RoundsFit
  <2>4. UpToDate(q)'
    BY <2>2 DEF UpToDate, FeedbackGate, RoundExists
  <2>5. QED BY <2>3, <2>4
<1>3. session' \in Session /\ (Early' <=> Early)
  BY DEF LoopInv, LoopTypeOK, Early
<1>4. QED BY <1>1, <1>2, <1>3, BeginKeeps

LEMMA PlanRoundKeeps ==
  ASSUME LoopInv, NEW c \in Requester, NEW n \in 1..2, PlanRound(c, n)
  PROVE  LoopInv'
<1>1. session \in Session /\ session.status \in LoopStatus
  BY SessionNow DEF LoopInv
<1>2. Enter(c) /\ UNCHANGED <<rounds, planned, iterations, ran>>
  BY DEF PlanRound, BeginWith
<1>3. CASE session' = session
  <2>1. PICK q \in Held :
          /\ Becomes(c, q) /\ q.at \in {"fail", "context"} /\ q.s = session
          /\ q.at = "fail" => q.why \in Failure
    <3>1. CASE BeginWith(c, "context", StartPlanning(session, n), n)
               /\ session' = StartPlanning(session, n)
      <4>1. PICK q : q = [NoRequest EXCEPT !.at = "context", !.s = session, !.n = n]
        OBVIOUS
      <4>2. q \in Held /\ q.at = "context" /\ q.s = session
        BY <1>1, <4>1, NothingTyped DEF NoRequest, Held, RequestLabel
      <4>3. Becomes(c, q)
        BY <1>3, <3>1, <4>1 DEF BeginWith, Becomes
      <4>4. QED BY <4>2, <4>3
    <3>2. CASE request' = [request EXCEPT ![c] =
                 [NoRequest EXCEPT !.at = "fail", !.s = session,
                                   !.n = n, !.why = "provider_failed"]]
      <4>1. PICK q : q = [NoRequest EXCEPT !.at = "fail", !.s = session,
                                           !.n = n, !.why = "provider_failed"]
        OBVIOUS
      <4>2. q \in Held /\ q.at = "fail" /\ q.s = session /\ q.why \in Failure
        BY <1>1, <4>1, NothingTyped DEF NoRequest, Held, RequestLabel, Failure
      <4>3. Becomes(c, q)
        BY <3>2, <4>1 DEF Becomes
      <4>4. QED BY <4>2, <4>3
    <3>3. QED BY <3>1, <3>2 DEF PlanRound
  <2>2. UpToDate(q)
    BY <2>1 DEF UpToDate
  <2>3. QED BY <1>2, <1>3, <2>1, <2>2, AskKeeps DEF Early
<1>4. CASE session' # session
  <2>1. /\ BeginWith(c, "context", StartPlanning(session, n), n)
        /\ session' = StartPlanning(session, n)
    BY <1>4 DEF PlanRound
  <2>2. PICK s : s = StartPlanning(session, n)
    OBVIOUS
  <2>3. /\ s \in Session
        /\ \/ session.status = "baseline_ready" /\ s.status = "round_1_planning"
           \/ session.status = "round_1_feedback_ready" /\ s.status = "round_2_planning"
    BY <1>1, <1>4, <2>1, <2>2, Transition DEF StartPlanning, LoopStatus
  <2>4. PICK q : q = [NoRequest EXCEPT !.at = "context", !.s = s, !.n = n]
    OBVIOUS
  <2>5. q \in Held /\ q.at = "context" /\ q.s = s
    BY <2>3, <2>4, NothingTyped DEF NoRequest, Held, RequestLabel
  <2>6. Becomes(c, q) /\ session' = s
    BY <2>1, <2>2, <2>4 DEF BeginWith, Becomes
  <2>7. /\ overlaps' \in 0..MaxDisturbances /\ deaths' = deaths
        /\ request[c].at = "idle"
        /\ \/ Active = {} /\ overlaps' = overlaps
           \/ Active # {} /\ overlaps' = overlaps + 1
    BY <1>2, EnterTyped DEF LoopInv
  <2>8. (Early' <=> Early) /\ (s.status \in Before => Early)
    BY <2>3, <2>6 DEF Early, Before
  <2>9. ~Disturbed => UpToDate(q)' /\ RoundsFit'
    <3>1. UpToDate(q)'
      BY <2>5, <2>6 DEF UpToDate
    <3>2. ~Disturbed => RoundsFit'
      BY <1>2, <2>3, <2>6 DEF RoundsFit, PastRound1, LoopInv, Undisturbed
    <3>3. QED BY <3>1, <3>2
  <2>10. QED BY <1>2, <2>3, <2>5, <2>6, <2>7, <2>8, <2>9, BeginKeeps
<1>5. QED BY <1>3, <1>4

LEMMA ReviewRoundKeeps ==
  ASSUME LoopInv, NEW c \in Requester, NEW n \in 1..2, ReviewRound(c, n)
  PROVE  LoopInv'
<1>1. session \in Session /\ rounds[n] \in Round
  BY DEF LoopInv, LoopTypeOK
<1>2. Enter(c) /\ UNCHANGED <<session, rounds, planned, iterations, ran>>
  BY DEF ReviewRound
<1>3. PICK l \in {"critic", "fail"}, w \in Failure \cup {"none"} :
        /\ request' = [request EXCEPT ![c] =
             [NoRequest EXCEPT !.at = l, !.s = session, !.r = rounds[n], !.n = n, !.why = w]]
        /\ l = "fail" => w \in Failure
  BY DEF ReviewRound, Failure
<1>4. PICK q : q = [NoRequest EXCEPT !.at = l, !.s = session, !.r = rounds[n], !.n = n,
                                     !.why = w]
  OBVIOUS
<1>5. q \in Held /\ q.at = l /\ q.s = session /\ q.r = rounds[n] /\ q.n = n /\ q.why = w
  BY <1>1, <1>3, <1>4, NothingTyped DEF NoRequest, Held, RequestLabel
<1>6. Becomes(c, q)
  BY <1>3, <1>4 DEF Becomes
<1>7. UpToDate(q)
  BY <1>3, <1>5 DEF UpToDate
<1>8. QED BY <1>2, <1>3, <1>5, <1>6, <1>7, AskKeeps DEF Early

LEMMA ApproveRoundKeeps ==
  ASSUME LoopInv, NEW c \in Requester, ApproveRound(c)
  PROVE  LoopInv'
<1>1. /\ Enter(c) /\ UNCHANGED <<session, rounds, planned, iterations, ran>>
      /\ session.status = "round_1_waiting_approval" /\ rounds[1].plan # 0
      /\ request' = [request EXCEPT ![c] =
           [NoRequest EXCEPT !.at = "iteration", !.s = session, !.r = rounds[1]]]
  BY DEF ApproveRound
<1>2. session \in Session /\ rounds[1] \in Round
  BY SessionNow DEF LoopInv
<1>3. PICK q : q = [NoRequest EXCEPT !.at = "iteration", !.s = session, !.r = rounds[1]]
  OBVIOUS
<1>4. q \in Held /\ q.at = "iteration" /\ q.s = session /\ q.r = rounds[1] /\ q.n = 1
  BY <1>2, <1>3, NothingTyped DEF NoRequest, Held, RequestLabel
<1>5. Becomes(c, q)
  BY <1>1, <1>3 DEF Becomes
<1>6. ~Disturbed /\ RoundsFit => UpToDate(q)
  <2>1. RoundsFit => rounds[1].there
    BY <1>1 DEF RoundsFit, NoRound
  <2>2. QED BY <1>1, <1>4, <2>1 DEF UpToDate
<1>7. QED BY <1>1, <1>4, <1>5, <1>6, AskKeeps DEF Early

LEMMA RejectRoundKeeps ==
  ASSUME LoopInv, NEW c \in Requester, NEW n \in 1..2, RejectRound(c, n)
  PROVE  LoopInv'
<1>1. /\ Enter(c) /\ UNCHANGED <<session, rounds, planned, iterations, ran>>
      /\ session.status = "round_1_waiting_approval"
      /\ request' = [request EXCEPT ![c] =
           [NoRequest EXCEPT !.at = "rejected", !.s = session, !.r = rounds[n], !.n = n]]
  BY DEF RejectRound
<1>2. session \in Session /\ rounds[n] \in Round
  BY DEF LoopInv, LoopTypeOK
<1>3. PICK q : q = [NoRequest EXCEPT !.at = "rejected", !.s = session, !.r = rounds[n],
                                     !.n = n]
  OBVIOUS
<1>4. q \in Held /\ q.at = "rejected" /\ q.s = session /\ q.r = rounds[n] /\ q.n = n
  BY <1>2, <1>3, NothingTyped DEF NoRequest, Held, RequestLabel
<1>5. Becomes(c, q)
  BY <1>1, <1>3 DEF Becomes
<1>6. UpToDate(q)
  BY <1>1, <1>4 DEF UpToDate
<1>7. QED BY <1>1, <1>4, <1>5, <1>6, AskKeeps DEF Early

LEMMA ExecuteRoundKeeps ==
  ASSUME LoopInv, NEW c \in Requester, ExecuteRound(c)
  PROVE  LoopInv'
<1>1. PICK w \in BOOLEAN :
        request' = [request EXCEPT ![c] =
          [NoRequest EXCEPT !.at = "execute", !.r = rounds[1],
             !.s = [session EXCEPT !.status = "round_1_executing"], !.wait = w]]
  BY DEF ExecuteRound
<1>2. /\ Enter(c) /\ UNCHANGED <<session, rounds, planned, iterations, ran>>
      /\ session.status = "round_1_waiting_approval"
      /\ rounds[1].iter # 0 /\ rounds[1].approved # 0
  BY DEF ExecuteRound
<1>3. PICK s : s = [session EXCEPT !.status = "round_1_executing"]
  OBVIOUS
<1>4. s \in Session /\ s.status = "round_1_executing" /\ rounds[1] \in Round
  BY <1>3, SessionNow, WithStatus DEF LoopInv, LoopStatus
<1>5. PICK q : q = [NoRequest EXCEPT !.at = "execute", !.r = rounds[1], !.s = s, !.wait = w]
  OBVIOUS
<1>6. q \in Held /\ q.at = "execute" /\ q.s = s /\ q.r = rounds[1] /\ q.n = 1
  BY <1>1, <1>4, <1>5, NothingTyped DEF NoRequest, Held, RequestLabel
<1>7. Becomes(c, q)
  BY <1>1, <1>3, <1>5 DEF Becomes
<1>8. UpToDate(q)
  BY <1>2, <1>3, <1>6 DEF UpToDate
<1>9. Early /\ s.status \notin Before
  BY <1>2, <1>4 DEF Early, Before
<1>10. QED BY <1>2, <1>4, <1>6, <1>7, <1>8, <1>9, AskKeeps

LEMMA RecordKeeps ==
  ASSUME LoopInv, NEW c \in Requester, RecordExecutionFeedback(c) \/ RecordFeedback(c)
  PROVE  LoopInv'
<1>1. PICK l \in {"evidence", "feedback"} :
        /\ BeginWith(c, l, session, 1)
        /\ UNCHANGED <<session, rounds, planned, iterations, ran>>
        /\ l = "evidence" => rounds[1].iter # 0
        /\ l = "feedback" => rounds[1].there
  BY DEF RecordExecutionFeedback, RecordFeedback, RoundExists
<1>2. session \in Session
  BY SessionNow DEF LoopInv
<1>3. PICK q : q = [NoRequest EXCEPT !.at = l, !.s = session, !.n = 1]
  OBVIOUS
<1>4. q \in Held /\ q.at = l /\ q.s = session /\ q.n = 1
  BY <1>1, <1>2, <1>3, NothingTyped DEF NoRequest, Held, RequestLabel
<1>5. Becomes(c, q) /\ Enter(c)
  BY <1>1, <1>3 DEF Becomes, BeginWith
<1>6. ~Disturbed /\ RoundsFit => UpToDate(q)
  <2>1. RoundsFit => rounds[1].there
    BY <1>1 DEF RoundsFit, NoRound
  <2>2. QED BY <1>1, <1>4, <2>1 DEF UpToDate
<1>7. QED BY <1>1, <1>4, <1>5, <1>6, AskKeeps DEF Early

-----------------------------------------------------------------------------
(* The requests, as they go on.                                             *)

LEMMA HeldNow ==
  ASSUME LoopInv, NEW c \in Requester
  PROVE  /\ request[c] \in Held /\ request \in [Requester -> Held]
         /\ session \in Session /\ rounds \in [1..2 -> Round]
         /\ planned \in 0..MaxPlans /\ iterations \in [1..MaxIter -> IterStatus]
BY DEF LoopInv, LoopTypeOK

(* What a request knows that goes on alone.                                  *)
LEMMA OnItsOwn ==
  ASSUME LoopInv, ~Disturbed, NEW c \in Requester, NEW p, p = request[c], p.at # "idle"
  PROVE  /\ UpToDate(p) /\ RoundsFit
         /\ session.status = "round_1_executing"
              => ran # {} \/ p.at \in {"approve_and_run", "fail"}
BY AloneNow DEF Active, At

LEMMA WriteRoundTyped ==
  ASSUME rounds \in [1..2 -> Round], NEW n \in 1..2, NEW r \in Round, WriteRound(n, r)
  PROVE  /\ rounds' \in [1..2 -> Round] /\ rounds'[n] = r
         /\ \A m \in 1..2 : m # n => rounds'[m] = rounds[m]
         /\ r = rounds[n] => rounds' = rounds
BY DEF WriteRound

(* A request that ends.                                                     *)
LEMMA ReplyKeeps ==
  ASSUME LoopInv, NEW c \in Requester, NEW p \in Held, p = request[c],
         p.at \notin {"idle", "execute"}, Reply(c),
         session' \in Session,
         session'.status \in Before => session.status \in Before \/ p.s.status \in Before,
         rounds' \in [1..2 -> Round], planned' \in 0..MaxPlans,
         iterations' \in [1..MaxIter -> IterStatus],
         UNCHANGED <<ran, overlaps, deaths>>,
         ~Disturbed => RoundsFit' /\ (session'.status = "round_1_executing" => ran # {})
  PROVE  LoopInv'
<1>1. PICK q : q = NoRequest
  OBVIOUS
<1>2. q \in Held /\ q.at = "idle"
  BY <1>1, NothingTyped
<1>3. Becomes(c, q)
  BY <1>1 DEF Becomes, Reply
<1>4. UpToDate(q)'
  BY <1>2 DEF UpToDate
<1>5. QED BY <1>2, <1>3, <1>4, ProceedKeeps

(* A request that is going to fail the session.                             *)
LEMMA FailWithKeeps ==
  ASSUME LoopInv, NEW c \in Requester, NEW why \in Failure,
         request[c].at \notin {"idle", "execute", "rounds"}, FailWith(c, why),
         UNCHANGED <<session, rounds, planned, iterations, ran, overlaps, deaths>>
  PROVE  LoopInv'
<1>1. PICK p \in Held : p = request[c]
  BY HeldNow
<1>2. PICK q : q = [p EXCEPT !.at = "fail", !.why = why]
  OBVIOUS
<1>3. q \in Held /\ q.at = "fail" /\ q.s = p.s /\ q.why = why
  BY <1>1, <1>2 DEF Held, RequestLabel
<1>4. Becomes(c, q)
  BY <1>1, <1>2, HeldNow DEF FailWith, Becomes
<1>5. ASSUME ~Disturbed PROVE UpToDate(q)' /\ RoundsFit'
  <2>1. UpToDate(p) /\ RoundsFit
    BY <1>1, <1>5, OnItsOwn
  <2>2. q.s = session'
    BY <1>1, <1>3, <2>1 DEF UpToDate
  <2>3. UpToDate(q)'
    BY <1>3, <2>2 DEF UpToDate
  <2>4. RoundsFit'
    BY <2>1 DEF RoundsFit
  <2>5. QED BY <2>3, <2>4
<1>6. /\ session' \in Session /\ session'.status = session.status
      /\ rounds' \in [1..2 -> Round] /\ planned' \in 0..MaxPlans
      /\ iterations' \in [1..MaxIter -> IterStatus]
  BY HeldNow
<1>7. QED BY <1>1, <1>3, <1>4, <1>5, <1>6, ProceedKeeps

LEMMA CreateRoundKeeps ==
  ASSUME LoopInv, NEW c \in Requester, CreateRound(c)
  PROVE  LoopInv'
<1>1. PICK p \in Held : p = request[c] /\ p.at = "rounds"
  BY HeldNow DEF CreateRound, At
<1>2. PICK n \in 1..2 :
        /\ n = IF rounds[1].there THEN 2 ELSE 1
        /\ WriteRound(n, [NoRound EXCEPT !.there = TRUE])
        /\ IF n = 2 THEN Reply(c) ELSE UNCHANGED request
        /\ UNCHANGED <<session, planned, iterations, ran, overlaps, deaths>>
  BY DEF CreateRound, RoundExists
<1>3. PICK r : r = [NoRound EXCEPT !.there = TRUE]
  OBVIOUS
<1>4. r \in Round /\ r.there /\ r.plan = 0
  BY <1>3, NothingTyped DEF NoRound, Round
<1>5. /\ rounds' \in [1..2 -> Round] /\ rounds'[n] = r
      /\ \A m \in 1..2 : m # n => rounds'[m] = rounds[m]
  BY <1>2, <1>3, <1>4, HeldNow, WriteRoundTyped
<1>6. /\ session' \in Session /\ session'.status = session.status
      /\ planned' \in 0..MaxPlans /\ iterations' \in [1..MaxIter -> IterStatus]
  BY <1>2, HeldNow
<1>7. ASSUME ~Disturbed
      PROVE  session.status = "created" /\ RoundsFit'
  <2>1. UpToDate(p) /\ RoundsFit
    BY <1>1, <1>7, OnItsOwn
  <2>2. session.status = "created"
    BY <1>1, <2>1 DEF UpToDate
  <2>3. /\ rounds[2].there => rounds[1].there
        /\ \A m \in 1..2 : ~rounds[m].there => rounds[m] = NoRound
    BY <2>1 DEF RoundsFit
  <2>4. CASE n = 1
    <3>1. ~rounds[1].there /\ ~rounds[2].there
      BY <1>2, <2>3, <2>4
    <3>2. rounds'[2] = NoRound /\ rounds'[1] = r
      BY <1>5, <2>3, <2>4, <3>1
    <3>3. ~rounds'[2].there /\ rounds'[2].plan = 0
      BY <3>2 DEF NoRound
    <3>4. QED BY <1>2, <1>4, <2>2, <2>4, <3>2, <3>3 DEF RoundsFit, PastRound1
  <2>5. CASE n = 2
    <3>1. rounds'[1].there /\ rounds'[2] = r
      BY <1>2, <1>5, <2>5
    <3>2. QED BY <1>2, <1>4, <2>2, <2>5, <3>1 DEF RoundsFit, PastRound1
  <2>6. QED BY <2>2, <2>4, <2>5
<1>8. CASE n = 2
  BY <1>1, <1>2, <1>5, <1>6, <1>7, <1>8, ReplyKeeps
<1>9. CASE n = 1
  <2>1. Becomes(c, p)
    BY <1>1, <1>2, <1>9, HeldNow DEF Becomes
  <2>2. ~Disturbed => UpToDate(p)'
    BY <1>1, <1>2, <1>7 DEF UpToDate
  <2>3. QED BY <1>1, <1>2, <1>5, <1>6, <1>7, <2>1, <2>2, ProceedKeeps
<1>10. QED BY <1>8, <1>9

LEMMA FailKeeps ==
  ASSUME LoopInv, NEW c \in Requester, Fail(c)
  PROVE  LoopInv'
<1>1. PICK p \in Held : p = request[c] /\ p.at = "fail"
  BY HeldNow DEF Fail, At
<1>2. p.why \in Failure /\ p.s \in Session
  BY <1>1, HeldParts DEF LoopInv, HeldFits
<1>3. /\ Reply(c)
      /\ UNCHANGED <<rounds, planned, iterations, ran, overlaps, deaths>>
      /\ session' = IF p.s.status \in Closed THEN p.s ELSE [p.s EXCEPT !.status = p.why]
  BY <1>1 DEF Fail, Copy
<1>4. /\ session' \in Session
      /\ \/ session'.status \in Failure
         \/ session' = p.s /\ p.s.status \in Closed
  BY <1>2, <1>3, WithStatus DEF Closed, LoopStatus
<1>5. /\ rounds' \in [1..2 -> Round] /\ planned' \in 0..MaxPlans
      /\ iterations' \in [1..MaxIter -> IterStatus]
  BY <1>3, HeldNow
<1>6. session'.status \notin Before /\ session'.status # "round_1_executing"
  BY <1>4 DEF Failure, Closed, Before
<1>7. ASSUME ~Disturbed PROVE RoundsFit'
  <2>1. UpToDate(p) /\ RoundsFit
    BY <1>1, <1>7, OnItsOwn
  <2>2. p.s = session
    BY <1>1, <2>1 DEF UpToDate
  <2>3. session'.status \in PastRound1 => session'.status = session.status
    BY <1>4, <2>2 DEF PastRound1, Failure
  <2>4. QED BY <1>3, <1>6, <2>1, <2>3 DEF RoundsFit, PastRound1
<1>8. QED BY <1>1, <1>3, <1>4, <1>5, <1>6, <1>7, ReplyKeeps

LEMMA PlanContextKeeps ==
  ASSUME LoopInv, NEW c \in Requester, PlanContext(c)
  PROVE  LoopInv'
<1>1. PICK p \in Held : p = request[c] /\ p.at = "context"
  BY HeldNow DEF PlanContext, At
<1>2. UNCHANGED <<session, rounds, planned, iterations, ran, overlaps, deaths>>
  BY DEF PlanContext
<1>3. CASE FeedbackGate(p.n) /\ GoOn(c, "planner")
  <2>1. PICK q : q = [p EXCEPT !.at = "planner"]
    OBVIOUS
  <2>2. q \in Held /\ q.at = "planner" /\ q.s = p.s /\ q.n = p.n
    BY <1>1, <2>1 DEF Held, RequestLabel
  <2>3. Becomes(c, q)
    BY <1>1, <1>3, <2>1, HeldNow DEF GoOn, Becomes, Held
  <2>4. ASSUME ~Disturbed
        PROVE  /\ UpToDate(q)' /\ RoundsFit'
               /\ session'.status = "round_1_executing" => ran # {}
    <3>1. /\ UpToDate(p) /\ RoundsFit
          /\ session.status = "round_1_executing" => ran # {}
      BY <1>1, <2>4, OnItsOwn
    <3>2. q.s = session' /\ (FeedbackGate(q.n))'
      BY <1>1, <1>2, <1>3, <2>2, <3>1 DEF UpToDate, FeedbackGate, RoundExists
    <3>3. UpToDate(q)'
      BY <2>2, <3>2 DEF UpToDate
    <3>4. RoundsFit'
      BY <1>2, <3>1 DEF RoundsFit
    <3>5. QED BY <1>2, <3>1, <3>3, <3>4
  <2>5. /\ session' \in Session /\ rounds' \in [1..2 -> Round] /\ planned' \in 0..MaxPlans
        /\ iterations' \in [1..MaxIter -> IterStatus]
    BY <1>2, HeldNow
  <2>6. QED BY <1>1, <1>2, <2>2, <2>3, <2>4, <2>5, ProceedKeeps
<1>4. CASE \E why \in Failure : FailWith(c, why)
  BY <1>1, <1>2, <1>4, FailWithKeeps
<1>5. QED BY <1>1, <1>3, <1>4 DEF PlanContext, N, Failure

(* A request that goes on to its next step, and may have written a round.   *)
LEMMA GoOnKeeps ==
  ASSUME LoopInv, NEW c \in Requester, NEW p \in Held, p = request[c],
         NEW l \in {"planned", "reviewed", "save", "ran_session", "fed"}, GoOn(c, l),
         p.at \notin {"idle", "execute", "approve_and_run", "fail"},
         l = "ran_session" => p.at = "ran",
         NEW q, q = [p EXCEPT !.at = l],
         UNCHANGED <<session, iterations, ran, overlaps, deaths>>,
         rounds' \in [1..2 -> Round], planned' \in 0..MaxPlans,
         ~Disturbed => UpToDate(q)' /\ RoundsFit'
  PROVE  LoopInv'
<1>1. q \in Held /\ q.at = l /\ q.s = p.s /\ q.r = p.r
  BY DEF Held, RequestLabel
<1>2. Becomes(c, q)
  BY HeldNow DEF GoOn, Becomes
<1>3. q.at \in {"ran", "ran_session"}
        => q.r.iter # 0 /\ q.r.approved # 0 /\ q.s.status = "round_1_executing"
  BY <1>1 DEF LoopInv, HeldFits
<1>4. ~Disturbed /\ session'.status = "round_1_executing" => ran # {}
  BY OnItsOwn
<1>5. /\ session' \in Session /\ session'.status = session.status
      /\ iterations' \in [1..MaxIter -> IterStatus]
  BY HeldNow
<1>6. QED BY <1>1, <1>2, <1>3, <1>4, <1>5, ProceedKeeps

LEMMA PlannerKeeps ==
  ASSUME LoopInv, NEW c \in Requester, Planner(c)
  PROVE  LoopInv'
<1>1. PICK p \in Held : p = request[c] /\ p.at = "planner"
  BY HeldNow DEF Planner, At
<1>2. UNCHANGED <<session, iterations, ran, overlaps, deaths>>
  BY DEF Planner
<1>3. CASE /\ planned < MaxPlans /\ planned' = planned + 1
           /\ WriteRound(p.n, [rounds[p.n] EXCEPT !.plan = planned + 1])
           /\ GoOn(c, "planned")
  <2>1. planned' \in 0..MaxPlans /\ planned' # 0
    BY <1>3, HeldNow, LoopBounds
  <2>2. p.n \in 1..2 /\ rounds[p.n] \in Round
    BY HeldParts, HeldNow
  <2>3. PICK r : r = [rounds[p.n] EXCEPT !.plan = planned']
    OBVIOUS
  <2>4. /\ r \in Round /\ r.plan # 0 /\ r.there = rounds[p.n].there
        /\ r.fed = rounds[p.n].fed /\ r.approved = rounds[p.n].approved
    BY <2>1, <2>2, <2>3 DEF Round
  <2>5. /\ rounds' \in [1..2 -> Round] /\ rounds'[p.n] = r
        /\ \A m \in 1..2 : m # p.n => rounds'[m] = rounds[m]
    BY <1>3, <2>2, <2>3, <2>4, HeldNow, WriteRoundTyped
  <2>6. PICK q : q = [p EXCEPT !.at = "planned"]
    OBVIOUS
  <2>7. ASSUME ~Disturbed PROVE UpToDate(q)' /\ RoundsFit'
    <3>1. q.at = "planned" /\ q.s = p.s /\ q.n = p.n
      BY <2>6 DEF Held
    <3>2. UpToDate(p) /\ RoundsFit
      BY <1>1, <2>7, OnItsOwn
    <3>3. /\ p.s = session /\ rounds[p.n].there /\ (p.n = 2 => rounds[1].fed)
      BY <1>1, <3>2 DEF UpToDate, FeedbackGate, RoundExists
    <3>4. UpToDate(q)'
      BY <1>2, <2>4, <2>5, <3>1, <3>3 DEF UpToDate
    <3>5. RoundsFit'
      <4>1. CASE p.n = 1
        <5>1. rounds'[1] = r /\ rounds'[2] = rounds[2]
          BY <2>5, <4>1
        <5>2. \A n \in 1..2 : n = 1 \/ n = 2
          OBVIOUS
        <5>3. QED BY <1>2, <2>4, <3>2, <3>3, <4>1, <5>1, <5>2 DEF RoundsFit
      <4>2. CASE p.n = 2
        <5>1. rounds'[2] = r /\ rounds'[1] = rounds[1]
          BY <2>5, <4>2
        <5>2. \A n \in 1..2 : n = 1 \/ n = 2
          OBVIOUS
        <5>3. QED BY <1>2, <2>4, <3>2, <3>3, <4>2, <5>1, <5>2 DEF RoundsFit
      <4>3. QED BY <2>2, <4>1, <4>2
    <3>6. QED BY <3>4, <3>5
  <2>8. QED BY <1>1, <1>2, <1>3, <2>1, <2>5, <2>6, <2>7, GoOnKeeps
<1>4. CASE UNCHANGED <<rounds, planned>> /\ \E why \in Failure : FailWith(c, why)
  BY <1>1, <1>2, <1>4, FailWithKeeps
<1>5. QED BY <1>1, <1>3, <1>4 DEF Planner, N, Failure

LEMMA SavePlannedKeeps ==
  ASSUME LoopInv, NEW c \in Requester, SavePlanned(c)
  PROVE  LoopInv'
<1>1. PICK p \in Held : p = request[c] /\ p.at = "planned"
  BY HeldNow DEF SavePlanned, At
<1>2. PICK s : s = [p.s EXCEPT !.round = p.n]
  OBVIOUS
<1>3. s \in Session /\ s.status = p.s.status /\ p.n \in 1..2
  BY <1>2, HeldParts DEF Session
<1>4. /\ Reply(c) /\ UNCHANGED <<rounds, planned, iterations, ran, overlaps, deaths>>
      /\ session' = IF p.n = 1 THEN To(s, "round_1_planning", "round_1_reviewing")
                    ELSE To(s, "round_2_planning", "round_2_reviewing")
  BY <1>1, <1>2 DEF SavePlanned, Copy, N
<1>5. /\ session' \in Session
      /\ \/ session'.status = p.s.status
         \/ p.s.status = "round_1_planning" /\ session'.status = "round_1_reviewing"
         \/ /\ p.s.status = "round_2_planning" /\ session'.status = "round_2_reviewing"
            /\ p.n = 2
  BY <1>3, <1>4, Transition DEF LoopStatus
<1>6. ASSUME ~Disturbed
      PROVE  RoundsFit' /\ (session'.status = "round_1_executing" => ran # {})
  <2>1. /\ UpToDate(p) /\ RoundsFit
        /\ session.status = "round_1_executing" => ran # {}
    BY <1>1, <1>6, OnItsOwn
  <2>2. p.s = session /\ rounds[p.n].plan # 0
    BY <1>1, <2>1 DEF UpToDate
  <2>3. RoundsFit'
    BY <1>4, <1>5, <2>1, <2>2 DEF RoundsFit, PastRound1
  <2>4. QED BY <1>5, <2>1, <2>2, <2>3
<1>7. /\ rounds' \in [1..2 -> Round] /\ planned' \in 0..MaxPlans
      /\ iterations' \in [1..MaxIter -> IterStatus]
  BY <1>4, HeldNow
<1>8. session'.status \in Before => p.s.status \in Before
  BY <1>5 DEF Before
<1>9. QED BY <1>1, <1>4, <1>5, <1>6, <1>7, <1>8, ReplyKeeps

LEMMA CriticKeeps ==
  ASSUME LoopInv, NEW c \in Requester, Critic(c)
  PROVE  LoopInv'
<1>1. PICK p \in Held : p = request[c] /\ p.at = "critic"
  BY HeldNow DEF Critic, At
<1>2. UNCHANGED <<session, planned, iterations, ran, overlaps, deaths>>
  BY DEF Critic
<1>3. CASE WriteRound(p.n, p.r) /\ GoOn(c, "reviewed")
  <2>1. p.n \in 1..2 /\ p.r \in Round
    BY HeldParts
  <2>2. /\ rounds' \in [1..2 -> Round]
        /\ p.r = rounds[p.n] => rounds' = rounds
    BY <1>3, <2>1, HeldNow, WriteRoundTyped
  <2>3. PICK q : q = [p EXCEPT !.at = "reviewed"]
    OBVIOUS
  <2>4. ASSUME ~Disturbed PROVE UpToDate(q)' /\ RoundsFit'
    <3>1. q.at = "reviewed" /\ q.s = p.s
      BY <2>3 DEF Held
    <3>2. UpToDate(p) /\ RoundsFit
      BY <1>1, <2>4, OnItsOwn
    <3>3. p.s = session /\ p.r = rounds[p.n]
      BY <1>1, <3>2 DEF UpToDate
    <3>4. UpToDate(q)'
      BY <1>2, <3>1, <3>3 DEF UpToDate
    <3>5. RoundsFit'
      BY <1>2, <2>2, <3>2, <3>3 DEF RoundsFit
    <3>6. QED BY <3>4, <3>5
  <2>5. planned' \in 0..MaxPlans
    BY <1>2, HeldNow
  <2>6. QED BY <1>1, <1>2, <1>3, <2>2, <2>3, <2>4, <2>5, GoOnKeeps
<1>4. CASE UNCHANGED rounds /\ \E why \in Failure : FailWith(c, why)
  BY <1>1, <1>2, <1>4, FailWithKeeps
<1>5. QED BY <1>1, <1>3, <1>4 DEF Critic, N, Failure

LEMMA SaveReviewedKeeps ==
  ASSUME LoopInv, NEW c \in Requester, SaveReviewed(c)
  PROVE  LoopInv'
<1>1. PICK p \in Held : p = request[c] /\ p.at = "reviewed"
  BY HeldNow DEF SaveReviewed, At
<1>2. /\ Reply(c) /\ UNCHANGED <<rounds, planned, iterations, ran, overlaps, deaths>>
      /\ session' = IF p.n = 1
                    THEN To(p.s, "round_1_reviewing", "round_1_waiting_approval")
                    ELSE To(p.s, "round_2_reviewing", "completed")
  BY <1>1 DEF SaveReviewed, Copy, N
<1>3. /\ session' \in Session
      /\ \/ session'.status = p.s.status
         \/ /\ p.s.status = "round_1_reviewing"
            /\ session'.status = "round_1_waiting_approval"
         \/ p.s.status = "round_2_reviewing" /\ session'.status = "completed"
  BY <1>2, HeldParts, Transition DEF LoopStatus, Closed
<1>4. ASSUME ~Disturbed
      PROVE  RoundsFit' /\ (session'.status = "round_1_executing" => ran # {})
  <2>1. /\ UpToDate(p) /\ RoundsFit
        /\ session.status = "round_1_executing" => ran # {}
    BY <1>1, <1>4, OnItsOwn
  <2>2. p.s = session
    BY <1>1, <2>1 DEF UpToDate
  <2>3. RoundsFit'
    BY <1>2, <1>3, <2>1, <2>2 DEF RoundsFit, PastRound1
  <2>4. QED BY <1>3, <2>1, <2>2, <2>3
<1>5. /\ rounds' \in [1..2 -> Round] /\ planned' \in 0..MaxPlans
      /\ iterations' \in [1..MaxIter -> IterStatus]
  BY <1>2, HeldNow
<1>6. session'.status \in Before => p.s.status \in Before
  BY <1>3 DEF Before
<1>7. QED BY <1>1, <1>2, <1>3, <1>4, <1>5, <1>6, ReplyKeeps

LEMMA StartIterationKeeps ==
  ASSUME LoopInv, NEW c \in Requester, StartIteration(c)
  PROVE  LoopInv'
<1>1. PICK p \in Held : p = request[c] /\ p.at = "iteration"
  BY HeldNow DEF StartIteration, At
<1>2. UNCHANGED <<session, rounds, planned, ran, overlaps, deaths>>
  BY DEF StartIteration
<1>3. /\ session' \in Session /\ session'.status = session.status
      /\ rounds' \in [1..2 -> Round] /\ planned' \in 0..MaxPlans
  BY <1>2, HeldNow
<1>4. iterations' \in [1..MaxIter -> IterStatus]
  BY HeldNow DEF StartIteration, IterStatus
<1>5. ASSUME ~Disturbed
      PROVE  /\ UpToDate(p) /\ RoundsFit /\ RoundsFit'
             /\ session'.status = "round_1_waiting_approval"
  <2>1. UpToDate(p) /\ RoundsFit
    BY <1>1, <1>5, OnItsOwn
  <2>2. session.status = "round_1_waiting_approval"
    BY <1>1, <2>1 DEF UpToDate
  <2>3. RoundsFit'
    BY <1>2, <2>1 DEF RoundsFit
  <2>4. QED BY <1>2, <2>1, <2>2, <2>3
<1>6. CASE Reply(c)
  BY <1>1, <1>2, <1>3, <1>4, <1>5, <1>6, ReplyKeeps
<1>7. CASE ~Reply(c)
  <2>1. PICK k : /\ k = 1 + Cardinality({i \in 1..MaxIter : iterations[i] # "absent"})
                 /\ k <= MaxIter
                 /\ request' = [request EXCEPT ![c].at = "approved",
                                  ![c].r.approved = request[c].r.plan, ![c].r.iter = k]
    BY <1>7 DEF StartIteration
  <2>2. k \in 0..MaxIter
    <3>1. IsFiniteSet(1..MaxIter)
      BY LoopBounds, FS_Interval
    <3>2. IsFiniteSet({i \in 1..MaxIter : iterations[i] # "absent"})
      BY <3>1, FS_Subset
    <3>3. Cardinality({i \in 1..MaxIter : iterations[i] # "absent"}) \in Nat
      BY <3>2, FS_CardinalityType
    <3>4. QED BY <2>1, <3>3, LoopBounds
  <2>3. PICK r : r = [p.r EXCEPT !.approved = p.r.plan, !.iter = k]
    OBVIOUS
  <2>4. r \in Round /\ r.there = p.r.there /\ r.fed = p.r.fed
    BY <2>2, <2>3, HeldParts DEF Round
  <2>5. PICK q : q = [p EXCEPT !.at = "approved", !.r = r]
    OBVIOUS
  <2>6. q \in Held /\ q.at = "approved" /\ q.r = r /\ q.s = p.s /\ q.n = p.n
    BY <2>4, <2>5 DEF Held, RequestLabel
  <2>7. Becomes(c, q)
    <3>1. [request EXCEPT ![c].at = "approved", ![c].r.approved = request[c].r.plan,
                          ![c].r.iter = k]
            = [request EXCEPT ![c] = q]
      BY <1>1, <2>3, <2>5, HeldNow DEF Held, Round
    <3>2. QED BY <2>1, <3>1 DEF Becomes
  <2>8. ~Disturbed => UpToDate(q)'
    <3>1. UpToDate(p) /\ RoundsFit
            => /\ p.s = session /\ p.n = 1 /\ p.r.there /\ p.r.fed = rounds[1].fed
               /\ session.status = "round_1_waiting_approval"
      BY <1>1 DEF UpToDate
    <3>2. QED BY <1>2, <1>5, <2>4, <2>6, <3>1 DEF UpToDate
  <2>9. QED BY <1>1, <1>2, <1>3, <1>4, <1>5, <2>6, <2>7, <2>8, ProceedKeeps
<1>8. QED BY <1>6, <1>7

LEMMA SaveApprovedKeeps ==
  ASSUME LoopInv, NEW c \in Requester, SaveApproved(c)
  PROVE  LoopInv'
<1>1. PICK p \in Held : p = request[c] /\ p.at = "approved"
  BY HeldNow DEF SaveApproved, At
<1>2. /\ WriteRound(1, p.r) /\ GoOn(c, "save")
      /\ UNCHANGED <<session, planned, iterations, ran, overlaps, deaths>>
  BY <1>1 DEF SaveApproved
<1>3. p.r \in Round
  BY HeldParts
<1>4. rounds' \in [1..2 -> Round] /\ rounds'[1] = p.r /\ rounds'[2] = rounds[2]
  BY <1>2, <1>3, HeldNow, WriteRoundTyped
<1>5. PICK q : q = [p EXCEPT !.at = "save"]
  OBVIOUS
<1>6. ASSUME ~Disturbed PROVE UpToDate(q)' /\ RoundsFit'
  <2>1. q.at = "save" /\ q.s = p.s
    BY <1>5 DEF Held
  <2>2. UpToDate(p) /\ RoundsFit
    BY <1>1, <1>6, OnItsOwn
  <2>3. /\ p.s = session /\ p.r.there /\ p.r.fed = rounds[1].fed
        /\ session.status = "round_1_waiting_approval"
    BY <1>1, <2>2 DEF UpToDate
  <2>4. UpToDate(q)'
    BY <1>2, <2>1, <2>3 DEF UpToDate
  <2>5. \A n \in 1..2 : n = 1 \/ n = 2
    OBVIOUS
  <2>6. RoundsFit'
    BY <1>2, <1>4, <2>2, <2>3, <2>5 DEF RoundsFit, PastRound1
  <2>7. QED BY <2>4, <2>6
<1>7. planned' \in 0..MaxPlans
  BY <1>2, HeldNow
<1>8. QED BY <1>1, <1>2, <1>4, <1>5, <1>6, <1>7, GoOnKeeps

LEMMA SaveSessionKeeps ==
  ASSUME LoopInv, NEW c \in Requester, SaveSession(c)
  PROVE  LoopInv'
<1>1. PICK p \in Held : p = request[c] /\ p.at = "save"
  BY HeldNow DEF SaveSession, At
<1>2. /\ session' = p.s /\ Reply(c)
      /\ UNCHANGED <<rounds, planned, iterations, ran, overlaps, deaths>>
  BY <1>1 DEF SaveSession, Copy
<1>3. ASSUME ~Disturbed
      PROVE  RoundsFit' /\ (session'.status = "round_1_executing" => ran # {})
  <2>1. UpToDate(p) /\ RoundsFit
    BY <1>1, <1>3, OnItsOwn
  <2>2. p.s = session /\ session.status = "round_1_waiting_approval"
    BY <1>1, <2>1 DEF UpToDate
  <2>3. QED BY <1>2, <2>1, <2>2 DEF RoundsFit
<1>4. /\ session' \in Session /\ rounds' \in [1..2 -> Round] /\ planned' \in 0..MaxPlans
      /\ iterations' \in [1..MaxIter -> IterStatus]
  BY <1>2, HeldParts, HeldNow
<1>5. QED BY <1>1, <1>2, <1>3, <1>4, ReplyKeeps

LEMMA SaveRejectedKeeps ==
  ASSUME LoopInv, NEW c \in Requester, SaveRejected(c)
  PROVE  LoopInv'
<1>1. PICK p \in Held : p = request[c] /\ p.at = "rejected"
  BY HeldNow DEF SaveRejected, At
<1>2. /\ WriteRound(p.n, p.r) /\ Reply(c)
      /\ session' = [p.s EXCEPT !.status = "candidate_rejected"]
      /\ UNCHANGED <<planned, iterations, ran, overlaps, deaths>>
  BY <1>1 DEF SaveRejected, Copy, N
<1>3. session' \in Session /\ session'.status = "candidate_rejected"
  BY <1>2, HeldParts, WithStatus DEF LoopStatus, Closed, Failure
<1>4. /\ rounds' \in [1..2 -> Round]
      /\ p.r = rounds[p.n] => rounds' = rounds
  BY <1>2, HeldParts, HeldNow, WriteRoundTyped
<1>5. ASSUME ~Disturbed PROVE RoundsFit'
  <2>1. UpToDate(p) /\ RoundsFit
    BY <1>1, <1>5, OnItsOwn
  <2>2. p.r = rounds[p.n]
    BY <1>1, <2>1 DEF UpToDate
  <2>3. QED BY <1>2, <1>3, <1>4, <2>1, <2>2 DEF RoundsFit, PastRound1
<1>6. /\ planned' \in 0..MaxPlans /\ iterations' \in [1..MaxIter -> IterStatus]
      /\ session'.status \notin Before
  BY <1>2, <1>3, HeldNow DEF Before
<1>7. QED BY <1>1, <1>2, <1>3, <1>4, <1>5, <1>6, ReplyKeeps

LEMMA SaveRanKeeps ==
  ASSUME LoopInv, NEW c \in Requester, SaveRan(c)
  PROVE  LoopInv'
<1>1. PICK p \in Held : p = request[c] /\ p.at = "ran"
  BY HeldNow DEF SaveRan, At
<1>2. /\ WriteRound(1, p.r) /\ GoOn(c, "ran_session")
      /\ UNCHANGED <<session, planned, iterations, ran, overlaps, deaths>>
  BY <1>1 DEF SaveRan
<1>3. /\ rounds' \in [1..2 -> Round]
      /\ p.r = rounds[1] => rounds' = rounds
  BY <1>2, HeldParts, HeldNow, WriteRoundTyped
<1>4. PICK q : q = [p EXCEPT !.at = "ran_session"]
  OBVIOUS
<1>5. ASSUME ~Disturbed PROVE UpToDate(q)' /\ RoundsFit'
  <2>1. q.at = "ran_session" /\ q.s = p.s
    BY <1>4 DEF Held
  <2>2. UpToDate(p) /\ RoundsFit
    BY <1>1, <1>5, OnItsOwn
  <2>3. p.s = session /\ p.r = rounds[1] /\ ran # {}
    BY <1>1, <2>2 DEF UpToDate
  <2>4. UpToDate(q)'
    BY <1>2, <2>1, <2>3 DEF UpToDate
  <2>5. RoundsFit'
    BY <1>2, <1>3, <2>2, <2>3 DEF RoundsFit
  <2>6. QED BY <2>4, <2>5
<1>6. planned' \in 0..MaxPlans
  BY <1>2, HeldNow
<1>7. QED BY <1>1, <1>2, <1>3, <1>4, <1>5, <1>6, GoOnKeeps

LEMMA SaveRanSessionKeeps ==
  ASSUME LoopInv, NEW c \in Requester, SaveRanSession(c)
  PROVE  LoopInv'
<1>1. PICK p \in Held : p = request[c] /\ p.at = "ran_session"
  BY HeldNow DEF SaveRanSession, At
<1>2. /\ session' = p.s
      /\ FailWith(c, "execution_failed") \/ Reply(c)
      /\ UNCHANGED <<rounds, planned, iterations, ran, overlaps, deaths>>
  BY <1>1 DEF SaveRanSession, Copy
<1>3. /\ session' \in Session /\ rounds' \in [1..2 -> Round] /\ planned' \in 0..MaxPlans
      /\ iterations' \in [1..MaxIter -> IterStatus]
  BY <1>2, HeldParts, HeldNow
<1>4. ASSUME ~Disturbed PROVE RoundsFit' /\ ran # {}
  <2>1. UpToDate(p) /\ RoundsFit
    BY <1>1, <1>4, OnItsOwn
  <2>2. p.s = session /\ ran # {}
    BY <1>1, <2>1 DEF UpToDate
  <2>3. QED BY <1>2, <2>1, <2>2 DEF RoundsFit
<1>5. CASE Reply(c)
  BY <1>1, <1>2, <1>3, <1>4, <1>5, ReplyKeeps
<1>6. CASE FailWith(c, "execution_failed")
  <2>1. PICK q : q = [p EXCEPT !.at = "fail", !.why = "execution_failed"]
    OBVIOUS
  <2>2. q \in Held /\ q.at = "fail" /\ q.s = p.s /\ q.why \in Failure
    BY <1>1, <2>1 DEF Held, RequestLabel, Failure
  <2>3. Becomes(c, q)
    BY <1>1, <1>6, <2>1, HeldNow DEF FailWith, Becomes
  <2>4. UpToDate(q)'
    BY <1>2, <2>2 DEF UpToDate
  <2>5. QED BY <1>1, <1>2, <1>3, <1>4, <2>2, <2>3, <2>4, ProceedKeeps
<1>7. QED BY <1>2, <1>5, <1>6

LEMMA SaveExecutingKeeps ==
  ASSUME LoopInv, NEW c \in Requester, SaveExecuting(c)
  PROVE  LoopInv'
<1>1. PICK p \in Held : p = request[c] /\ p.at = "execute"
  BY HeldNow DEF SaveExecuting, At
<1>2. /\ WriteRound(1, p.r) /\ session' = p.s /\ GoOn(c, "approve_and_run")
      /\ UNCHANGED <<planned, iterations, ran, overlaps, deaths>>
  BY <1>1 DEF SaveExecuting, Copy
<1>3. p.r.iter # 0 /\ p.r.approved # 0 /\ p.s.status = "round_1_executing"
  BY <1>1 DEF LoopInv, HeldFits
<1>4. /\ rounds' \in [1..2 -> Round]
      /\ p.r = rounds[1] => rounds' = rounds
  BY <1>2, HeldParts, HeldNow, WriteRoundTyped
<1>5. PICK q : q = [p EXCEPT !.at = "approve_and_run"]
  OBVIOUS
<1>6. /\ q \in Held /\ q.at = "approve_and_run"
      /\ q.s = p.s /\ q.r = p.r /\ q.n = p.n
  BY <1>5 DEF Held, RequestLabel
<1>7. Becomes(c, q)
  BY <1>1, <1>2, <1>5, HeldNow DEF GoOn, Becomes
<1>8. /\ request' \in [Requester -> Held] /\ request'[c] = q
      /\ \A d \in Requester \ {c} : request'[d] = request[d]
  BY <1>6, <1>7, OthersStay DEF LoopInv
<1>9. LoopTypeOK'
  <2>1. session' \in Session
    BY <1>2, HeldParts
  <2>2. QED BY <1>2, <1>4, <1>8, <2>1 DEF LoopInv, LoopTypeOK
<1>10. HeldFits'
  BY <1>3, <1>6, <1>8 DEF LoopInv, HeldFits
<1>11. RunsPaid'
  <2>1. IsFiniteSet(Active')
    BY <1>6, <1>7, ActiveMoves DEF LoopInv, RunsPaid
  <2>2. c \in Restorers
    BY <1>1 DEF Restorers, Active, At
  <2>3. Starters' = Starters \cup {c}
    BY <1>6, <1>8 DEF Starters, At
  <2>4. Restorers' \subseteq Restorers
    BY <1>3, <1>6, <1>8 DEF Restorers, Active, At, Copy, Before
  <2>5. Readers' \subseteq Readers
    <3>1. ASSUME NEW d \in Readers' PROVE d \in Readers
      <4>1. d # c /\ d \in Requester /\ request'[d] = request[d]
        BY <1>6, <1>8, <3>1 DEF Readers, Active, At
      <4>2. QED BY <3>1, <4>1 DEF Readers, Restorers, Active, At, Copy
    <3>2. QED BY <3>1
  <2>6. ~Early'
    BY <1>2, <1>3 DEF Early, Before
  <2>7. QED BY <1>2, <2>1, <2>2, <2>3, <2>4, <2>5, <2>6, PaidIfExecuting
               DEF LoopInv
<1>12. Undisturbed'
  <2>1. SUFFICES ASSUME ~Disturbed' PROVE Undisturbed'
    BY DEF Undisturbed
  <2>2. ~Disturbed
    BY <1>2, <2>1 DEF Disturbed
  <2>3. c \in Active
    BY <1>1 DEF Active, At
  <2>4. UpToDate(p) /\ RoundsFit /\ Active \subseteq {c}
    BY <1>1, <2>2, <2>3, AloneNow
  <2>5. /\ p.n = 1 /\ p.r = rounds[1] /\ session.status = "round_1_waiting_approval"
        /\ rounds' = rounds
    BY <1>1, <1>4, <2>4 DEF UpToDate
  <2>6. UpToDate(q)'
    BY <1>2, <1>6, <2>5 DEF UpToDate
  <2>7. RoundsFit'
    BY <1>2, <1>3, <2>4, <2>5 DEF RoundsFit, PastRound1
  <2>8. QED BY <1>6, <1>7, <2>4, <2>6, <2>7, AloneKeeps DEF LoopInv
<1>13. QED BY <1>9, <1>10, <1>11, <1>12 DEF LoopInv

LEMMA ApproveAndRunKeeps ==
  ASSUME LoopInv, NEW c \in Requester, ApproveAndRun(c)
  PROVE  LoopInv'
<1>1. PICK p \in Held : p = request[c] /\ p.at = "approve_and_run"
  BY HeldNow DEF ApproveAndRun, At
<1>2. UNCHANGED <<session, rounds, planned, overlaps, deaths>>
  BY DEF ApproveAndRun
<1>3. CASE FailWith(c, "execution_failed") /\ UNCHANGED <<iterations, ran>>
  BY <1>1, <1>2, <1>3, FailWithKeeps DEF Failure
<1>4. CASE /\ iterations' = [iterations EXCEPT ![p.r.iter] = "running"]
           /\ ran' = ran \cup {p.r.iter}
           /\ GoOn(c, "ran")
  <2>1. p.r.iter # 0 /\ p.r.approved # 0 /\ p.s.status = "round_1_executing"
    BY <1>1 DEF LoopInv, HeldFits
  <2>2. p.r.iter \in 1..MaxIter
    <3>1. p.r.iter \in 0..MaxIter
      BY HeldParts DEF Round
    <3>2. QED BY <2>1, <3>1, LoopBounds
  <2>3. PICK q : q = [p EXCEPT !.at = "ran"]
    OBVIOUS
  <2>4. q \in Held /\ q.at = "ran" /\ q.s = p.s /\ q.r = p.r /\ q.n = p.n
    BY <2>3 DEF Held, RequestLabel
  <2>5. Becomes(c, q)
    BY <1>1, <1>4, <2>3, HeldNow DEF GoOn, Becomes
  <2>6. /\ request' \in [Requester -> Held] /\ request'[c] = q
        /\ \A d \in Requester \ {c} : request'[d] = request[d]
    BY <2>4, <2>5, OthersStay DEF LoopInv
  <2>7. LoopTypeOK'
    <3>1. iterations' \in [1..MaxIter -> IterStatus]
      BY <1>4, HeldNow DEF IterStatus
    <3>2. ran' \subseteq 1..MaxIter
      BY <1>4, <2>2 DEF LoopInv, LoopTypeOK
    <3>3. QED BY <1>2, <2>6, <3>1, <3>2 DEF LoopInv, LoopTypeOK
  <2>8. HeldFits'
    BY <2>1, <2>4, <2>6 DEF LoopInv, HeldFits
  <2>9. RunsPaid'
    <3>1. IsFiniteSet(Active')
      BY <2>4, <2>5, ActiveMoves DEF LoopInv, RunsPaid
    <3>2. c \in Starters /\ c \notin Restorers \cup Readers
      BY <1>1, StartersApart DEF Starters, At, LoopInv
    <3>3. Starters' = Starters \ {c}
      BY <2>4, <2>6 DEF Starters, At
    <3>4. Restorers' = Restorers
      BY <1>1, <2>4, <2>6 DEF Restorers, Active, At, Copy
    <3>5. Readers' = Readers
      <4>1. ASSUME NEW d \in Requester, d # c PROVE d \in Readers' <=> d \in Readers
        BY <2>6, <3>4, <4>1 DEF Readers, Active, At
      <4>2. c \notin Readers /\ c \notin Readers'
        BY <1>1, <2>4, <2>6 DEF Readers, At
      <4>3. Readers \subseteq Requester /\ Readers' \subseteq Requester
        BY DEF Readers, Active
      <4>4. QED BY <4>1, <4>2, <4>3
    <3>6. Early' <=> Early
      BY <1>2 DEF Early
    <3>7. PICK k : k = p.r.iter
      OBVIOUS
    <3>8. ran' \in {ran, ran \cup {k}} /\ UNCHANGED overlaps
      BY <1>2, <1>4, <3>7
    <3>9. LoopTypeOK /\ RunsPaid
      BY DEF LoopInv
    <3>10. QED BY SMTT(30), <3>1, <3>2, <3>3, <3>4, <3>5, <3>6, <3>8, <3>9,
                  PaidIfRun
  <2>10. Undisturbed'
    <3>1. SUFFICES ASSUME ~Disturbed' PROVE Undisturbed'
      BY DEF Undisturbed
    <3>2. ~Disturbed
      BY <1>2, <3>1 DEF Disturbed
    <3>3. c \in Active
      BY <1>1 DEF Active, At
    <3>4. UpToDate(p) /\ RoundsFit /\ Active \subseteq {c}
      BY <1>1, <3>2, <3>3, AloneNow
    <3>5. ran' # {}
      BY <1>4
    <3>6. UpToDate(q)'
      BY <1>1, <1>2, <2>4, <3>4, <3>5 DEF UpToDate
    <3>7. RoundsFit'
      BY <1>2, <3>4, <3>5 DEF RoundsFit
    <3>8. QED BY <2>4, <2>5, <3>4, <3>5, <3>6, <3>7, AloneKeeps DEF LoopInv
  <2>11. QED BY <2>7, <2>8, <2>9, <2>10 DEF LoopInv
<1>5. QED BY <1>1, <1>3, <1>4 DEF ApproveAndRun

LEMMA BuildEvidenceKeeps ==
  ASSUME LoopInv, NEW c \in Requester, BuildEvidence(c)
  PROVE  LoopInv'
<1>1. PICK p \in Held : p = request[c] /\ p.at = "evidence"
  BY HeldNow DEF BuildEvidence, At
<1>2. UNCHANGED <<session, rounds, planned, iterations, ran, overlaps, deaths>>
  BY DEF BuildEvidence
<1>3. /\ session' \in Session /\ session'.status = session.status
      /\ rounds' \in [1..2 -> Round] /\ planned' \in 0..MaxPlans
      /\ iterations' \in [1..MaxIter -> IterStatus]
  BY <1>2, HeldNow
<1>4. ASSUME ~Disturbed
      PROVE  /\ UpToDate(p) /\ RoundsFit'
             /\ session'.status = "round_1_executing" => ran # {}
  <2>1. /\ UpToDate(p) /\ RoundsFit
        /\ session.status = "round_1_executing" => ran # {}
    BY <1>1, <1>4, OnItsOwn
  <2>2. RoundsFit'
    BY <1>2, <2>1 DEF RoundsFit
  <2>3. QED BY <1>2, <2>1, <2>2
<1>5. CASE Reply(c)
  BY <1>1, <1>2, <1>3, <1>4, <1>5, ReplyKeeps
<1>6. CASE request' = [request EXCEPT ![c].at = "feedback", ![c].s = session]
  <2>1. PICK q : q = [p EXCEPT !.at = "feedback", !.s = session]
    OBVIOUS
  <2>2. q \in Held /\ q.at = "feedback" /\ q.s = session /\ q.n = p.n
    BY <1>1, <2>1, HeldNow DEF Held, RequestLabel
  <2>3. Becomes(c, q)
    BY <1>1, <1>6, <2>1, HeldNow DEF Becomes
  <2>4. ~Disturbed => UpToDate(q)'
    <3>1. UpToDate(p) => p.n = 1 /\ rounds[1].there
      BY <1>1 DEF UpToDate
    <3>2. QED BY <1>2, <1>4, <2>2, <3>1 DEF UpToDate
  <2>5. CASE ~Early \/ p.s.status \in Before
    BY <1>1, <1>2, <1>3, <1>4, <2>2, <2>3, <2>4, <2>5, ProceedKeeps DEF Early
  <2>6. CASE Early /\ p.s.status \notin Before
    <3>1. /\ request' \in [Requester -> Held] /\ request'[c] = q
          /\ \A d \in Requester \ {c} : request'[d] = request[d]
      BY <2>2, <2>3, OthersStay DEF LoopInv
    <3>2. LoopTypeOK'
      BY <1>2, <3>1 DEF LoopInv, LoopTypeOK
    <3>3. HeldFits'
      BY <2>2, <3>1 DEF LoopInv, HeldFits
    <3>4. RunsPaid'
      <4>1. IsFiniteSet(Active')
        BY <2>2, <2>3, ActiveMoves DEF LoopInv, RunsPaid
      <4>2. c \in Readers
        BY <1>1, <2>6 DEF Readers, Restorers, Active, At, Copy
      <4>3. Starters' = Starters
        BY <1>1, <2>2, <3>1 DEF Starters, At
      <4>4. Restorers' = Restorers \cup {c}
        <5>1. c \in Restorers'
          BY <2>2, <2>6, <3>1 DEF Restorers, Active, At, Copy, Early
        <5>2. ASSUME NEW d \in Requester, d # c PROVE d \in Restorers' <=> d \in Restorers
          BY <3>1, <5>2 DEF Restorers, Active, At, Copy
        <5>3. Restorers \subseteq Requester /\ Restorers' \subseteq Requester
          BY DEF Restorers, Active
        <5>4. QED BY <5>1, <5>2, <5>3
      <4>5. Readers' = Readers \ {c}
        <5>1. c \notin Readers'
          BY <4>4 DEF Readers
        <5>2. ASSUME NEW d \in Requester, d # c PROVE d \in Readers' <=> d \in Readers
          BY <3>1, <4>4, <5>2 DEF Readers, Active, At
        <5>3. Readers \subseteq Requester /\ Readers' \subseteq Requester
          BY DEF Readers, Active
        <5>4. QED BY <5>1, <5>2, <5>3
      <4>6. Early'
        BY <1>2, <2>6 DEF Early
      <4>7. QED BY <1>2, <2>6, <4>1, <4>2, <4>3, <4>4, <4>5, <4>6, PaidIfReread
                   DEF LoopInv
    <3>5. Undisturbed'
      <4>1. SUFFICES ASSUME ~Disturbed' PROVE Undisturbed'
        BY DEF Undisturbed
      <4>2. ~Disturbed
        BY <1>2, <4>1 DEF Disturbed
      <4>3. c \in Active
        BY <1>1 DEF Active, At
      <4>4. Active \subseteq {c}
        BY <4>2, <4>3, AloneNow
      <4>5. QED BY <1>2, <1>4, <2>2, <2>3, <2>4, <4>2, <4>4, AloneKeeps
                   DEF LoopInv
    <3>6. QED BY <3>2, <3>3, <3>4, <3>5 DEF LoopInv
  <2>7. QED BY <2>5, <2>6
<1>7. QED BY <1>5, <1>6 DEF BuildEvidence

LEMMA SaveFeedbackKeeps ==
  ASSUME LoopInv, NEW c \in Requester, SaveFeedback(c)
  PROVE  LoopInv'
<1>1. PICK p \in Held : p = request[c] /\ p.at = "feedback"
  BY HeldNow DEF SaveFeedback, At
<1>2. /\ WriteRound(p.n, [rounds[p.n] EXCEPT !.fed = TRUE]) /\ GoOn(c, "fed")
      /\ UNCHANGED <<session, planned, iterations, ran, overlaps, deaths>>
  BY <1>1 DEF SaveFeedback, N
<1>3. p.n \in 1..2 /\ rounds[p.n] \in Round
  BY HeldParts, HeldNow
<1>4. PICK r : r = [rounds[p.n] EXCEPT !.fed = TRUE]
  OBVIOUS
<1>5. /\ r \in Round /\ r.fed /\ r.there = rounds[p.n].there
      /\ r.plan = rounds[p.n].plan /\ r.approved = rounds[p.n].approved
  BY <1>3, <1>4 DEF Round
<1>6. /\ rounds' \in [1..2 -> Round] /\ rounds'[p.n] = r
      /\ \A m \in 1..2 : m # p.n => rounds'[m] = rounds[m]
  BY <1>2, <1>3, <1>4, <1>5, HeldNow, WriteRoundTyped
<1>7. PICK q : q = [p EXCEPT !.at = "fed"]
  OBVIOUS
<1>8. ASSUME ~Disturbed PROVE UpToDate(q)' /\ RoundsFit'
  <2>1. q.at = "fed" /\ q.s = p.s /\ q.n = p.n
    BY <1>7 DEF Held
  <2>2. UpToDate(p) /\ RoundsFit
    BY <1>1, <1>8, OnItsOwn
  <2>3. p.s = session /\ p.n = 1 /\ rounds[1].there
    BY <1>1, <2>2 DEF UpToDate
  <2>4. rounds'[1] = r /\ rounds'[2] = rounds[2] /\ \A n \in 1..2 : n = 1 \/ n = 2
    BY <1>6, <2>3
  <2>5. UpToDate(q)'
    BY <1>2, <1>5, <2>1, <2>3, <2>4 DEF UpToDate
  <2>6. RoundsFit'
    BY <1>2, <1>5, <2>2, <2>3, <2>4 DEF RoundsFit
  <2>7. QED BY <2>5, <2>6
<1>9. planned' \in 0..MaxPlans
  BY <1>2, HeldNow
<1>10. QED BY <1>1, <1>2, <1>6, <1>7, <1>8, <1>9, GoOnKeeps

LEMMA SaveFedKeeps ==
  ASSUME LoopInv, NEW c \in Requester, SaveFed(c)
  PROVE  LoopInv'
<1>1. PICK p \in Held : p = request[c] /\ p.at = "fed"
  BY HeldNow DEF SaveFed, At
<1>2. /\ Reply(c) /\ UNCHANGED <<rounds, planned, iterations, ran, overlaps, deaths>>
      /\ \/ session' = To(p.s, "round_1_executing", "round_1_feedback_ready")
         \/ session' = p.s
  BY <1>1 DEF SaveFed, Copy
<1>3. /\ session' \in Session
      /\ \/ session'.status = p.s.status
         \/ /\ p.s.status = "round_1_executing"
            /\ session'.status = "round_1_feedback_ready"
  BY <1>2, HeldParts, Transition DEF LoopStatus
<1>4. ASSUME ~Disturbed
      PROVE  RoundsFit' /\ (session'.status = "round_1_executing" => ran # {})
  <2>1. /\ UpToDate(p) /\ RoundsFit
        /\ session.status = "round_1_executing" => ran # {}
    BY <1>1, <1>4, OnItsOwn
  <2>2. p.s = session /\ rounds[1].fed
    BY <1>1, <2>1 DEF UpToDate
  <2>3. RoundsFit'
    BY <1>2, <1>3, <2>1, <2>2 DEF RoundsFit, PastRound1
  <2>4. QED BY <1>3, <2>1, <2>2, <2>3
<1>5. /\ rounds' \in [1..2 -> Round] /\ planned' \in 0..MaxPlans
      /\ iterations' \in [1..MaxIter -> IterStatus]
  BY <1>2, HeldNow
<1>6. session'.status \in Before => p.s.status \in Before
  BY <1>3 DEF Before
<1>7. QED BY <1>1, <1>2, <1>3, <1>4, <1>5, <1>6, ReplyKeeps

-----------------------------------------------------------------------------
LEMMA LoopInvStarts == LoopInit => LoopInv
<1> SUFFICES ASSUME LoopInit PROVE LoopInv
  OBVIOUS
<1>1. /\ session = NoSession /\ planned = 0 /\ ran = {}
      /\ \A n \in 1..2 : rounds[n] = NoRound
      /\ \A c \in Requester : request[c] = NoRequest
      /\ overlaps = 0 /\ deaths = 0
  BY DEF LoopInit
<1>2. LoopTypeOK
  <2>1. iterations \in [1..MaxIter -> IterStatus]
    BY DEF LoopInit, IterStatus
  <2>2. request \in [Requester -> Held] /\ rounds \in [1..2 -> Round] /\ session \in Session
    BY NothingTyped DEF LoopInit
  <2>3. QED BY <1>1, <2>1, <2>2, LoopBounds DEF LoopTypeOK
<1>3. \A c \in Requester : request[c].at = "idle"
  BY <1>1, NothingTyped
<1>4. HeldFits
  BY <1>3 DEF HeldFits
<1>5. Active = {} /\ Starters = {} /\ Restorers = {} /\ Readers = {} /\ Hopeful = {}
  BY <1>3 DEF Active, Starters, Restorers, Readers, Hopeful, At
<1>6. Early
  BY <1>1, NothingTyped DEF Early, Before
<1>7. RunsPaid
  <2>1. Cardinality({}) = 0 /\ IsFiniteSet({})
    BY FS_EmptySet
  <2>2. Spare = 1
    BY <1>5, <1>6 DEF Spare
  <2>3. QED BY <1>1, <1>5, <2>1, <2>2 DEF RunsPaid
<1>8. Undisturbed
  <2>1. \A c \in Requester : UpToDate(request[c])
    BY <1>3 DEF UpToDate
  <2>2. RoundsFit
    BY <1>1, NothingTyped DEF RoundsFit, NoRound, PastRound1
  <2>3. Executing
    BY <1>1, NothingTyped DEF Executing
  <2>4. QED BY <1>5, <2>1, <2>2, <2>3 DEF Undisturbed
<1>9. QED BY <1>2, <1>4, <1>7, <1>8 DEF LoopInv

LEMMA LoopInvStays ==
  ASSUME LoopInv, UNCHANGED loopVars
  PROVE  LoopInv'
BY DEF LoopInv, loopVars, LoopTypeOK, HeldFits, RunsPaid, Hopeful, Spare, Early,
   Active, Starters, Restorers, Readers, At, Copy, Undisturbed, Disturbed,
   UpToDate, FeedbackGate, RoundExists, RoundsFit, Executing

LEMMA LoopInvKept == LoopInv /\ [LoopNext]_loopVars => LoopInv'
<1> SUFFICES ASSUME LoopInv, [LoopNext]_loopVars PROVE LoopInv'
  OBVIOUS
<1>1. ASSUME NEW c \in Requester, NewRequest(c) PROVE LoopInv'
  <2>1. CASE Create(c)
    BY <2>1, CreateKeeps
  <2>2. CASE MarkBaselineReady(c)
    BY <2>2, MarkBaselineReadyKeeps
  <2>3. CASE \E n \in 1..2 : PlanRound(c, n) \/ ReviewRound(c, n) \/ RejectRound(c, n)
    BY <2>3, PlanRoundKeeps, ReviewRoundKeeps, RejectRoundKeeps
  <2>4. CASE RecordFeedback(c) \/ RecordExecutionFeedback(c)
    BY <2>4, RecordKeeps
  <2>5. CASE ApproveRound(c)
    BY <2>5, ApproveRoundKeeps
  <2>6. CASE ExecuteRound(c)
    BY <2>6, ExecuteRoundKeeps
  <2>7. CASE PrepareNextRound(c)
    BY <2>7, PrepareNextRoundKeeps
  <2>8. QED BY <1>1, <2>1, <2>2, <2>3, <2>4, <2>5, <2>6, <2>7 DEF NewRequest
<1>2. ASSUME NEW c \in Requester, Proceed(c) PROVE LoopInv'
  <2>1. CASE CreateRound(c) \/ Fail(c)
    BY <2>1, CreateRoundKeeps, FailKeeps
  <2>2. CASE PlanContext(c) \/ Planner(c) \/ SavePlanned(c)
    BY <2>2, PlanContextKeeps, PlannerKeeps, SavePlannedKeeps
  <2>3. CASE Critic(c) \/ SaveReviewed(c)
    BY <2>3, CriticKeeps, SaveReviewedKeeps
  <2>4. CASE StartIteration(c) \/ SaveApproved(c) \/ SaveSession(c) \/ SaveRejected(c)
    BY <2>4, StartIterationKeeps, SaveApprovedKeeps, SaveSessionKeeps,
       SaveRejectedKeeps
  <2>5. CASE SaveExecuting(c) \/ ApproveAndRun(c)
    BY <2>5, SaveExecutingKeeps, ApproveAndRunKeeps
  <2>6. CASE SaveRan(c) \/ SaveRanSession(c)
    BY <2>6, SaveRanKeeps, SaveRanSessionKeeps
  <2>7. CASE BuildEvidence(c) \/ SaveFeedback(c) \/ SaveFed(c)
    BY <2>7, BuildEvidenceKeeps, SaveFeedbackKeeps, SaveFedKeeps
  <2>8. QED BY <1>2, <2>1, <2>2, <2>3, <2>4, <2>5, <2>6, <2>7 DEF Proceed
<1>3. CASE ProcessDies
  BY <1>3, ProcessDiesKeeps
<1>4. ASSUME NEW k \in 1..MaxIter, IterationMoves(k) PROVE LoopInv'
  BY <1>4, IterationMovesKeeps
<1>5. CASE UNCHANGED loopVars
  BY <1>5, LoopInvStays
<1>6. QED BY <1>1, <1>2, <1>3, <1>4, <1>5 DEF LoopNext

(* Every experiment but one is owed to an overlap; and while nothing has    *)
(* disturbed its requests a session has one at a time, which holds what the *)
(* rows say.                                                                *)
THEOREM LoopInvHolds == LoopSpec => []LoopInv
<1>1. QED BY LoopInvStarts, LoopInvKept, PTL DEF LoopSpec

(* The rounds of an undisturbed session come in order: it counts as past     *)
(* the first once its approved candidate has run and its feedback is         *)
(* recorded, and no plan of the second lacks that.  However requests race    *)
(* and processes die, a session runs one experiment and one more for each    *)
(* overlap.                                                                  *)
THEOREM RoundsComeInOrder == LoopSpec => []OrderKept
<1>1. LoopInv => OrderKept
  <2> SUFFICES ASSUME LoopInv PROVE OrderKept
    OBVIOUS
  <2>1. LoopTypeOK
    BY DEF LoopInv
  <2>2. RoundsInOrder /\ SecondPlanHasFeedback
    BY DEF LoopInv, Undisturbed, RoundsFit, RoundsInOrder,
       SecondPlanHasFeedback, PastRound1
  <2>3. RunsOnce
    <3>1. /\ Cardinality(ran) + Cardinality(Hopeful) + Spare <= 1 + overlaps
          /\ Cardinality(Hopeful) \in Nat /\ Cardinality(ran) \in Nat
      BY HopefulFinite, RanFinite DEF LoopInv, RunsPaid
    <3>2. Spare \in {0, 1} /\ overlaps \in Nat
      BY LoopBounds DEF Spare, LoopInv, LoopTypeOK
    <3>3. QED BY <3>1, <3>2 DEF RunsOnce
  <2>4. QED BY <2>1, <2>2, <2>3 DEF OrderKept
<1>2. QED BY <1>1, LoopInvHolds, PTL

(* What a request that was not disturbed does to a session that has ended.  *)
LEMMA ClosedStays ==
  ASSUME LoopInv, [LoopNext]_loopVars, session.status \in Closed, ~Disturbed'
  PROVE  session'.status = session.status
<1> SUFFICES ASSUME session' # session PROVE session'.status = session.status
  OBVIOUS
<1>1. ~Disturbed
  <2>1. overlaps \in Nat /\ deaths \in Nat
    BY LoopBounds DEF LoopInv, LoopTypeOK
  <2>2. \/ UNCHANGED deaths /\ overlaps' \in {overlaps, overlaps + 1}
        \/ UNCHANGED overlaps /\ deaths' = deaths + 1
    BY ZenonT(30)
       DEF LoopNext, NewRequest, Proceed, loopVars, ProcessDies, IterationMoves,
           Create, MarkBaselineReady, PlanRound, ReviewRound, RejectRound,
           RecordFeedback, ApproveRound, ExecuteRound, RecordExecutionFeedback,
           PrepareNextRound, BeginWith, Enter, CreateRound, Fail, PlanContext,
           Planner, SavePlanned, Critic, SaveReviewed, StartIteration,
           SaveApproved, SaveSession, SaveRejected, SaveExecuting,
           ApproveAndRun, SaveRan, SaveRanSession, BuildEvidence, SaveFeedback,
           SaveFed
  <2>3. QED BY <2>1, <2>2 DEF Disturbed
<1>2. session \in Session
  BY HeldNow DEF LoopInv, LoopTypeOK
<1>3. session.status \notin {"absent", "created", "baseline_ready", "round_1_planning",
                             "round_1_reviewing", "round_1_waiting_approval",
                             "round_1_executing", "round_1_feedback_ready",
                             "round_2_planning", "round_2_reviewing"}
  BY DEF Closed, Failure
<1>4. session # NoSession
  BY <1>3, NothingTyped
<1>5. ASSUME NEW c \in Requester, NewRequest(c)
      PROVE  session'.status = session.status
  <2>1. PICK n \in 1..2 : session' = StartPlanning(session, n)
    BY <1>3, <1>4, <1>5
       DEF NewRequest, Create, MarkBaselineReady, PlanRound, ReviewRound,
           RejectRound, RecordFeedback, ApproveRound, ExecuteRound,
           RecordExecutionFeedback, PrepareNextRound
  <2>2. QED BY <1>2, <1>3, <2>1, Transition DEF StartPlanning, LoopStatus
<1>6. ASSUME NEW c \in Requester, Proceed(c)
      PROVE  session'.status = session.status
  <2>1. PICK p \in Held : p = request[c]
    BY HeldNow
  <2>2. /\ p.at \in {"fail", "planned", "reviewed", "save", "rejected", "execute",
                     "ran_session", "fed"}
        /\ \/ p.at = "fail" /\ session' = IF p.s.status \in Closed THEN p.s
                                          ELSE [p.s EXCEPT !.status = p.why]
           \/ p.at \in {"rejected", "execute"}
           \/ p.at = "planned" /\ \E from, to \in LoopStatus \ Closed :
                session' = To([p.s EXCEPT !.round = p.n], from, to)
           \/ \E from \in LoopStatus \ Closed, to \in LoopStatus : session' = To(p.s, from, to)
           \/ session' = p.s
    BY <1>6, <2>1
       DEF Proceed, CreateRound, Fail, PlanContext, Planner, SavePlanned,
           Critic, SaveReviewed, StartIteration, SaveApproved, SaveSession,
           SaveRejected, SaveExecuting, ApproveAndRun, SaveRan, SaveRanSession,
           BuildEvidence, SaveFeedback, SaveFed, At, Copy, N, LoopStatus,
           Closed, Failure
  <2>3. UpToDate(p)
    BY <1>1, <2>1, <2>2, OnItsOwn
  <2>4. p.s = session /\ p.at \notin {"rejected", "execute"}
    BY <1>3, <2>2, <2>3 DEF UpToDate
  <2>5. PICK s : s = [p.s EXCEPT !.round = p.n]
    OBVIOUS
  <2>6. s \in Session /\ s.status = session.status
    BY <1>2, <2>1, <2>4, <2>5, HeldParts DEF Session
  <2>7. CASE \E from, to \in LoopStatus \ Closed : session' = To(s, from, to)
    BY <2>6, <2>7, Transition
  <2>8. CASE \E from \in LoopStatus \ Closed, to \in LoopStatus :
               session' = To(p.s, from, to)
    BY <1>2, <2>4, <2>8, Transition
  <2>9. QED BY <2>2, <2>4, <2>5, <2>7, <2>8
<1>7. QED BY <1>5, <1>6 DEF LoopNext, ProcessDies, IterationMoves, loopVars

(* A session that has ended stays as it ended, whatever is still asked of   *)
(* it, unless requests have raced or a process died.                        *)
THEOREM ClosedSessionsStay == LoopSpec => ClosedStaysClosed
<1>1. LoopInv /\ [LoopNext]_loopVars
        => [session.status \in Closed
              => Disturbed' \/ session'.status = session.status]_loopVars
  BY ClosedStays
<1>2. QED BY <1>1, LoopInvHolds, PTL DEF LoopSpec, ClosedStaysClosed
=============================================================================
