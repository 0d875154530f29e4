------------------------------ MODULE Planning ------------------------------
(***************************************************************************)
(* agents/service.py with what experiment_service.py and the iteration     *)
(* service do around it: a planner proposes candidate experiments, a       *)
(* critic reviews them, a human approves or rejects, and an approved       *)
(* candidate becomes a contract, a charge on the project's budget, a node  *)
(* and an iteration.                                                       *)
(*                                                                         *)
(* The service object is shared by all request threads, its planner and    *)
(* critic with it: every request sets them anew.  A request reads rows,    *)
(* works on copies and writes whole rows back; there is no lock.           *)
(* Candidates are stored under the name the planner gave them, so that a   *)
(* later plan may use a name again.  The status of a plan is written and   *)
(* never looked at: it is left out.                                        *)
(***************************************************************************)
EXTENDS Integers, FiniteSets, FiniteSetsExt

CONSTANTS Plan, Cand, Caller,
          MaxNodes,     \* bound on nodes a contract may name
          MaxKeep,      \* max_keep of the ranking
          MaxNew,       \* max_new_nodes of the budget
          MaxCredit,    \* bound on approvals of one candidate in a row
          MaxSpent,     \* bound on contracts charged for
          MaxMishaps,   \* bound on requests that overlap, and on deaths
          None

ASSUME PlanningBounds ==
  /\ {MaxNodes, MaxNew, MaxCredit, MaxSpent, MaxMishaps} \subseteq Nat
  /\ MaxKeep \in Nat \ {0}
ASSUME NoneIsNone == None \notin Plan \cup Cand \cup (Plan \X Cand)

VARIABLES provider,   \* who the shared planner and critic are
          plans,      \* experiment_plans
          rows,       \* experiment_candidates
          nodes,      \* experiment nodes: whose contract each one has
          iters,      \* iterations started from a plan
          used,       \* used_nodes of the budget
          call,       \* what each request is doing
          approved,   \* history: candidates of plans ever approved
          credit,     \* history: approvals of a row less contracts from it
          rejected,   \* history: names rejected since they were last stored
          spent,      \* history: contracts charged for
          raced,      \* history: what two requests held at once
          mishaps     \* bounded by MaxMishaps

stored == <<plans, rows, nodes, iters, used>>
past == <<approved, credit, rejected, spent>>
vars == <<provider, stored, call, past, raced, mishaps>>

-----------------------------------------------------------------------------
(* agents/models.py *)
Status == {"absent", "verified", "rejected", "reviewed", "ranked", "approved",
           "contract_generated"}
Mode == {"mock", "real"}

(* asked: the provider the request named; maker: the one that answered;     *)
(* said: the one recorded with the plan and reported as the actual one.     *)
PlanRow == [there: BOOLEAN, asked: Mode, maker: Mode, said: Mode]
NoPlan == [there |-> FALSE, asked |-> "mock", maker |-> "mock", said |-> "mock"]

(* against: the critic's review recommends to reject. *)
Row == [plan: Plan \cup {None}, valid: BOOLEAN, status: Status, against: BOOLEAN]
NoRow == [plan |-> None, valid |-> FALSE, status |-> "absent", against |-> FALSE]

Label == {"idle", "configure", "ask", "save", "store", "list", "review",
          "rank", "approve", "reject", "contract", "charge", "pay", "node",
          "iterate", "limit"}

(* copy: the rows it has read or made, and not yet written; keep: the       *)
(* ranked ones; starts: an iteration follows; read: used_nodes, or what is  *)
(* left of the budget, as it was read.                                      *)
Call == [at: Label, plans: BOOLEAN, plan: Plan \cup {None}, mode: Mode,
         maker: Mode, copy: [Cand -> Row], keep: SUBSET Cand,
         cand: Cand \cup {None}, node: 0..MaxNodes, starts: BOOLEAN, read: Nat]
NoRows == [x \in Cand |-> NoRow]
Idle == [at |-> "idle", plans |-> FALSE, plan |-> None, mode |-> "mock",
         maker |-> "mock", copy |-> NoRows, keep |-> {}, cand |-> None,
         node |-> 0, starts |-> FALSE, read |-> 0]

Things == Cand \cup {"provider", "budget", "nodes"}

TypeOK ==
  /\ provider \in Mode
  /\ plans \in [Plan -> PlanRow]
  /\ rows \in [Cand -> Row]
  /\ nodes \in [1..MaxNodes -> (Plan \X Cand) \cup {None}]
  /\ iters \subseteq [plan: Plan, cand: Cand, node: 1..MaxNodes]
  /\ used \in Nat /\ spent \in 0..MaxSpent
  /\ call \in [Caller -> Call]
  /\ approved \subseteq Plan \X Cand
  /\ credit \in [Cand -> Int]
  /\ rejected \subseteq Cand
  /\ raced \subseteq Things
  /\ mishaps \in 0..MaxMishaps

Init ==
  /\ provider = "mock"
  /\ plans = [p \in Plan |-> NoPlan] /\ rows = NoRows
  /\ nodes = [n \in 1..MaxNodes |-> None] /\ iters = {}
  /\ used = 0 /\ spent = 0
  /\ call = [c \in Caller |-> Idle]
  /\ approved = {} /\ credit = [x \in Cand |-> 0]
  /\ rejected = {} /\ raced = {} /\ mishaps = 0

-----------------------------------------------------------------------------
Doing(c, l) == call[c].at = l
P(c) == call[c].plan
X(c) == call[c].cand
Begin(c, r) == Doing(c, "idle") /\ call' = [call EXCEPT ![c] = r]
Goto(c, l) == call' = [call EXCEPT ![c].at = l]
Return(c) == call' = [call EXCEPT ![c] = Idle]

RowsOf(p) == {x \in Cand : rows[x].plan = p}
Copies(s) == [x \in Cand |-> IF x \in s THEN rows[x] ELSE NoRow]
Todo(c) == {x \in Cand : call[c].copy[x] # NoRow}

(* upsert_candidate: the whole row, from the copy. *)
Put(c, x, s) == rows' = [rows EXCEPT ![x] = [call[c].copy[x] EXCEPT !.status = s]]
Written(c, x) == call' = [call EXCEPT ![c] =
  IF Todo(c) = {x} THEN Idle ELSE [call[c] EXCEPT !.copy[x] = NoRow]]

-----------------------------------------------------------------------------
(* plan_next *)

Remaining == IF used < MaxNew THEN MaxNew - used ELSE 0

(* The context is built, with what is left of the budget as it is now; the  *)
(* plan will have a new id.                                                 *)
PlanNext(c) ==
  /\ \E p \in Plan, m \in Mode :
       /\ ~plans[p].there /\ \A b \in Caller : P(b) # p
       /\ Begin(c, [Idle EXCEPT !.at = "configure", !.plans = TRUE, !.plan = p,
                                !.mode = m, !.read = Remaining])
  /\ UNCHANGED <<provider, stored, past>>

(* A mistake: a refused provider is passed over. *)
ConfigureAnyway(c) ==
  /\ Doing(c, "configure")
  /\ \/ provider' = call[c].mode
     \/ call[c].mode = "real" /\ UNCHANGED provider
  /\ Goto(c, IF call[c].plans THEN "ask" ELSE "list")
  /\ UNCHANGED <<stored, past>>

(* configure_provider: replaces the planner and the critic of the service.  *)
(* A real one may be refused (no key, no network), which changes nothing.   *)
Configure(c) ==
  /\ Doing(c, "configure")
  /\ \/ /\ provider' = call[c].mode
        /\ Goto(c, IF call[c].plans THEN "ask" ELSE "list")
     \/ call[c].mode = "real" /\ Return(c) /\ UNCHANGED provider
  /\ UNCHANGED <<stored, past>>

(* The planner the service has by now answers, or fails.  Every candidate   *)
(* is verified; none is valid when the budget was used up.                  *)
NewRows(p, out, ok) ==
  [x \in Cand |-> IF x \in out
                  THEN [plan |-> p, valid |-> x \in ok, against |-> FALSE,
                        status |-> IF x \in ok THEN "verified" ELSE "rejected"]
                  ELSE NoRow]

Ask(c) ==
  /\ Doing(c, "ask")
  /\ \/ Return(c)
     \/ \E out \in SUBSET Cand : \E ok \in SUBSET out :
          /\ call[c].read = 0 => ok = {}
          /\ call' = [call EXCEPT ![c].at = "save", ![c].maker = provider,
                        ![c].copy = NewRows(P(c), out, ok), ![c].read = 0]
  /\ UNCHANGED <<provider, stored, past>>

(* The provider recorded is the one the service has when it records it.     *)
Save(c) ==
  /\ Doing(c, "save")
  /\ plans' = [plans EXCEPT ![P(c)] =
                 [there |-> TRUE, asked |-> call[c].mode,
                  maker |-> call[c].maker, said |-> provider]]
  /\ IF Todo(c) = {} THEN Return(c)
     ELSE call' = [call EXCEPT ![c] = [Idle EXCEPT !.at = "store",
                                         !.plan = P(c), !.copy = call[c].copy]]
  /\ UNCHANGED <<provider, rows, nodes, iters, used, past>>

(* A row another plan has under the same name is overwritten.               *)
Store(c) ==
  /\ Doing(c, "store")
  /\ \E x \in Todo(c) :
       /\ Put(c, x, call[c].copy[x].status) /\ Written(c, x)
       /\ rejected' = rejected \ {x}
       /\ credit' = [credit EXCEPT ![x] = 0]
  /\ UNCHANGED <<provider, plans, nodes, iters, used, approved, spent>>

-----------------------------------------------------------------------------
(* review_plan *)

(* Without a provider of its own the request takes the last one configured. *)
ReviewPlan(c) ==
  /\ \E p \in Plan, m \in Mode :
       /\ plans[p].there
       /\ Begin(c, [Idle EXCEPT !.at = "configure", !.plan = p, !.mode = m])
  /\ UNCHANGED <<provider, stored, past>>

Eligible(p) == {x \in RowsOf(p) : rows[x].valid /\ rows[x].status # "rejected"}

List(c) ==
  /\ Doing(c, "list")
  /\ LET todo == Eligible(P(c)) IN
       IF todo = {} THEN Return(c)
       ELSE call' = [call EXCEPT ![c] = [Idle EXCEPT !.at = "review",
                                           !.plan = P(c), !.copy = Copies(todo)]]
  /\ UNCHANGED <<provider, stored, past>>

(* The critic answers, and the row goes back as it was listed, with the     *)
(* review; or the critic fails, and the rest is left.                       *)
ReviewOne(c) ==
  /\ Doing(c, "review")
  /\ \/ Return(c) /\ UNCHANGED <<rows, rejected>>
     \/ \E x \in Todo(c), against \in BOOLEAN :
          /\ rows' = [rows EXCEPT ![x] =
                        [call[c].copy[x] EXCEPT
                           !.status = IF against THEN "rejected" ELSE "reviewed",
                           !.against = against]]
          /\ rejected' = IF against THEN rejected \cup {x} ELSE rejected
          /\ Written(c, x)
  /\ UNCHANGED <<provider, plans, nodes, iters, used, approved, credit, spent>>

-----------------------------------------------------------------------------
(* rank_plan_candidates *)

Rankable(p) == {x \in Eligible(p) : ~rows[x].against}
Kept(p, k) == /\ k \subseteq Rankable(p)
              /\ Cardinality(k) = Min({MaxKeep, Cardinality(Rankable(p))})

(* The best are ranked, whatever a human has made of them; the others fall  *)
(* back unless a human has decided.                                         *)
Falls(x) == rows[x].status \in {"verified", "reviewed", "ranked"}
RankPlan(c) ==
  /\ \E p \in Plan : \E k \in SUBSET RowsOf(p) :
       LET todo == k \cup {x \in RowsOf(p) : Falls(x)} IN
       /\ Kept(p, k) /\ todo # {}
       /\ Begin(c, [Idle EXCEPT !.at = "rank", !.plan = p, !.copy = Copies(todo),
                                !.keep = k])
  /\ UNCHANGED <<provider, stored, past>>

RankOne(c) ==
  /\ Doing(c, "rank")
  /\ \E x \in Todo(c) :
       /\ Put(c, x, IF x \in call[c].keep THEN "ranked" ELSE "reviewed")
       /\ Written(c, x)
  /\ UNCHANGED <<provider, plans, nodes, iters, used, past>>

-----------------------------------------------------------------------------
(* approve_candidate; reject_candidate *)

Take(l, p, x) ==
  [Idle EXCEPT !.at = l, !.plan = p, !.cand = x, !.copy = Copies({x})]

Approvable(x) == rows[x].status \in {"verified", "reviewed", "ranked"} /\ rows[x].valid
Approve(c) ==
  /\ \E p \in Plan : \E x \in RowsOf(p) :
       Approvable(x) /\ Begin(c, Take("approve", p, x))
  /\ UNCHANGED <<provider, stored, past>>

ApproveOne(c) ==
  /\ Doing(c, "approve") /\ credit[X(c)] < MaxCredit
  /\ Put(c, X(c), "approved") /\ Return(c)
  /\ approved' = approved \cup {<<P(c), X(c)>>}
  /\ credit' = [credit EXCEPT ![X(c)] = @ + 1]
  /\ UNCHANGED <<provider, plans, nodes, iters, used, rejected, spent>>

(* A candidate that has its contract may still be rejected.                 *)
Reject(c) ==
  /\ \E p \in Plan : \E x \in RowsOf(p) :
       /\ rows[x].status \notin {"approved", "rejected"}
       /\ Begin(c, Take("reject", p, x))
  /\ UNCHANGED <<provider, stored, past>>

RejectOne(c) ==
  /\ Doing(c, "reject")
  /\ Put(c, X(c), "rejected") /\ Return(c)
  /\ rejected' = rejected \cup {X(c)}
  /\ UNCHANGED <<provider, plans, nodes, iters, used, approved, credit, spent>>

-----------------------------------------------------------------------------
(* generate_contract_from_plan; start_from_plan *)

(* A mistake: nodes already there are not looked at. *)
FreeOrNot == 1..MaxNodes

(* _next_node_id: the first number no node has. *)
Free == {n \in 1..MaxNodes : nodes[n] = None}
IsNext(n) == n \in Free /\ \A m \in Free : n <= m

Generate(c) ==
  /\ \E p \in Plan, n \in 1..MaxNodes, starts \in BOOLEAN : \E x \in RowsOf(p) :
       /\ rows[x].status = "approved" /\ IsNext(n)
       /\ Begin(c, [Take("contract", p, x) EXCEPT !.node = n, !.starts = starts])
  /\ UNCHANGED <<provider, stored, past>>

(* start_from_plan makes the contract again for a candidate that has one,   *)
(* and charges nothing for it.                                              *)
StartAgain(c) ==
  /\ \E p \in Plan, n \in 1..MaxNodes : \E x \in RowsOf(p) :
       /\ rows[x].status = "contract_generated" /\ IsNext(n)
       /\ Begin(c, [Take("node", p, x) EXCEPT !.node = n, !.starts = TRUE])
  /\ UNCHANGED <<provider, stored, past>>

(* A mistake: the approval is not used up. *)
ContractOnly(c) ==
  /\ Doing(c, "contract") /\ spent < MaxSpent
  /\ call' = [call EXCEPT ![c].at = "charge", ![c].copy = NoRows]
  /\ spent' = spent + 1
  /\ credit' = [credit EXCEPT ![X(c)] = @ - 1]
  /\ UNCHANGED <<provider, stored, approved, rejected>>

(* A contract that cannot be made changes nothing.                          *)
ContractRefused(c) ==
  /\ Doing(c, "contract") /\ Return(c)
  /\ UNCHANGED <<provider, stored, past>>

(* The contract's file is written, then the row.                            *)
Contract(c) ==
  /\ Doing(c, "contract") /\ spent < MaxSpent
  /\ Put(c, X(c), "contract_generated")
  /\ call' = [call EXCEPT ![c].at = "charge", ![c].copy = NoRows]
  /\ spent' = spent + 1
  /\ credit' = [credit EXCEPT ![X(c)] = @ - 1]
  /\ UNCHANGED <<provider, plans, nodes, iters, used, approved, rejected>>

(* budget/service.py consume: read, then write; what is left is not asked.  *)
Charge(c) ==
  /\ Doing(c, "charge")
  /\ call' = [call EXCEPT ![c].at = "pay", ![c].read = used]
  /\ UNCHANGED <<provider, stored, past>>

Pay(c) ==
  /\ Doing(c, "pay")
  /\ used' = call[c].read + 1
  /\ IF call[c].starts THEN call' = [call EXCEPT ![c].at = "node", ![c].read = 0]
     ELSE Return(c)
  /\ UNCHANGED <<provider, plans, rows, nodes, iters, past>>

(* The node of that id gets the contract, be it there or not.               *)
PutNode(c) ==
  /\ Doing(c, "node")
  /\ nodes' = [nodes EXCEPT ![call[c].node] = <<P(c), X(c)>>]
  /\ call' = [call EXCEPT ![c].at = "iterate", ![c].copy = NoRows]
  /\ UNCHANGED <<provider, plans, rows, iters, used, past>>

Iterate(c) ==
  /\ Doing(c, "iterate")
  /\ iters' = iters \cup {[plan |-> P(c), cand |-> X(c), node |-> call[c].node]}
  /\ Return(c)
  /\ UNCHANGED <<provider, plans, rows, nodes, used, past>>

(* set_budget keeps what has been used, as it has read it.                  *)
SetBudget(c) ==
  /\ Begin(c, [Idle EXCEPT !.at = "limit", !.read = used])
  /\ UNCHANGED <<provider, stored, past>>

Limit(c) ==
  /\ Doing(c, "limit") /\ used' = call[c].read /\ Return(c)
  /\ UNCHANGED <<provider, plans, rows, nodes, iters, past>>

-----------------------------------------------------------------------------
(* What a call is in the middle of. *)
Touched(c) ==
  Todo(c)
  \cup (IF call[c].at \in {"configure", "ask", "save"} THEN {"provider"} ELSE {})
  \cup (IF call[c].at \in {"pay", "limit"} THEN {"budget"} ELSE {})
  \cup (IF call[c].starts THEN {"nodes"} ELSE {})
Clash == {t \in Things : \E a, b \in Caller : a # b /\ t \in Touched(a) \cap Touched(b)}

(* Calls that have generated a contract and not yet paid for it. *)
Owing == {c \in Caller : call[c].at \in {"charge", "pay"}}

Crash ==
  /\ mishaps < MaxMishaps /\ \E c \in Caller : ~Doing(c, "idle")
  /\ mishaps' = mishaps + 1
  /\ call' = [c \in Caller |-> Idle] /\ provider' = "mock"
  /\ raced' = IF Owing = {} THEN raced ELSE raced \cup {"budget"}
  /\ UNCHANGED <<stored, past>>

(* A request may begin in the middle of another, MaxMishaps times.          *)
MayOverlap(c) ==
  IF \A b \in Caller \ {c} : Doing(b, "idle") THEN UNCHANGED mishaps
  ELSE mishaps < MaxMishaps /\ mishaps' = mishaps + 1

Request(c) ==
  \/ PlanNext(c) \/ ReviewPlan(c) \/ RankPlan(c) \/ Approve(c) \/ Reject(c)
  \/ Generate(c) \/ StartAgain(c) \/ SetBudget(c)
Continue(c) ==
  \/ Configure(c) \/ Ask(c) \/ Save(c) \/ Store(c)
  \/ List(c) \/ ReviewOne(c) \/ RankOne(c) \/ ApproveOne(c) \/ RejectOne(c)
  \/ ContractRefused(c) \/ Contract(c) \/ Charge(c) \/ Pay(c)
  \/ PutNode(c) \/ Iterate(c) \/ Limit(c)

Next ==
  \/ /\ \E c \in Caller : (Request(c) /\ MayOverlap(c))
                          \/ (Continue(c) /\ UNCHANGED mishaps)
     /\ raced' = raced \cup Clash'
  \/ Crash

Spec == Init /\ [][Next]_vars

-----------------------------------------------------------------------------
(* A contract is only ever made for a candidate a human has approved,       *)
(* whatever overlaps or dies; and unless two calls met on the candidate,    *)
(* each approval buys one contract at most, though a review or a ranking    *)
(* may take an approval back and a human give it again.                     *)
ContractsEarned ==
  /\ \A i \in iters : <<i.plan, i.cand>> \in approved
  /\ \A x \in Cand \ raced : credit[x] >= 0

(* A candidate the critic or a human has rejected stays rejected until a    *)
(* new plan takes its name, unless two calls met on it: no review, ranking  *)
(* or approval brings it back.                                              *)
RejectionsStand == \A x \in rejected \ raced : rows[x].status = "rejected"

(* What a human decides is what happens, whatever is written back over it.  *)
DecisionsStand == ContractsEarned /\ RejectionsStand

(* The budget is charged once for every contract generated: never more, and *)
(* less only when two calls met on the budget or a death came in between.   *)
BudgetKept ==
  /\ used <= spent
  /\ "budget" \notin raced => used + Cardinality(Owing) = spent

(* An iteration runs the contract of its own candidate: its node is there,  *)
(* and no other candidate's contract has taken its place unless two         *)
(* requests to start one met.                                               *)
NodesApart ==
  \A i \in iters :
    /\ nodes[i.node] # None
    /\ "nodes" \notin raced => nodes[i.node] = <<i.plan, i.cand>>

(* What requests must keep straight in rows they share without a lock.      *)
PlansKept == TypeOK /\ BudgetKept /\ NodesApart

(* A plan is made by the provider the request asked for and recorded as     *)
(* such, unless two requests met between setting the provider and using it. *)
MadeAsAsked ==
  "provider" \notin raced =>
    \A p \in Plan : plans[p].maker = plans[p].asked /\ plans[p].said = plans[p].asked
=============================================================================
