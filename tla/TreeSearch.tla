----------------------------- MODULE TreeSearch -----------------------------
(***************************************************************************)
(* search/ and the tree operations of services/experiment_service.py: a    *)
(* bounded best-first tree of experiments.  A request plans the children   *)
(* of the most promising node, a second one approves a candidate, which    *)
(* becomes an iteration and a node, a third brings the outcomes of         *)
(* iterations into the tree; a stop policy ends the search.                *)
(*                                                                         *)
(* Rows are written whole and requests overlap freely.  A row written from *)
(* a copy that was read before another call is written here as the copy    *)
(* says; where nothing but arithmetic is between reading and writing, the  *)
(* two are one step.                                                       *)
(***************************************************************************)
EXTENDS Naturals, FiniteSets, FiniteSetsExt

CONSTANTS Caller,       \* request threads
          MaxIter,      \* bound on iterations, so on nodes below the root
          MaxDepth, MaxNodes, MaxChildren,  \* limits of the tree
          MaxRounds,    \* max_no_improvement_rounds
          NodeBudget,   \* what the project may still spend on nodes
          MaxMishaps,   \* bound on overlaps and crashes together
          None

ASSUME TreeLimits ==
  /\ MaxIter \in Nat /\ MaxDepth \in Nat \ {0} /\ MaxNodes \in Nat \ {0, 1}
  /\ MaxChildren \in 1..MaxNodes /\ MaxRounds \in Nat \ {0}
  /\ NodeBudget \in Nat /\ MaxMishaps \in Nat
ASSUME NoneIsNoNode == None \notin 0..MaxIter

VARIABLES tree,      \* experiment_trees: the row of the tree
          nodes,     \* experiment_tree_nodes
          iters,     \* the iterations, by the node they are about
          left,      \* remaining nodes in the project's budget
          call,      \* what each caller is doing
          overlaps,  \* requests that began while another went on
          crashes    \* deaths of the process in the middle of a request

vars == <<tree, nodes, iters, left, call, overlaps, crashes>>

-----------------------------------------------------------------------------
Root == 0
Exp == Root..MaxIter      \* experiment nodes: the root, one per iteration
MaybeExp == Exp \cup {None}

(* models.py: TreeStatus, TREE_TERMINAL_STATUSES.  Nothing sets "failed";   *)
(* "max_depth_reached" needs a tree without a root above the limit.         *)
Over == {"completed", "budget_exhausted", "no_valid_candidates", "user_stopped"}
TreeStatus == {"absent", "created", "active", "waiting_approval", "running",
               "evaluating"} \cup Over
IsTreeTerminal(t) == t.status \in Over

(* plan: the node that the plan on this node proposes children for; iter:   *)
(* iteration_id is set.                                                     *)
Node == [status: {"absent", "created", "waiting_approval", "running",
                  "evaluated", "failed"},
         parent: MaybeExp, depth: Nat, plan: MaybeExp, iter: BOOLEAN]
NoNode == [status |-> "absent", parent |-> None, depth |-> 0, plan |-> None,
           iter |-> FALSE]
(* seen: best_score_seen is set; rounds: no_improvement_rounds, as far as   *)
(* the stop policy can tell.                                                *)
Tree == [status: TreeStatus, selected: MaybeExp, rounds: 0..MaxRounds, seen: BOOLEAN]
NoTree == [status |-> "absent", selected |-> None, rounds |-> 0, seen |-> FALSE]

IterStatus == {"absent", "waiting_approval", "running", "completed", "failed"}

CallLabel == {"idle", "root", "score", "rank", "choose", "plan", "settle",
              "judge", "stop", "contract", "register", "insert", "link",
              "await", "sync", "sum", "count"}

(* tree, nodes: copies of the rows; of: the parent or child in hand; todo:  *)
(* nodes still to look at; and what the call has found so far.              *)
Call == [at: CallLabel, tree: Tree, nodes: [Exp -> Node], of: MaybeExp,
         todo: SUBSET Exp, refused: BOOLEAN, moved: BOOLEAN, scored: BOOLEAN,
         pending: BOOLEAN, running: BOOLEAN, verdict: Over \cup {None}]
NoNodes == [e \in Exp |-> NoNode]
Idle == [at |-> "idle", tree |-> NoTree, nodes |-> NoNodes, of |-> None,
         todo |-> {}, refused |-> FALSE, moved |-> FALSE, scored |-> FALSE,
         pending |-> FALSE, running |-> FALSE, verdict |-> None]

Init ==
  /\ tree = NoTree
  /\ nodes = NoNodes
  /\ iters = [e \in Exp \ {Root} |-> "absent"]
  /\ left = NodeBudget
  /\ call = [c \in Caller |-> Idle]
  /\ overlaps = 0 /\ crashes = 0

-----------------------------------------------------------------------------
Doing(c, l) == call[c].at = l
Return(c) == call' = [call EXCEPT ![c] = Idle]
Goto(c, l) == call' = [call EXCEPT ![c].at = l]

Busy == \E c \in Caller : ~Doing(c, "idle")
Mishap == overlaps + crashes < MaxMishaps
BeginWith(c, r) ==
  /\ Doing(c, "idle")
  /\ call' = [call EXCEPT ![c] = r]
  /\ IF Busy THEN Mishap /\ overlaps' = overlaps + 1
             ELSE UNCHANGED overlaps
  /\ UNCHANGED crashes

Present(ns) == {e \in Exp : ns[e].status # "absent"}
Children(ns, e) == {d \in Present(ns) : ns[d].parent = e}

(* selection_policy.py: explain_expandability *)
Expandable(ns, e) ==
  /\ \/ ns[e].status = "evaluated"
     \/ e = Root /\ ns[e].status = "created"
  /\ ns[e].depth < MaxDepth
  /\ Cardinality(Children(ns, e)) < MaxChildren
  /\ Cardinality(Present(ns)) < MaxNodes

(* rank_expandable_parents; scores are not modelled: any may be the best. *)
Candidates(t, ns) == IF IsTreeTerminal(t) THEN {}
                     ELSE {e \in Exp : Expandable(ns, e)}

-----------------------------------------------------------------------------
(* create_tree: the row of the tree, then the row of its root. *)

Create(c) ==
  /\ tree = NoTree
  /\ tree' = [NoTree EXCEPT !.status = "created"]
  /\ BeginWith(c, [Idle EXCEPT !.at = "root"])
  /\ UNCHANGED <<nodes, iters, left>>

CreateRoot(c) ==
  /\ Doing(c, "root")
  /\ nodes' = [nodes EXCEPT ![Root].status = "created"]
  /\ Return(c)
  /\ UNCHANGED <<tree, iters, left, overlaps, crashes>>

-----------------------------------------------------------------------------
(* tree_plan_next *)

Open == tree # NoTree /\ ~IsTreeTerminal(tree)

(* With or without scoring all nodes again. *)
PlanNext(c) ==
  /\ Open
  /\ \/ BeginWith(c, [Idle EXCEPT !.at = "score", !.nodes = nodes])
     \/ BeginWith(c, [Idle EXCEPT !.at = "rank"])
  /\ UNCHANGED <<tree, nodes, iters, left>>

(* score_tree writes every node it has listed back as it was. *)
Score(c) ==
  /\ Doing(c, "score")
  /\ nodes' = [e \in Exp |-> IF e \in Present(call[c].nodes)
                             THEN call[c].nodes[e] ELSE nodes[e]]
  /\ call' = [call EXCEPT ![c] = [Idle EXCEPT !.at = "rank"]]
  /\ UNCHANGED <<tree, iters, left, overlaps, crashes>>

(* select_parent: the best parent goes into a copy of the tree's row ...    *)
Rank(c) ==
  /\ Doing(c, "rank")
  /\ \/ /\ Candidates(tree, nodes) = {}
        /\ Goto(c, "judge")
     \/ \E e \in Candidates(tree, nodes) :
          LET t == [tree EXCEPT !.selected = e,
                                !.status = IF @ = "created" THEN "active" ELSE @]
          IN call' = [call EXCEPT ![c].at = "choose", ![c].tree = t, ![c].of = e]
  /\ UNCHANGED <<tree, nodes, iters, left, overlaps, crashes>>

(* ... which is written back; the planner goes to work on a copy of the     *)
(* parent, unless others have used up the slots.                            *)
Choose(c) ==
  /\ Doing(c, "choose")
  /\ tree' = call[c].tree
  /\ IF Cardinality(Present(nodes)) < MaxNodes
     THEN call' = [call EXCEPT ![c].at = "plan", ![c].tree = NoTree,
                     ![c].nodes = [NoNodes EXCEPT ![call[c].of] = nodes[call[c].of]]]
     ELSE Return(c)
  /\ UNCHANGED <<nodes, iters, left, overlaps, crashes>>

(* The planner and the critic answer, or not; the plan goes onto the copy   *)
(* of the parent.  refused: no candidate is left, or they say to stop.      *)
Plan(c) ==
  /\ Doing(c, "plan")
  /\ LET p == call[c].of IN
     \/ Return(c) /\ UNCHANGED nodes
     \/ /\ nodes' = [nodes EXCEPT ![p] = [call[c].nodes[p] EXCEPT !.plan = p]]
        /\ \E r \in BOOLEAN :
             call' = [call EXCEPT ![c] =
                        [Idle EXCEPT !.at = "settle", !.of = p, !.refused = r]]
  /\ UNCHANGED <<tree, iters, left, overlaps, crashes>>

Settle(c) ==
  /\ Doing(c, "settle")
  /\ tree' = IF tree.status \in {"created", "active", "waiting_approval"}
             THEN [tree EXCEPT !.status = "waiting_approval", !.selected = call[c].of]
             ELSE tree
  /\ Goto(c, "judge")
  /\ UNCHANGED <<nodes, iters, left, overlaps, crashes>>

-----------------------------------------------------------------------------
(* _tree_evaluate_and_maybe_stop *)

(* stop_policy.py: evaluate_stop, the first that applies. *)
Verdict(t, ns, refused) ==
  CASE IsTreeTerminal(t) -> t.status
    [] ~IsTreeTerminal(t) /\ left = 0 -> "budget_exhausted"
    [] ~IsTreeTerminal(t) /\ left > 0 /\ Candidates(t, ns) = {}
         -> "no_valid_candidates"
    [] OTHER -> IF refused THEN "no_valid_candidates"
                ELSE IF t.rounds >= MaxRounds THEN "completed" ELSE None

Judge(c) ==
  /\ Doing(c, "judge")
  /\ LET v == Verdict(tree, nodes, call[c].refused) IN
       IF v = None THEN Return(c)
       ELSE call' = [call EXCEPT ![c] = [Idle EXCEPT !.at = "stop", !.verdict = v,
                                                            !.pending = call[c].pending]]
  /\ UNCHANGED <<tree, nodes, iters, left, overlaps, crashes>>

(* A mistake: the later reason wins. *)
StoppedAgain(v) == [tree EXCEPT !.status = v]

(* apply_stop: what is over keeps its status. *)
Stopped(v) == IF IsTreeTerminal(tree) THEN tree ELSE [tree EXCEPT !.status = v]

ApplyStop(c) ==
  /\ Doing(c, "stop")
  /\ tree' = Stopped(call[c].verdict)
  /\ Return(c)
  /\ UNCHANGED <<nodes, iters, left, overlaps, crashes>>

(* stop_tree *)
StopTree ==
  /\ tree # NoTree
  /\ tree' = Stopped("user_stopped")
  /\ IF Busy THEN Mishap /\ overlaps' = overlaps + 1
             ELSE UNCHANGED overlaps
  /\ UNCHANGED <<nodes, iters, left, call, crashes>>

-----------------------------------------------------------------------------
(* tree_approve *)

(* _tree_parent_with_plan: the selected node, or a deepest one with a plan. *)
WithPlan == {e \in Exp : nodes[e].plan # None}
ParentWithPlan == IF tree.selected \in WithPlan THEN {tree.selected}
                  ELSE {e \in WithPlan : \A d \in WithPlan :
                                           nodes[d].depth <= nodes[e].depth}

(* A candidate of the plan names the node the plan was made for.            *)
ApproveCandidate(c) ==
  /\ tree.status \in {"waiting_approval", "active"}
  /\ \E p \in ParentWithPlan :
       /\ nodes[p].plan = p
       /\ BeginWith(c, [Idle EXCEPT !.at = "contract", !.of = p])
  /\ UNCHANGED <<tree, nodes, iters, left>>

(* start_from_plan: a contract, which uses up budget the first time; an     *)
(* experiment; an iteration that waits for its own approval.                *)
Contract(c) ==
  /\ Doing(c, "contract")
  /\ \E k \in Exp \ {Root} :
       /\ k = 1 + Cardinality({e \in Exp \ {Root} : iters[e] # "absent"})
       /\ iters' = [iters EXCEPT ![k] = "waiting_approval"]
       /\ left' \in {left, IF left = 0 THEN 0 ELSE left - 1}
       /\ call' = [call EXCEPT ![c].at = "register", ![c].todo = {k}]
  /\ UNCHANGED <<tree, nodes, overlaps, crashes>>

(* A mistake: the root does not count. *)
HasRoomBelow(p) == /\ ~IsTreeTerminal(tree)
                   /\ nodes[p].depth + 1 <= MaxDepth
                   /\ Cardinality(Present(nodes) \ {Root}) < MaxNodes

(* register_experiment_node: it counts, then it inserts.                    *)
HasRoom(p) == /\ ~IsTreeTerminal(tree)
              /\ nodes[p].depth + 1 <= MaxDepth
              /\ Cardinality(Present(nodes)) < MaxNodes

Register(c) ==
  /\ Doing(c, "register")
  /\ IF HasRoom(call[c].of) THEN Goto(c, "insert") ELSE Return(c)
  /\ UNCHANGED <<tree, nodes, iters, left, overlaps, crashes>>

Child(c) == CHOOSE k \in call[c].todo : TRUE
NewNode(c) == [NoNode EXCEPT !.status = "created", !.parent = call[c].of,
                             !.depth = nodes[call[c].of].depth + 1]

Insert(c) ==
  /\ Doing(c, "insert")
  /\ nodes' = [nodes EXCEPT ![Child(c)] = NewNode(c)]
  /\ Goto(c, "link")
  /\ UNCHANGED <<tree, iters, left, overlaps, crashes>>

(* The child takes the plan and the iteration.                              *)
Link(c) ==
  /\ Doing(c, "link")
  /\ nodes' = [nodes EXCEPT ![Child(c)] =
                 [NewNode(c) EXCEPT !.status = "waiting_approval",
                                    !.plan = call[c].of, !.iter = TRUE]]
  /\ Goto(c, "await")
  /\ UNCHANGED <<tree, iters, left, overlaps, crashes>>

(* The tree's status is written whatever it is by now.                      *)
Await(c) ==
  /\ Doing(c, "await")
  /\ tree' = [tree EXCEPT !.status = "waiting_approval", !.selected = Child(c)]
  /\ Return(c)
  /\ UNCHANGED <<nodes, iters, left, overlaps, crashes>>

-----------------------------------------------------------------------------
(* tree_advance *)

(* A node that failed stays on the list.                                    *)
PendingNodes(ns) == {e \in Exp : ns[e].iter /\ ns[e].status # "evaluated"}

(* All nodes, or a single one.                                              *)
Advance(c) ==
  /\ Open
  /\ \E s \in {Exp} \cup {{e} : e \in Exp} :
       LET todo == PendingNodes(nodes) \cap s IN
       /\ todo # {}
       /\ BeginWith(c, [Idle EXCEPT !.at = "sync", !.todo = todo,
                          !.nodes = [e \in Exp |-> IF e \in todo THEN nodes[e]
                                                   ELSE NoNode]])
  /\ UNCHANGED <<tree, nodes, iters, left>>

Looked(c, e) == [call[c] EXCEPT !.todo = @ \ {e}, !.nodes[e] = NoNode,
                                !.at = IF call[c].todo = {e} THEN "sum" ELSE @]
Write(c, e, s) == nodes' = [nodes EXCEPT ![e] = [call[c].nodes[e] EXCEPT !.status = s]]

(* A mistake: an iteration that runs counts as done. *)
EvaluateEarly(c, e) ==
  /\ iters[e] \in {"running", "completed"}
  /\ Write(c, e, "evaluated")
  /\ call' = [call EXCEPT ![c] = [Looked(c, e) EXCEPT !.moved = TRUE, !.scored = TRUE]]

(* _tree_mark_node_evaluated raises for a node that has been taken to fail. *)
Evaluate(c, e) ==
  /\ iters[e] = "completed"
  /\ IF call[c].nodes[e].status \in {"waiting_approval", "running"}
     THEN /\ Write(c, e, "evaluated")
          /\ call' = [call EXCEPT ![c] = [Looked(c, e) EXCEPT !.moved = TRUE,
                                                             !.scored = TRUE]]
     ELSE Return(c) /\ UNCHANGED nodes

Fail(c, e) ==
  /\ iters[e] = "failed"
  /\ Write(c, e, "failed")
  /\ call' = [call EXCEPT ![c] = [Looked(c, e) EXCEPT !.moved = TRUE]]

Follow(c, e) ==
  /\ iters[e] = "running"
  /\ IF call[c].nodes[e].status = "waiting_approval"
     THEN Write(c, e, "running") ELSE UNCHANGED nodes
  /\ call' = [call EXCEPT ![c] = [Looked(c, e) EXCEPT !.pending = TRUE,
                                                     !.running = TRUE]]

LeaveWaiting(c, e) ==
  /\ iters[e] = "waiting_approval"
  /\ call' = [call EXCEPT ![c] = [Looked(c, e) EXCEPT !.pending = TRUE]]
  /\ UNCHANGED nodes

Sync(c) ==
  /\ Doing(c, "sync")
  /\ LET e == Min(call[c].todo) IN
       Evaluate(c, e) \/ Fail(c, e) \/ Follow(c, e) \/ LeaveWaiting(c, e)
  /\ UNCHANGED <<tree, iters, left, overlaps, crashes>>

(* waiting_approval, running -> evaluating -> active; the last step when    *)
(* this call has left nothing pending.                                      *)
SumStatus(c) ==
  IF call[c].moved
  THEN IF tree.status \in {"waiting_approval", "running", "evaluating"}
       THEN IF call[c].pending THEN "evaluating" ELSE "active"
       ELSE tree.status
  ELSE IF call[c].running /\ tree.status = "waiting_approval" THEN "running"
       ELSE tree.status

SumUp(c) ==
  /\ Doing(c, "sum")
  /\ tree' = [tree EXCEPT !.status = SumStatus(c)]
  /\ call' = [call EXCEPT ![c] =
                [Idle EXCEPT !.at = IF call[c].scored THEN "count" ELSE "judge",
                             !.pending = call[c].pending]]
  /\ UNCHANGED <<nodes, iters, left, overlaps, crashes>>

(* stop_policy.py: update_improvement_counters; the first score is better   *)
(* than none.                                                               *)
Improves == IF tree.seen THEN BOOLEAN ELSE {TRUE}
CountScores(c) ==
  /\ Doing(c, "count")
  /\ \E better \in Improves :
       tree' = [tree EXCEPT !.seen = TRUE,
                  !.rounds = IF better THEN 0
                             ELSE IF @ < MaxRounds THEN @ + 1 ELSE @]
  /\ Goto(c, "judge")
  /\ UNCHANGED <<nodes, iters, left, overlaps, crashes>>

-----------------------------------------------------------------------------
(* Iteration.tla in outline: approved or rejected, run, ended.  A failure   *)
(* reported while seeds are still being submitted may be taken back.        *)

IterStep(e) ==
  /\ \/ iters[e] = "waiting_approval" /\ iters' = [iters EXCEPT ![e] = "running"]
     \/ iters[e] \in {"waiting_approval", "running"}
        /\ iters' = [iters EXCEPT ![e] = "failed"]
     \/ iters[e] \in {"running", "failed"} /\ iters' = [iters EXCEPT ![e] = "completed"]
  /\ UNCHANGED <<tree, nodes, left, call, overlaps, crashes>>

Crash ==
  /\ Busy /\ Mishap
  /\ crashes' = crashes + 1
  /\ call' = [c \in Caller |-> Idle]
  /\ UNCHANGED <<tree, nodes, iters, left, overlaps>>

Continue(c) ==
  \/ CreateRoot(c) \/ Score(c) \/ Rank(c) \/ Choose(c) \/ Plan(c) \/ Settle(c)
  \/ Judge(c) \/ ApplyStop(c)
  \/ Contract(c) \/ Register(c) \/ Insert(c) \/ Link(c) \/ Await(c)
  \/ Sync(c) \/ SumUp(c) \/ CountScores(c)

Next ==
  \/ \E c \in Caller :
       \/ Create(c) \/ PlanNext(c) \/ ApproveCandidate(c) \/ Advance(c)
       \/ Continue(c)
  \/ StopTree \/ Crash
  \/ \E e \in Exp \ {Root} : IterStep(e)

Spec == Init /\ [][Next]_vars

-----------------------------------------------------------------------------
(* Types of the rows and of the copies requests hold: what the code writes  *)
(* is a row of the tables, in a status the models name.                     *)
TypeOK ==
  /\ tree \in Tree
  /\ nodes \in [Exp -> Node]
  /\ iters \in [Exp \ {Root} -> IterStatus]
  /\ left \in 0..NodeBudget
  /\ call \in [Caller -> Call]
  /\ overlaps \in 0..MaxMishaps
  /\ crashes \in 0..MaxMishaps

(* However requests race on stale copies, a node is only taken as evaluated *)
(* (and so as a parent of further experiments) when its own iteration has   *)
(* completed.                                                               *)
EvaluatedOnOutcome ==
  \A e \in Exp \ {Root} : nodes[e].status = "evaluated" => iters[e] = "completed"

(* register_experiment_node counts and inserts in two transactions: the     *)
(* limit on nodes may be passed, but by no more than one for each request   *)
(* that began in the middle of another.                                     *)
NodesBounded == Cardinality(Present(nodes)) <= MaxNodes + overlaps

(* Requests overlapped, or a crash broke one off. *)
Disturbed == overlaps > 0 \/ crashes > 0

(* tree_approve does not look at max_children; the limit holds because      *)
(* approving moves the selection to the child, whose plan is its parent's,  *)
(* so that every further child takes a select_parent that counts.  Calls    *)
(* that overlap or break off undo that.                                     *)
ChildrenBounded ==
  ~Disturbed => \A e \in Exp : Cardinality(Children(nodes, e)) <= MaxChildren

(* The limits of the policy are kept, and its counters stay within them.     *)
LimitsKept == TypeOK /\ NodesBounded /\ ChildrenBounded

(* A search that ends as completed has compared at least MaxRounds results  *)
(* with a first one.                                                        *)
CompletedOnRounds ==
  ~Disturbed /\ tree.status = "completed" =>
    Cardinality({e \in Exp : nodes[e].status = "evaluated"}) > MaxRounds

(* Every result the search reports was earned by iterations that completed,  *)
(* the node's own and, for the whole search, as many as were asked for.      *)
ResultsEarned == EvaluatedOnOutcome /\ CompletedOnRounds

(* A tree that is over stays as it ended, unless calls overlap: tree_approve*)
(* and the copies of select_parent are written without another look.        *)
OverStaysOver ==
  [][IsTreeTerminal(tree) => Disturbed' \/ tree'.status = tree.status]_vars
=============================================================================
