------------------------------ MODULE PlanWalk ------------------------------
(***************************************************************************)
(* Post-execution learning of postprocessing.c: learn_query_stat at        *)
(* ExecutorEnd walks the executed plan with collect_planstat, main plan    *)
(* first and then every SubPlan it meets (the other_plans queue), and      *)
(* passes each learnable node's accumulated clause list to                 *)
(* learn_sample_rfwr. Beside it, the clause list the planner predicted     *)
(* the same node with: get_path_clauses of path_utils.c over the node's    *)
(* path, which the join hooks of cardinality_hooks.c use, and              *)
(* baserestrictinfo (plus ppi_clauses) for a scan.                         *)
(*                                                                         *)
(* A plan is a tree of records: kind, had_path, path_clauses (own, a       *)
(* sequence of clause names), whether the node ran (exec: not              *)
(* ntuples = 0 and nloops = 0), its children kids = <<lefttree,            *)
(* righttree>> and its SubPlans subs. A node is named by its position: the *)
(* children's indices from the root, <<0, k>> for the k-th SubPlan.       *)
(* Selectivities and relids travel in lists parallel to the clauses and   *)
(* are left out; so are the target values (learn_rows).                    *)
(***************************************************************************)
EXTENDS Integers, Sequences, FiniteSets, SequencesExt

CONSTANTS
    Clauses,   \* the RestrictInfo clauses of the queries
    Plans      \* the executed plans a query can have

(* aqo_copy_generic_path_info, per plan node built from a path. A join     *)
(* gets its joinrestrictinfo; any other path the baserestrictinfo (plus    *)
(* ppi_clauses) of its parent rel: a scan its own rel's, a Sort, Material, *)
(* Unique or Gather over a scan the same rel's ("samerel"), an upper path *)
(* (Agg, Limit) or one over a join rel none. A Hash node has no path.     *)
ScanPlan(quals, e, subs) ==
    [kind |-> "scan", hadPath |-> TRUE, own |-> quals, exec |-> e,
     kids |-> <<>>, subs |-> subs]

JoinPlan(jc, l, r, e) ==
    [kind |-> "join", hadPath |-> TRUE, own |-> jc, exec |-> e,
     kids |-> <<l, r>>, subs |-> <<>>]

HashPlan(t) ==
    [kind |-> "hash", hadPath |-> FALSE, own |-> <<>>, exec |-> t.exec,
     kids |-> <<t>>, subs |-> <<>>]

OverPlan(kind, t, e) ==
    [kind |-> kind, hadPath |-> TRUE, exec |-> e, kids |-> <<t>>, subs |-> <<>>,
     own |-> IF kind = "samerel" /\ t.kind = "scan" THEN t.own ELSE <<>>]

(* The query_context fields learn_query_stat reads: whether the ENR was    *)
(* found, explain_only, learn_aqo, collect_stat, and whether the best-two *)
(* cost record applies (LEARN mode, nfeatures > 0, a recognised query).   *)
Contexts == [found : BOOLEAN, explainOnly : BOOLEAN, learnAqo : BOOLEAN,
             collectStat : BOOLEAN, costable : BOOLEAN]

VARIABLES
    plan,          \* queryDesc->planstate
    ctx,           \* query_context as restored at ExecutorEnd
    phase,         \* "start", "walk" (the while loop), "done"
    queue,         \* other_plans: entries [t, id] still to walk
    lists,         \* tmp_clauselist, shared by every walk of the loop
    samples,       \* learn_sample_rfwr calls that learned: [id, cl]
    costRecorded   \* update_two_best_costs_record was called

vars == <<plan, ctx, phase, queue, lists, samples, costRecorded>>

(* The foreach over p->subPlan: each SubPlan is queued after the others.   *)
SubPlanEntriesSelf(t, id) ==
    [k \in 1..Len(t.subs) |-> [t |-> t, id |-> id \o <<0, k>>]]

SubPlanEntries(t, id) ==
    [k \in 1..Len(t.subs) |-> [t |-> t.subs[k], id |-> id \o <<0, k>>]]

(* The learn test as if path_clauses were not consulted.                   *)
LearnShapeNoClauses(t) == Len(t.kids) # 1

(* p->righttree != NULL || p->lefttree == NULL || path_clauses != NIL.     *)
LearnShape(t) == Len(t.kids) # 1 \/ t.own # <<>>

(* The node's own lists prepended to what its subtree carried (the _temp  *)
(* copies); then: an executed node is learned, and the lists take the     *)
(* copies only if learn_sample_rfwr learned (nfeatures > 0); a node that  *)
(* did not run passes the copies up; a node failing the shape test leaves *)
(* the lists as they were.                                                 *)
LearnAt(t, id, w) ==
    LET tmp == t.own \o w.cl
    IN CASE ~LearnShape(t) -> w
         [] ~t.exec -> [w EXCEPT !.cl = tmp]
         [] tmp # <<>> -> [w EXCEPT !.cl = tmp,
                                    !.samples = Append(@, [id |-> id, cl |-> tmp])]
         [] OTHER -> w

(* The right subtree's lists without the left's.                           *)
ConcatRightDropped(wl, wr) == [wr EXCEPT !.cl = wl.cl]

(* list_concat(cur_clauselist, *clauselist): right subtree's lists first.  *)
ConcatRight(wl, wr) == [wr EXCEPT !.cl = wr.cl \o wl.cl]

(* collect_planstat(p, &other_plans, &clauselist, ...) with w the record  *)
(* of the lists it updates: cl (clauselist), other (other_plans entries   *)
(* added), samples. A left subtree continues the caller's lists, a right *)
(* subtree starts from empty ones.                                         *)
RECURSIVE CollectPlanstat(_, _, _)
CollectPlanstat(t, id, w) ==
    LET w0 == [w EXCEPT !.other = @ \o SubPlanEntries(t, id)]
        wk == CASE Len(t.kids) = 1 -> CollectPlanstat(t.kids[1], id \o <<1>>, w0)
                [] Len(t.kids) = 2 ->
                     LET wl == CollectPlanstat(t.kids[1], id \o <<1>>, w0)
                         wr == CollectPlanstat(t.kids[2], id \o <<2>>, [wl EXCEPT !.cl = <<>>])
                     IN ConcatRight(wl, wr)
                [] OTHER -> w0
    IN IF t.hadPath THEN LearnAt(t, id, wk) ELSE wk

(* get_path_clauses over the node's path: a join path's joinrestrictinfo  *)
(* then outer's and inner's; a path with a subpath its subpath's; a scan  *)
(* its baserestrictinfo and ppi_clauses. A Hash node stands for no path:  *)
(* the join's inner path is its child's.                                   *)
RECURSIVE GetPathClauses(_)
GetPathClauses(t) ==
    CASE t.kind = "join" -> t.own \o GetPathClauses(t.kids[1]) \o GetPathClauses(t.kids[2])
      [] t.kind = "scan" -> t.own
      [] OTHER -> GetPathClauses(t.kids[1])

Init ==
    /\ plan \in Plans
    /\ ctx \in Contexts
    /\ phase = "start"
    /\ queue = <<>>
    /\ lists = <<>>
    /\ samples = <<>>
    /\ costRecorded = FALSE

(* learn_query_stat up to the loop: without the ENR it goes to end; an    *)
(* EXPLAIN-only query neither learns nor collects; a learning query      *)
(* queues the main plan.                                                   *)
Extract ==
    /\ phase = "start"
    /\ IF ~ctx.found
       THEN /\ phase' = "done"
            /\ UNCHANGED <<ctx, queue>>
       ELSE LET c == IF ctx.explainOnly
                     THEN [ctx EXCEPT !.learnAqo = FALSE, !.collectStat = FALSE]
                     ELSE ctx
            IN /\ ctx' = c
               /\ queue' = IF c.learnAqo THEN <<[t |-> plan, id |-> <<>>]>> ELSE <<>>
               /\ phase' = "walk"
    /\ UNCHANGED <<plan, lists, samples, costRecorded>>

(* One iteration of the while loop: walk the head of other_plans (a      *)
(* SubPlanState's planstate), then list_delete_first.                     *)
WalkStep ==
    /\ phase = "walk"
    /\ queue # <<>>
    /\ LET w == CollectPlanstat(Head(queue).t, Head(queue).id,
                                [cl |-> lists, other |-> <<>>, samples |-> samples])
       IN /\ queue' = Tail(queue) \o w.other
          /\ lists' = w.cl
          /\ samples' = w.samples
    /\ UNCHANGED <<plan, ctx, phase, costRecorded>>

(* After the loop: the cost record when collecting in LEARN mode, then     *)
(* selectivity_cache_clear and RemoveFromQueryContext.                     *)
EndWalk ==
    /\ phase = "walk"
    /\ queue = <<>>
    /\ costRecorded' = (ctx.collectStat /\ ctx.costable)
    /\ phase' = "done"
    /\ UNCHANGED <<plan, ctx, queue, lists, samples>>

(* The query is run again from its cached plan (a prepared statement) and *)
(* reaches ExecutorEnd afresh with the context of that run; the           *)
(* lists of learn_query_stat are local to the call.                       *)
NextQuery ==
    /\ phase = "done"
    /\ ctx' \in {c \in Contexts : c.costable = ctx.costable}
    /\ UNCHANGED plan
    /\ phase' = "start"
    /\ queue' = <<>>
    /\ lists' = <<>>
    /\ samples' = <<>>
    /\ costRecorded' = FALSE

Next == Extract \/ WalkStep \/ EndWalk \/ NextQuery

Spec == Init /\ [][Next]_vars

-----------------------------------------------------------------------------

(* Every node of t, SubPlans and theirs included, with its name.           *)
RECURSIVE NodesOf(_, _)
NodesOf(t, id) ==
    {[t |-> t, id |-> id]}
      \cup UNION {NodesOf(t.kids[k], id \o <<k>>) : k \in 1..Len(t.kids)}
      \cup UNION {NodesOf(t.subs[k], id \o <<0, k>>) : k \in 1..Len(t.subs)}

(* The clauses of t's nodes and its children's, SubPlans not included.     *)
RECURSIVE SubtreeClauses(_)
SubtreeClauses(t) ==
    ToSet(t.own) \cup UNION {SubtreeClauses(t.kids[k]) : k \in 1..Len(t.kids)}

NodeAt(id) == (CHOOSE n \in NodesOf(plan, <<>>) : n.id = id).t

Learned == {samples[i].id : i \in DOMAIN samples}

TypeOK ==
    /\ plan \in Plans
    /\ ctx \in Contexts
    /\ phase \in {"start", "walk", "done"}
    /\ \A i \in DOMAIN queue : queue[i] \in NodesOf(plan, <<>>)
    /\ lists \in Seq(Clauses)
    /\ Learned \subseteq {n.id : n \in NodesOf(plan, <<>>)}
    /\ costRecorded \in BOOLEAN

(* When the walk is over, every node of the plan and its SubPlans that ran *)
(* and has clauses of its own or is not a one-child node, with a clause in *)
(* its subtree, was learned,                                               *)
(* exactly once, and no other node was: the other_plans queue reaches     *)
(* every SubPlan and collect_planstat every child.                        *)
EveryNodeLearnedOnce ==
    (phase = "done" /\ ctx.found /\ ctx.learnAqo) =>
        LET N == NodesOf(plan, <<>>)
            Able == {n \in N : /\ n.t.hadPath /\ n.t.exec
                                /\ (n.t.own # <<>> \/ Len(n.t.kids) # 1)}
        IN /\ Len(samples) = Cardinality(Learned)
           /\ {n.id : n \in {m \in Able : SubtreeClauses(m.t) # {}}} \subseteq Learned
           /\ Learned \subseteq {n.id : n \in Able}

(* A sample learned for a node holds every clause of the node's subtree:  *)
(* the lists carried up through left and right subtrees, Hash nodes and   *)
(* nodes that did not run lose none.                                       *)
SampleCoversSubtree ==
    \A i \in DOMAIN samples :
        SubtreeClauses(NodeAt(samples[i].id)) \subseteq ToSet(samples[i].cl)

(* The feature subspace a node is learned into is the one the planner     *)
(* predicted that node's rows from: get_fss_for_object hashes the clause  *)
(* list sorted, so the two lists must hold the same clauses equally often.*)
LearnKeyIsPredictKey ==
    \A i \in DOMAIN samples :
        ToBag(samples[i].cl) = ToBag(GetPathClauses(NodeAt(samples[i].id)))
=============================================================================
