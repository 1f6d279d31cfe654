----------------------------- MODULE AqoStorage -----------------------------
(***************************************************************************)
(* Backends running AQO queries against the tables it keeps, as driven by  *)
(* preprocessing.c (aqo_planner), cardinality_hooks.c, storage.c,          *)
(* cardinality_estimation.c and postprocessing.c:                          *)
(*   Q        the aqo_queries row: aqo_planner maps every recognised query *)
(*            to query_hash 1, so all queries share it;                    *)
(*   M(f), D(f) the LWPR model (aqo_data_lwpr) and KNN datahouse           *)
(*            (aqo_data_house_lwpr) tuples of one feature subspace, in     *)
(*            feature space f (the query's fspace_hash).                   *)
(*                                                                         *)
(* A query is one transaction, in the session's aqo.mode:                  *)
(*   planning:  find_query; then add_query for a new query in a mode that  *)
(*              adds it, or update_query2 of the stored row; then the      *)
(*              cardinality hooks, which in mode "learn" with use_aqo call *)
(*              predict_for_relation_lwpr_explore (load_fss_rfwr,          *)
(*              update_fss_rfwr2);                                         *)
(*   learning (learn_aqo and not EXPLAIN only): load_fss_rfwr, lwpr_update *)
(*              learning the sample into D (load/update_rf_datahouse), and *)
(*              update_fss_rfwr (saves M);                                 *)
(*   commit.                                                               *)
(* A model's content is abstracted to the set of queries whose learn it    *)
(* holds and the number of history saves; D to the set of queries whose    *)
(* sample it holds; Q to its flags, total_num and num_history. Every       *)
(* update rescans the tuple (SnapshotSelf) just before heap_update: the    *)
(* version it replaces is the one visible then, while the content it       *)
(* writes was computed from the earlier load.                              *)
(*                                                                         *)
(* Tuples follow PostgreSQL's rules as the code uses them: reads use       *)
(* SnapshotSelf (the last committed version, or the reader's own pending   *)
(* one); heap_update waits for a concurrent writer, and reports            *)
(* HeapTupleUpdated if the version read was superseded, in which case      *)
(* my_simple_heap_update returns false and the write is dropped; an insert *)
(* with UNIQUE_CHECK_YES waits for a concurrent inserter and raises an     *)
(* ERROR if a committed tuple with the key exists. A writer's new version  *)
(* becomes visible to others at commit and is dropped at abort.            *)
(***************************************************************************)
EXTENDS Naturals, FiniteSets

CONSTANTS
    Procs,      \* backends
    MaxTx,      \* queries each backend runs
    Modes,      \* the values of aqo.mode sessions use
    NoProc      \* no pending writer

AllModes == {"intelligent", "forced", "controlled", "learn"}

ASSUME /\ NoProc \notin Procs /\ MaxTx \in Nat \ {0}
       /\ Modes \subseteq AllModes /\ Modes # {}

Txns == Procs \X (1..MaxTx)

(* query_context.query_hash of every recognised query (preprocessing.c),   *)
(* and the size of the aqo_queries history ring                            *)
(* (num_history_data_compute_probability_fs).                              *)
QueryHash == 1
HistCap == 3

(* fspace_hash: the query hash, or 0 for a query FORCED mode runs without  *)
(* a stored row.                                                           *)
FSpaces == {0, QueryHash}

QKey == <<"q", QueryHash>>
MKey(f) == <<"m", f>>
DKey(f) == <<"d", f>>
Keys == {QKey} \cup {MKey(f) : f \in FSpaces} \cup {DKey(f) : f \in FSpaces}

(* A tuple version: whether the row exists, its version number and the     *)
(* abstracted content (learns, hist for M and D; the flags, fspace_hash,   *)
(* num_history and total_num for Q).                                       *)
Version == [exists : BOOLEAN, ver : Nat, learns : SUBSET Txns, hist : Nat,
            total : Nat, learn : BOOLEAN, use : BOOLEAN, fs : FSpaces]

NoRow == [exists |-> FALSE, ver |-> 0, learns |-> {}, hist |-> 0, total |-> 0,
          learn |-> FALSE, use |-> FALSE, fs |-> 0]

(* The query_context flags a backend plans with.                           *)
Ctx == [learn : BOOLEAN, use : BOOLEAN, fs : FSpaces]

VARIABLES
    tab,          \* each tuple's committed version
    wr,           \* each tuple's pending writer, or NoProc
    pend,         \* each tuple's pending version
    pc,           \* each backend's position in its current query
    tx,           \* each backend's query counter
    mode,         \* aqo.mode of the backend's current query
    explain,      \* whether the current query is EXPLAIN without ANALYZE
    ctx,          \* query_context: learn_aqo, use_aqo, fspace_hash
    qLoad,        \* the aqo_queries row find_query returned
    mLoad, dLoad, \* the version of M and D each backend last loaded
    scan,         \* the version found by the rescan of the current save
    errors,       \* auxiliary: queries that failed with an ERROR, and why
    committed,    \* auxiliary: queries that committed
    counted,      \* auxiliary: committed queries that stored or updated Q
    noEstimate    \* auxiliary: queries planned with a hook giving no estimate

vars == <<tab, wr, pend, pc, tx, mode, explain, ctx, qLoad, mLoad, dLoad,
          scan, errors, committed, counted, noEstimate>>

Pc == {"idle", "find", "addQuery", "qScan", "qSave", "estimate", "planLoad",
       "planScan", "planSave", "learnLoad", "dLoad", "dScan", "dSave",
       "mScan", "mSave", "commit"}

Cur(b) == <<b, tx[b]>>

(* What an index scan with SnapshotSelf shows backend b of a tuple: the    *)
(* last committed version, or b's own pending one.                         *)
Visible(b, t, w, p) == IF w = b THEN p ELSE t

VisibleKey(b, k) == Visible(b, tab[k], wr[k], pend[k])

(* my_simple_heap_update retrying a superseded tuple instead of giving up. *)
WriteOutcomeRetryUpdated(b, l, t, w) ==
    CASE w \notin {NoProc, b} -> "wait"
      [] w = b -> "ok"
      [] ~l.exists /\ t.exists -> "error"
      [] l.exists /\ l.ver # t.ver -> "wait"
      [] OTHER -> "ok"

(* The outcome of b's write of a tuple whose rescan found version l:       *)
(* heap_update through my_simple_heap_update if l exists, else            *)
(* simple_heap_insert and my_index_insert with UNIQUE_CHECK_YES. Both wait *)
(* while another transaction has a pending version; then heap_update      *)
(* reports HeapTupleUpdated (false: "discard") if l was superseded, and    *)
(* the unique check raises an ERROR if the key now exists.                 *)
WriteOutcome(b, l, t, w) ==
    CASE w \notin {NoProc, b} -> "wait"
      [] w = b -> "ok"
      [] ~l.exists /\ t.exists -> "error"
      [] l.exists /\ l.ver # t.ver -> "discard"
      [] OTHER -> "ok"

OutcomeKey(b, k) == WriteOutcome(b, scan[b], tab[k], wr[k])

(* b's pending write of tuple k becomes c.                                 *)
Write(b, k, c) ==
    /\ wr' = [wr EXCEPT ![k] = b]
    /\ pend' = [pend EXCEPT ![k] =
                  [c EXCEPT !.exists = TRUE,
                            !.ver = IF wr[k] = b THEN pend[k].ver
                                    ELSE tab[k].ver + 1]]

HistAfter(n) == IF n < HistCap THEN n + 1 ELSE n

-----------------------------------------------------------------------------
Init ==
    /\ tab = [k \in Keys |-> NoRow]
    /\ wr = [k \in Keys |-> NoProc]
    /\ pend = [k \in Keys |-> NoRow]
    /\ pc = [b \in Procs |-> "idle"]
    /\ tx = [b \in Procs |-> 0]
    /\ mode = [b \in Procs |-> CHOOSE md \in Modes : TRUE]
    /\ explain = [b \in Procs |-> FALSE]
    /\ ctx = [b \in Procs |-> [learn |-> FALSE, use |-> FALSE, fs |-> 0]]
    /\ qLoad = [b \in Procs |-> NoRow]
    /\ mLoad = [b \in Procs |-> NoRow]
    /\ dLoad = [b \in Procs |-> NoRow]
    /\ scan = [b \in Procs |-> NoRow]
    /\ errors = {} /\ committed = {} /\ counted = {} /\ noEstimate = {}

store == <<tab, wr, pend>>
session == <<tx, mode, explain, ctx>>
loads == <<qLoad, mLoad, dLoad, scan>>
aux == <<errors, committed, counted, noEstimate>>

(* A query starts, in the mode the session has set (aqo.mode is PGC_SUSET, *)
(* so sessions may differ, and a session may SET it between queries).     *)
(* EXPLAIN without ANALYZE plans only (explain_only clears learn_aqo in    *)
(* learn_query_stat).                                                      *)
Begin(b) ==
    /\ pc[b] = "idle"
    /\ tx[b] < MaxTx
    /\ \E md \in Modes : mode' = [mode EXCEPT ![b] = md]
    /\ \E e \in BOOLEAN : explain' = [explain EXCEPT ![b] = e]
    /\ tx' = [tx EXCEPT ![b] = @ + 1]
    /\ pc' = [pc EXCEPT ![b] = "find"]
    /\ UNCHANGED <<store, ctx, loads, aux>>

(* The flags aqo_planner sets for a query not in aqo_queries, by mode;     *)
(* CONTROLLED leaves fspace_hash as the previous query left it.            *)
NewQueryCtx(md, c) ==
    CASE md = "intelligent" -> [learn |-> TRUE, use |-> FALSE, fs |-> QueryHash]
      [] md = "forced" -> [learn |-> TRUE, use |-> TRUE, fs |-> 0]
      [] md = "controlled" -> [c EXCEPT !.learn = FALSE, !.use = FALSE]
      [] md = "learn" -> [learn |-> TRUE, use |-> TRUE, fs |-> QueryHash]

(* adding_query set only in INTELLIGENT mode.                              *)
AddsQueryIntelligentOnly(md) == md = "intelligent"

(* query_context.adding_query for a query not in aqo_queries.              *)
AddsQuery(md) == md \in {"intelligent", "learn"}

(* aqo_planner: find_query reads the row with SnapshotSelf; a stored row   *)
(* gives the flags, to be written back by update_query2; otherwise the     *)
(* mode gives them, and add_query follows if the mode adds queries.        *)
Find(b) ==
    LET l == VisibleKey(b, QKey)
    IN /\ pc[b] = "find"
       /\ qLoad' = [qLoad EXCEPT ![b] = l]
       /\ ctx' = [ctx EXCEPT ![b] =
                    IF l.exists THEN [learn |-> l.learn, use |-> l.use, fs |-> l.fs]
                    ELSE NewQueryCtx(mode[b], ctx[b])]
       /\ pc' = [pc EXCEPT ![b] =
                    CASE l.exists -> "qScan"
                      [] AddsQuery(mode[b]) -> "addQuery"
                      [] OTHER -> "estimate"]
       /\ UNCHANGED <<store, tx, mode, explain, mLoad, dLoad, scan, aux>>

(* An ERROR aborts the query's transaction: its pending versions are gone. *)
Fail(b, why) ==
    /\ wr' = [k \in Keys |-> IF wr[k] = b THEN NoProc ELSE wr[k]]
    /\ pend' = [k \in Keys |-> IF wr[k] = b THEN NoRow ELSE pend[k]]
    /\ errors' = errors \cup {<<Cur(b), why>>}
    /\ pc' = [pc EXCEPT ![b] = "idle"]
    /\ UNCHANGED <<tab, session, loads, committed, counted, noEstimate>>

(* add_query: insert with UNIQUE_CHECK_YES; PG_CATCH deletes the tuple and *)
(* re-throws. The row holds the query's flags, history [pattern] and      *)
(* total_num 1. (add_query_text then inserts into aqo_query_texts under   *)
(* the same key, which cannot conflict once this insert succeeded.)       *)
AddQuery(b) ==
    LET o == WriteOutcome(b, NoRow, tab[QKey], wr[QKey])
    IN /\ pc[b] = "addQuery"
       /\ o # "wait"
       /\ \/ /\ o = "error"
             /\ Fail(b, "addQuery")
          \/ /\ o = "ok"
             /\ Write(b, QKey, [NoRow EXCEPT !.hist = 1, !.total = 1,
                                 !.learn = ctx[b].learn, !.use = ctx[b].use,
                                 !.fs = ctx[b].fs])
             /\ pc' = [pc EXCEPT ![b] = "estimate"]
             /\ UNCHANGED <<tab, session, loads, aux>>

(* The rescan of an update: in update_query2, update_fss_rfwr2,           *)
(* update_rf_datahouse or update_fss_rfwr.                                 *)
Scan(b, from, to, k) ==
    /\ pc[b] = from
    /\ scan' = [scan EXCEPT ![b] = VisibleKey(b, k)]
    /\ pc' = [pc EXCEPT ![b] = to]
    /\ UNCHANGED <<store, session, qLoad, mLoad, dLoad, aux>>

QScan(b) == Scan(b, "qScan", "qSave", QKey)

(* update_query2, called with the values find_query returned: the flags,   *)
(* the history ring with this query's pattern pushed, total_num + 1. The   *)
(* rescan always finds the row (rows of aqo_queries are never deleted).    *)
QSave(b) ==
    LET o == OutcomeKey(b, QKey)
    IN /\ pc[b] = "qSave"
       /\ o # "wait"
       /\ IF o = "ok"
          THEN Write(b, QKey, [scan[b] EXCEPT !.learn = qLoad[b].learn,
                                 !.use = qLoad[b].use, !.fs = qLoad[b].fs,
                                 !.hist = HistAfter(qLoad[b].hist),
                                 !.total = qLoad[b].total + 1])
          ELSE UNCHANGED <<wr, pend>>
       /\ pc' = [pc EXCEPT ![b] = "estimate"]
       /\ UNCHANGED <<tab, session, loads, aux>>

(* The four cardinality hooks: without use_aqo the default estimator; in   *)
(* mode "learn" predict_for_relation_lwpr_explore (falling back to the     *)
(* default when no model is found); in any other mode nothing: the        *)
(* set_*_estimate hooks leave the row count unset and the                 *)
(* get_parameterized_*_size hooks reach the end of a non-void function,   *)
(* returning an undefined value.                                           *)
HookEstimate(b, returnsValue) ==
    CASE ~ctx[b].use -> "default"
      [] mode[b] = "learn" -> "predict"
      [] returnsValue -> "undefined"
      [] OTHER -> "unset"

SetBaserelRows(b) == HookEstimate(b, FALSE)
ParamBaserelSize(b) == HookEstimate(b, TRUE)
SetJoinrelSize(b) == HookEstimate(b, FALSE)
ParamJoinrelSize(b) == HookEstimate(b, TRUE)

(* Learning follows execution unless learn_aqo is off or it is EXPLAIN     *)
(* only (learn_query_stat).                                                *)
AfterPlan(b) == IF ctx[b].learn /\ ~explain[b] THEN "learnLoad" ELSE "commit"

(* Planning calls the hooks for the query's relations and joins.           *)
Estimate(b) ==
    LET hooks == {SetBaserelRows(b), ParamBaserelSize(b), SetJoinrelSize(b),
                  ParamJoinrelSize(b)}
    IN /\ pc[b] = "estimate"
       /\ noEstimate' = IF hooks \cap {"unset", "undefined"} # {}
                        THEN noEstimate \cup {Cur(b)} ELSE noEstimate
       /\ pc' = [pc EXCEPT ![b] = IF "predict" \in hooks THEN "planLoad"
                                  ELSE AfterPlan(b)]
       /\ UNCHANGED <<store, session, loads, errors, committed, counted>>

(* load_fss_rfwr: the index scan of aqo_data_lwpr on (fspace_hash,        *)
(* fss_hash) with SnapshotSelf; a tuple found gives the model its fields   *)
(* and history. (A stored ncols other than nfeatures, possible only for   *)
(* two clause lists of one hash, is left out.)                            *)
LoadFssRfwr(b) == VisibleKey(b, MKey(ctx[b].fs))

(* load_fss_rfwr in predict_for_relation_lwpr_explore; update_fss_rfwr2    *)
(* follows only if the model was found.                                    *)
PlanLoad(b) ==
    LET l == LoadFssRfwr(b)
    IN /\ pc[b] = "planLoad"
       /\ mLoad' = [mLoad EXCEPT ![b] = l]
       /\ pc' = [pc EXCEPT ![b] = IF l.exists THEN "planScan" ELSE AfterPlan(b)]
       /\ UNCHANGED <<store, session, qLoad, dLoad, scan, aux>>

PlanScan(b) == Scan(b, "planScan", "planSave", MKey(ctx[b].fs))

(* update_fss_rfwr2: if the rescan finds the model, only the history       *)
(* columns are replaced, by those of the model loaded for planning with    *)
(* the current query's point pushed (lwpr_predict_explore).                *)
PlanSave(b) ==
    LET k == MKey(ctx[b].fs)
        o == OutcomeKey(b, k)
    IN /\ pc[b] = "planSave"
       /\ ~scan[b].exists \/ o # "wait"
       /\ IF scan[b].exists /\ o = "ok"
          THEN Write(b, k, [scan[b] EXCEPT !.hist = mLoad[b].hist + 1])
          ELSE UNCHANGED <<wr, pend>>
       /\ pc' = [pc EXCEPT ![b] = AfterPlan(b)]
       /\ UNCHANGED <<tab, session, loads, aux>>

(* load_fss_rfwr in atomic_fss_learn_step_rfwr. lwpr_update then learns    *)
(* into the datahouse unless every field it updates is trustworthy; a      *)
(* model not found is fresh and its first field always learns (init_rf).   *)
LearnLoad(b) ==
    LET l == LoadFssRfwr(b)
    IN /\ pc[b] = "learnLoad"
       /\ mLoad' = [mLoad EXCEPT ![b] = l]
       /\ \E next \in IF l.exists THEN {"dLoad", "mScan"} ELSE {"dLoad"} :
             pc' = [pc EXCEPT ![b] = next]
       /\ UNCHANGED <<store, session, qLoad, dLoad, scan, aux>>

(* load_rf_datahouse in update_regression or init_rf.                      *)
DLoad(b) ==
    /\ pc[b] = "dLoad"
    /\ dLoad' = [dLoad EXCEPT ![b] = VisibleKey(b, DKey(ctx[b].fs))]
    /\ pc' = [pc EXCEPT ![b] = "dScan"]
    /\ UNCHANGED <<store, session, qLoad, mLoad, scan, aux>>

DScan(b) == Scan(b, "dScan", "dSave", DKey(ctx[b].fs))

(* update_rf_datahouse: the rows loaded, with the sample learned by        *)
(* OkNNr_learn, replace those of the tuple the rescan found, or are        *)
(* inserted; a unique violation is re-thrown (PG_RE_THROW).                *)
DSave(b) ==
    LET k == DKey(ctx[b].fs)
        o == OutcomeKey(b, k)
    IN /\ pc[b] = "dSave"
       /\ o # "wait"
       /\ \/ /\ o = "error"
             /\ Fail(b, "unique")
          \/ /\ o \in {"ok", "discard"}
             /\ IF o = "ok"
                THEN Write(b, k, [NoRow EXCEPT !.learns = dLoad[b].learns \cup {Cur(b)}])
                ELSE UNCHANGED <<wr, pend>>
             /\ pc' = [pc EXCEPT ![b] = "mScan"]
             /\ UNCHANGED <<tab, session, loads, aux>>

MScan(b) == Scan(b, "mScan", "mSave", MKey(ctx[b].fs))

(* Variant: every learn pushes the point into the history.                *)
LearnHistAlways(l) == l.hist + 1

(* lwpr_aux_update_one_T pushes the query's point into the history only   *)
(* of a fresh model (numRFS = 0).                                          *)
LearnHist(l) == IF l.exists THEN l.hist ELSE 1

(* update_fss_rfwr: every column but the keys is replaced by the model     *)
(* loaded before lwpr_update, with this query's sample learned; the       *)
(* version replaced is the one the rescan found (or the tuple is          *)
(* inserted when the rescan finds none).                                   *)
MSave(b) ==
    LET k == MKey(ctx[b].fs)
        o == OutcomeKey(b, k)
    IN /\ pc[b] = "mSave"
       /\ o # "wait"
       /\ \/ /\ o = "error"
             /\ Fail(b, "unique")
          \/ /\ o \in {"ok", "discard"}
             /\ IF o = "ok"
                THEN Write(b, k, [NoRow EXCEPT
                                    !.learns = mLoad[b].learns \cup {Cur(b)},
                                    !.hist = LearnHist(mLoad[b])])
                ELSE UNCHANGED <<wr, pend>>
             /\ pc' = [pc EXCEPT ![b] = "commit"]
             /\ UNCHANGED <<tab, session, loads, aux>>

(* The query's transaction commits: its pending versions become the       *)
(* committed ones. It counted in total_num if it stored or updated Q.     *)
Commit(b) ==
    /\ pc[b] = "commit"
    /\ tab' = [k \in Keys |-> IF wr[k] = b THEN pend[k] ELSE tab[k]]
    /\ wr' = [k \in Keys |-> IF wr[k] = b THEN NoProc ELSE wr[k]]
    /\ pend' = [k \in Keys |-> IF wr[k] = b THEN NoRow ELSE pend[k]]
    /\ committed' = committed \cup {Cur(b)}
    /\ counted' = IF qLoad[b].exists \/ AddsQuery(mode[b])
                  THEN counted \cup {Cur(b)} ELSE counted
    /\ pc' = [pc EXCEPT ![b] = "idle"]
    /\ UNCHANGED <<session, loads, errors, noEstimate>>

(* The tuple b's current write is for, and the version its write found.    *)
SaveKey(b) ==
    CASE pc[b] \in {"addQuery", "qSave"} -> QKey
      [] pc[b] \in {"planSave", "mSave"} -> MKey(ctx[b].fs)
      [] OTHER -> DKey(ctx[b].fs)

Writing(b) ==
    \/ pc[b] \in {"addQuery", "qSave", "mSave", "dSave"}
    \/ pc[b] = "planSave" /\ scan[b].exists

(* The backend whose pending version b's current write waits for.         *)
Waits(b) ==
    LET k == SaveKey(b)
        l == IF pc[b] = "addQuery" THEN NoRow ELSE scan[b]
    IN IF Writing(b) /\ WriteOutcome(b, l, tab[k], wr[k]) = "wait"
       THEN wr[k] ELSE NoProc

(* PostgreSQL's deadlock detector cancels one of two backends waiting for  *)
(* each other with an ERROR.                                               *)
DeadlockAbort(b) ==
    /\ \E c \in Procs \ {b} : Waits(b) = c /\ Waits(c) = b
    /\ Fail(b, "deadlock")

(* A backend that has run its queries stays idle.                        *)
Rest(b) == pc[b] = "idle" /\ tx[b] = MaxTx /\ UNCHANGED vars

Run(b) ==
    \/ Find(b) \/ AddQuery(b) \/ QScan(b) \/ QSave(b) \/ Estimate(b)
    \/ PlanLoad(b) \/ PlanScan(b) \/ PlanSave(b) \/ LearnLoad(b)
    \/ DLoad(b) \/ DScan(b) \/ DSave(b) \/ MScan(b) \/ MSave(b)
    \/ Commit(b) \/ DeadlockAbort(b)

Next ==
    \/ \E b \in Procs : Begin(b)
    \/ \E b \in Procs : Find(b)
    \/ \E b \in Procs : AddQuery(b)
    \/ \E b \in Procs : QScan(b)
    \/ \E b \in Procs : QSave(b)
    \/ \E b \in Procs : Estimate(b)
    \/ \E b \in Procs : PlanLoad(b)
    \/ \E b \in Procs : PlanScan(b)
    \/ \E b \in Procs : PlanSave(b)
    \/ \E b \in Procs : LearnLoad(b)
    \/ \E b \in Procs : DLoad(b)
    \/ \E b \in Procs : DScan(b)
    \/ \E b \in Procs : DSave(b)
    \/ \E b \in Procs : MScan(b)
    \/ \E b \in Procs : MSave(b)
    \/ \E b \in Procs : Commit(b)
    \/ \E b \in Procs : DeadlockAbort(b)
    \/ \E b \in Procs : Rest(b)

(* A backend that has started a query keeps running it: it is never       *)
(* descheduled forever, and the deadlock detector runs after              *)
(* deadlock_timeout. Users need not start queries, so Begin is not fair.  *)
Spec == Init /\ [][Next]_vars /\ \A b \in Procs : WF_vars(Run(b))
-----------------------------------------------------------------------------
(* Well-formedness: a pending version exists only while its writer's      *)
(* transaction is open, and a history counts at most one entry per query. *)
TypeOK ==
    /\ tab \in [Keys -> Version] /\ pend \in [Keys -> Version]
    /\ wr \in [Keys -> Procs \cup {NoProc}]
    /\ \A k \in Keys : (wr[k] = NoProc) = (pend[k] = NoRow)
    /\ \A f \in FSpaces : tab[MKey(f)].hist \in 0..Cardinality(Txns)
    /\ pc \in [Procs -> Pc] /\ tx \in [Procs -> 0..MaxTx]
    /\ mode \in [Procs -> Modes] /\ explain \in [Procs -> BOOLEAN]
    /\ ctx \in [Procs -> Ctx]
    /\ qLoad \in [Procs -> Version] /\ scan \in [Procs -> Version]
    /\ mLoad \in [Procs -> Version] /\ dLoad \in [Procs -> Version]
    /\ errors \subseteq Txns \X {"unique", "addQuery", "deadlock"}
    /\ committed \subseteq Txns /\ counted \subseteq committed
    /\ noEstimate \subseteq Txns

(* Each model's query history holds at most one entry per committed       *)
(* query: update_fss_rfwr2 pushes the point at planning, and the learn of *)
(* the same query writes the history back unchanged unless the model is   *)
(* new.                                                                    *)
HistoryOncePerQuery ==
    \A f \in FSpaces : tab[MKey(f)].hist <= Cardinality(committed)

(* A query that has started finishes: no backend waits forever on a tuple *)
(* another backend has updated (commit, or the deadlock detector, ends    *)
(* every wait).                                                            *)
QueryCompletes == \A b \in Procs : pc[b] # "idle" ~> pc[b] = "idle"

(* A committed learn is never undone: the samples in every committed      *)
(* model and datahouse only grow (the "critical section" of               *)
(* learn_sample_rfwr).                                                     *)
LearnedSamplesKept ==
    [][\A f \in FSpaces : /\ tab[MKey(f)].learns \subseteq tab'[MKey(f)].learns
                          /\ tab[DKey(f)].learns \subseteq tab'[DKey(f)].learns]_vars

(* AQO's own inserts never make the user's query fail with an ERROR:      *)
(* neither add_query at planning nor update_rf_datahouse's first insert   *)
(* when learning re-throws a unique violation.                             *)
NoAqoInsertError == \A e \in errors : e[2] \notin {"addQuery", "unique"}

(* No query is cancelled by the deadlock detector: the updates of         *)
(* concurrent queries never wait for each other in a cycle.               *)
NoDeadlockCancel == \A e \in errors : e[2] # "deadlock"

(* Every query AQO plans gets a cardinality estimate from each hook, by    *)
(* AQO or by the default estimator.                                        *)
EstimateAlwaysMade == noEstimate = {}

(* total_num of the aqo_queries row counts the committed queries that     *)
(* registered it or found it stored (update_query2 adds one per query).   *)
QueryTotalCounted == tab[QKey].total = Cardinality(counted)
(* A prediction reads query_context.query_distribution                     *)
(* (lwpr_aux_predict_conf_one_T), which aqo_planner loads only for a       *)
(* query it found stored (load_query_distribution, preprocessing.c:287);  *)
(* any other query would read the distribution of an earlier query, freed *)
(* with its planner memory. So a backend that found a model to predict     *)
(* with has found the aqo_queries row in this query: a model is committed *)
(* only with or after that row, and a query that missed the row adds it,  *)
(* failing if it has been committed since.                                *)
PredictionHasDistribution ==
    \A b \in Procs : pc[b] \in {"planScan", "planSave"} => qLoad[b].exists
====
