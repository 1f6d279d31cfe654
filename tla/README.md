# TLA+ models of the AQO exploratory optimizer (LWPR + OkNNr)

This directory holds TLA+ models of the adaptive query optimizer extension in
`src/postgresql-10.0-with-exploratory-optimizer/contrib/aqo/`. They are checked
with TLC.

## The system

The extension hooks the PostgreSQL planner (`preprocessing.c`, `cardinality_hooks.c`).
For every feature subspace (fss, a set of clauses) it keeps an **LWPR model**:
a population of *receptive fields*, each with a centre `c`, a distance metric
`M` (`D = M^T M`), local PLS regression statistics and a counter `n_data`.

- **Training.** After execution (`postprocessing.c`) the model is loaded
  (`storage.c: load_fss_rfwr`). `lwpr_update` then runs, followed by
  `update_fss_rfwr`. In `lwpr_update`:
  - Every field activated above 0.001 is updated (`lwpr_aux_update_one_T`).
  - A field is then created or pruned (`lwpr_aux_update_one_add_prune`).
- **Untrusted fields.** A field with at most `2*nIn` updates is not
  *trustworthy*. Each of its samples is also learned into a small KNN store,
  the "datahouse", keyed by `hash(c)` and written with `update_rf_datahouse`.
  The store is written by `OkNNr_learn` (`machine_learning.c`), with capacity
  `2*nIn+1`.
- **Prediction.** Planning predicts cardinality with `lwpr_predict` or
  `lwpr_predict_explore`. The latter also computes an uncertainty, a future
  value from the query-pattern history, and saves the history with
  `update_fss_rfwr2`.

Every backend runs this code against shared tables. There is no lock around
load–update–save: the comment at `postprocessing.c:200` says "here should be
critical section". The only safeguard is that a tuple update losing to a
concurrent update is discarded.

## Modules

| Module | Models | Status |
|---|---|---|
| `LwprUpdate` | One training step: `lwpr_update` → `update_one_T` → `add_prune` | partly (1-D, data abstracted) |
| `FieldPopulation` | Abstract population manager that `LwprUpdate` refines | abstract spec |
| `MC_LwprUpdate` | TLC instance of `LwprUpdate` plus the refinement property | — |
| `AqoStorage` | Concurrent backends planning and learning against the model tuple (`aqo_data_lwpr`) and a datahouse tuple (`aqo_data_house_lwpr`) | partly (content abstracted) |
| `MC_AqoStorage` | TLC instance of `AqoStorage`: two backends, two queries each | — |
| `OkNNr` | The KNN regressor: `OkNNr_learn`, `OkNNr_predict`, `OkNNr_compute_weights`, and the caller's `new_matrix_rows` | modelled (1-D, fixed-point values) |
| `MC_OkNNr` | TLC instance of `OkNNr`: an LWPR field's datahouse for `nIn = 1` | — |
| `LwprExplore` | Prediction with exploration values: `lwpr_predict_explore`, `lwpr_aux_predict_conf_one_T` | partly (values abstracted to the thresholds they meet) |
| `MC_LwprExplore` | TLC instance of `LwprExplore`: two fields, two query points, one pattern | — |
| `PlanWalk` | Post-execution plan walk: `learn_query_stat`, `collect_planstat`, `aqo_copy_generic_path_info`, and the planner's `get_path_clauses` | partly (clauses as names; selectivities, relids, row values left out) |
| `MC_PlanWalk` | TLC instance of `PlanWalk`: every executed plan over three relations, a join clause and a correlated SubPlan | — |

### `LwprUpdate`: correspondence with the code

**State.**

| Variable | Code |
|---|---|
| `rf` | `model->rf[0..numRFS-1]` |
| `nPruned` | `model->n_pruned` |
| `modelN` | `model->n_data` |
| `knn[p]` | Rows of the datahouse whose key is `hash(p)` |
| `hist` | The per-pattern `history_data_matrix` |

- A field record keeps four things: its centre, its metric in tenths (`m = 10*M`), `n_data[0]` rounded down (`nData`), and its `trustworthy` flag.
- It also keeps the fill of the error-history ring (`errNum`).
- `capHit` and `prunedAt` are auxiliary (history) variables:
  - `capHit`: the centres whose store was learned into while full.
  - `prunedAt`: the centres at which a field was pruned.

**Geometry.**
- One input dimension: inputs and centres are grid positions `p`, with feature value `p*Spacing/100`.
- Activations are compared exactly with the code's thresholds through the integer `Q = (m*d*Spacing)^2 = 10^6 * dist`. This works because `w = exp(-dist/2) > t` holds exactly when `dist < -2 ln t`.
- Ties at a threshold would need a distance to equal an irrational number, so they cannot occur.
- `Spacing = 11`, so neighbours are 0.11 apart. That is above `object_selection_object_threshold = 0.1`, so `OkNNr_learn` absorbs a sample only into a row at the same point.

**Actions.** Every `lwpr_update(x)` is one step and takes one of three disjuncts:

| Action | When it fires |
|---|---|
| `Generate` | `w_max <= w_gen`. The new field is warm-started from `rf[ind_max]` when `w_max > 0.1*w_gen` and that field is trustworthy. `init_rf` learns `x` into the store at `x`. |
| `Prune` | `w_sec > w_prune`. Of the two most activated fields, the one with the smaller trace of `D` is removed by swap-with-last. Its datahouse is left in place, as in the code. |
| `Adapt` | Neither of the above. |

In all three, every field with `w > 0.001` is first updated by `UpdateField`. The updated field:
1. Raises `trustworthy` if `n_data[0] > 2*nIn`. Otherwise it learns `x` into its store (`LearnedKnn`, `KnnLearn`).
2. Takes a metric step chosen from `MetricSteps(m)`.
3. Increments `nData` and the error ring.

**Metric steps.** `MetricSteps(m)` is the set of levels `l` with `10*l >= 9*m`. This is what `lwpr_aux_update_distance_metric` accepts in the diagonal case:
- A step is applied only if `delta <= 0.1*maxM`. Otherwise alpha is halved and `M` is kept, which is the choice `l = m`.
- `M` may grow by any amount.

The gradient itself is data: it is the nondeterministic choice `g`.

**Regression statistics.** PLS statistics, means, `beta`, targets and the error values are abstracted. No guard of the training step reads them.

**Abstraction limits.**
- `nData` saturates at `2*nIn+1`. Every guard reads it only through `nData < 2*nIn` or `nData >= 2*nIn`, so the saturation is exact for them.
- `nIn = 1`. This means one regression direction, so `check_add_projection` returns at once.

### Refinement

`FieldPopulation` says what the population manager promises:
- A training step adds one field at an unoccupied position, or removes one field while at least two are live, counting it in `n_pruned`.
- Otherwise the step leaves the population alone.

`MC_LwprUpdate` instantiates it with this mapping:

```
live   <- {rf[i].c}
size   <- Len(rf)
pruned <- nPruned
```

It checks `PopulationRefined == Pop!Spec` as a property.

## Runs

All runs use the same instance (`MC_LwprUpdate.cfg`):
- Positions `0..2` with `Spacing = 11`, and `InitM = 50` (`init_M = 5`).
- Metric levels `{41, 45, 50, 200}`. These are the levels a field needs:
  - narrow enough (M = 20) that a neighbour at 0.11 is activated below `w_gen` and a second field is generated;
  - wide enough (M = 4.1) that two fields 0.11 apart are both above `w_prune` and one is pruned.
  - `50 → 45 → 41` are steps the code accepts (each ≥ 90%), and `50 → 200` is an accepted growth.
- `nIn = 1`, so the store capacity is 3. One query pattern, and a history ring of 2, which is smaller than the code's 10; only the first update appends to it here.
- At most `MaxUpdates = 8` calls of `lwpr_update`, enforced by a state constraint. The shortest prune-and-regenerate scenario needs 7: generate A, widen A, generate B, narrow B twice, prune B, generate again at B's centre.

| Run | Expect | What it shows |
|---|---|---|
| `update_core` | pass | See the list below (6,437 states). |
| `update_knn_leak` | violation | **Code bug.** A field pruned at `c` leaves its rows behind. A field generated again at `c` starts with a full store, so its very first `OkNNr_learn` takes the gradient branch, which divides by the zero distance to the identical row (`machine_learning.c:252`). The comment in `add_prune` says the datahouse is to be deleted. |

The `update_core` run checks these properties:
- **`CentresDistinct`:** live centres are distinct, so a datahouse key belongs to one live field.
- **`TrustMatchesCount`:** a field is trustworthy exactly when it has had more than `2*nIn` updates.
- **`CapacityOnlyExceededAfterPrune`:** a KNN learn finds its store full only at a centre where a field was pruned. This shows that the capacity `2*nIn+1` is exactly enough for one field's untrusted life.
- **`PopulationRefined`:** the population refines `FieldPopulation`.

Each passing property has a mutant in `PROJECT.json`: a plausible bug in the mapped code that TLC shows violates it.

**Fairness.** No liveness is claimed. Training happens only when queries run, and nothing in the code guarantees that any input recurs.

## `AqoStorage`: queries planning and learning through the tables

Every query is one transaction of a backend in the session's `aqo.mode`.
The model keeps three kinds of tuple:
- `Q`, the `aqo_queries` row. `aqo_planner` gives every recognised query
  `query_hash = 1` (`preprocessing.c:181`), so all queries share this row.
- `M(f)`, the LWPR model tuple (`aqo_data_lwpr`) of one feature subspace in
  feature space `f`.
- `D(f)`, its KNN datahouse tuple (`aqo_data_house_lwpr`).

`f` is the query's `fspace_hash`. It is 1, or 0 for a query that FORCED mode
runs without a stored row.

| Action | Code |
|---|---|
| `Begin` | A query starts in a mode of `Modes` (`aqo.mode` is settable per session), possibly EXPLAIN-only. |
| `Find` | `find_query`. A stored row gives the flags `learn_aqo`, `use_aqo`, `fspace_hash`. Otherwise the flags come from the mode switch (`NewQueryCtx`). |
| `AddQuery` | `add_query` for a new query in INTELLIGENT or LEARN mode. An insert race re-throws from planning (`Fail`). |
| `QScan`, `QSave` | `update_query2` with the flags read by `find_query`, `total_num + 1` and the history ring extended (`HistAfter`). |
| `Estimate` | The four cardinality hooks (`HookEstimate`): the default estimator without `use_aqo`, LWPR prediction in LEARN mode, otherwise nothing. The parameterized hooks fall off the end of a non-void function in that last case. |
| `PlanLoad`, `PlanScan`, `PlanSave` | `predict_for_relation_lwpr_explore`: `load_fss_rfwr` (`LoadFssRfwr`, the `SnapshotSelf` index scan on `(fspace_hash, fss_hash)`), then `update_fss_rfwr2` saves the query-history columns. |
| `LearnLoad`, `DLoad`, `DScan`, `DSave` | `atomic_fss_learn_step_rfwr`: `load_fss_rfwr`, then `lwpr_update` learns into the datahouse (`load_rf_datahouse`, `update_rf_datahouse`: update, or insert with `UNIQUE_CHECK_YES`). |
| `MScan`, `MSave` | `update_fss_rfwr`: rescan, then write every column from the model loaded before `lwpr_update`. |
| `Commit`, `Fail`, `DeadlockAbort` | PostgreSQL: commit, an ERROR re-thrown by `PG_CATCH`, and the deadlock detector. |

How PostgreSQL behaves in the model:
- Reads (`Visible`) use `SnapshotSelf`: the last committed version, or the reader's own pending one.
- A write (`WriteOutcome`) waits while another transaction has a pending version.
- When the wait ends:
  - `heap_update` returns `HeapTupleUpdated` if the version the rescan found was superseded. `my_simple_heap_update` then returns false and the write is dropped.
  - An insert raises a unique violation if the key now exists.
- Locks are held until commit.

Tuple content is abstracted as follows:
- `M` and `D`: the set of queries whose learn they hold, and `M`'s count of history saves.
- `Q`: its flags, `total_num` and the history count.

A save writes content computed from the earlier load over the version its rescan finds, as the code does.

**Instances.**
- Every cfg uses the backends `p1` and `p2`, each running `MaxTx = 2` queries.
- `MC_AqoStorage.cfg` (`storage_core`) and `MC_AqoStorage_EstimateAlwaysMade.cfg` use FORCED, CONTROLLED and LEARN (`MCModesOther`):
  - LEARN adds queries and predicts;
  - FORCED learns into `fspace_hash = 0`;
  - CONTROLLED plans with a row another session stored, and reaches the hooks' no-estimate branch.
- The other violation cfgs use INTELLIGENT and LEARN (`MCModesAdding`).
- INTELLIGENT differs from LEARN only in not using the model. With all four modes the liveness check takes longer than five minutes, so `storage_core` leaves INTELLIGENT out.
- Two queries per backend are enough to reach:
  - an existing model, so that `update_fss_rfwr2` takes part;
  - racing first inserts;
  - the lock-order cycle.
- `Rest(b)` lets a backend that has run its queries stay idle, so deadlock checking stays on.

**Fairness.** `WF_vars(Run(b))` for every backend, covering every step except `Begin`:
- A started query is always scheduled to its end.
- The deadlock detector runs after `deadlock_timeout`.
- Users need not start queries, so `Begin` has no fairness.

| Run | Expect | What it shows |
|---|---|---|
| `storage_core` | pass | `HistoryOncePerQuery`, `PredictionHasDistribution` and `QueryCompletes` (484,841 states). |
| `storage_lost_learn` | violation | **Code bug.** A committed learn can be erased. Two backends learn the first sample of a fresh subspace, and p1 commits. p2's rescans find p1's tuples and overwrite them with content from its older, empty loads, without `HeapTupleUpdated`. `learn_sample_rfwr` calls this a place that "should be critical section". |
| `storage_unique_error` | violation | **Code bug.** `NoAqoInsertError`: two of AQO's inserts of the same row race, and the loser's unique violation is re-thrown, failing the user's query. TLC's trace is two sessions that plan the first recognised query, so both `add_query` the `aqo_queries` row (`storage.c:144`). The same race happens on a subspace's first datahouse tuple when learning (`storage.c:1523`). |
| `storage_deadlock` | violation | **Code bug.** p1 holds the model tuple from `update_fss_rfwr2` at planning and waits for the datahouse. p2 has updated the datahouse while learning and waits for the model. The deadlock detector cancels a user query. This is reachable after a discarded `update_query2` leaves two queries running concurrently. |
| `storage_no_estimate` | violation | **Code bug.** A query stored by a LEARN session is planned by a CONTROLLED or FORCED session with `use_aqo`. The hooks then neither predict nor call the default estimator. `aqo_get_parameterized_*_size` returns no value (undefined behaviour), and the set hooks leave `rows` unset. |

The passing runs check these properties:
- **`HistoryOncePerQuery`:** per feature space, the committed model has no more history saves than committed queries that used it.
- **`QueryCompletes`:** every started query finishes.
- **`PredictionHasDistribution`:** a backend that loads a model to predict with (`PlanScan`, `PlanSave`) found the `aqo_queries` row in this query. `lwpr_aux_predict_conf_one_T` reads `query_context.query_distribution`, which `aqo_planner` loads only for a stored query (`preprocessing.c:287`). The property holds because a model is committed only with or after `Q`: a query that missed `Q` adds it, and fails on the unique index if `Q` was committed since. The mutant where LEARN mode does not add the query breaks it.

## `OkNNr`: the KNN regressor

The store is a sequence of `[x, t]` rows. Features are one-dimensional
(`matrix_cols = nIn = 1`), so `fs_distance` is `|a - b|`.

Values are integers in units of 1e-5, so that the code's constants are exact:
- the absorption threshold 0.1 is `Threshold = 10000`;
- the `0.001` of `fs_similarity` is `Milli = 100`;
- `learning_rate` is a division by 10, exact for the instance's grid and its at most three nudges.

Weights `1/(0.001 + d)` are kept as exact fractions (`WeightedMean`).

The gradient step at capacity keeps the store's size. Its new values are not
tracked: `exact` becomes false, and properties about values are checked only
while it holds.

| Definition | Code |
|---|---|
| `Place`, `PlaceRows`, `ComputeIdx` | The insertion loop of `OkNNr_compute_weights`, with its strict `<`. |
| `OkNNrPredict` | `OkNNr_predict`: the weighted mean of the `k` selected rows, clamped at 0, or -1 for an empty store. |
| `MinDistanceId`, `HasRoom`, `Nudge`, `OkNNrLearn` | `OkNNr_learn`: the first nearest row, the room test, the learning-rate step, and the three branches. |
| `NewMatrixRows`, `Learn` | `lwpr_aux_update_regression`: load, `OkNNr_learn`, `new_matrix_rows`, save. |
| `Predict` | `OkNNr_predict(rows, nIn, ..., 2)` as the estimator calls it. |

The instance (`MC_OkNNr.cfg`) has capacity `K = 3` (`2*nIn + 1`) and
`KPred = 2`:
- features 0, 0.05, 0.1, 0.2 and 0.3, i.e. samples inside and outside the absorption threshold of a row;
- four points pairwise outside it, one more than the store holds;
- targets 0, 0.01 and 0.03;
- four learns.

| Run | Expect | What it shows |
|---|---|---|
| `oknnr` | pass | The properties below (146,382 states). |

- **`StoreWithinCapacity`:** the store never holds more than `K` rows (spec §8).
- **`PredictMatchesNearestRef`:** the insertion-based selection picks exactly the first `k` rows of a sort by (distance, index). The prediction is their weighted mean, or -1 on an empty store.
- **`PredictFavoursNearer`:** the prediction lies between the targets it uses. Of two rows at different distances with different targets, it is closer to the nearer one's target (spec §8 exact-match scenario).

## `LwprExplore`: prediction with exploration values

`lwpr_aux_predict_conf_one_T` runs every time the planner estimates a relation in LEARN mode.

- **Fields.** Fields are `1..nrf`, in `model->rf` order. Their parameters are fixed for a behaviour and chosen in `Init`, as `load_fss_rfwr` finds them.
- **Activation.** A field's kernel activation at each query point is a level on a ladder that places the code's three thresholds between levels:

  | Level | Meaning |
  |---|---|
  | 0 | below `use_aqo_threshold` (1e-5) |
  | 1 | equal to it |
  | 2 | between it and the cutoff 0.001 |
  | 4 | between the cutoff and 0.999 |
  | 6 | above 0.999 |

- **Other parameters.** A field also carries `trustworthy`, its mean recent error against `avg_error_threshold` (none, below or above), and whether its datahouse row exists.

**`Step` and `Loop`** model the second loop over the fields, in order:
- `w_max` and `idx_max`, with a strict `>`;
- whether `min_error` fell to the threshold;
- the exact cover (`w > 0.999` and error below the threshold). A later covering field overwrites `exact_y`, and `continue` skips the accumulators.
- the fields that enter `yp` and `sum_w2`: all fields above the cutoff except trustworthy fields whose error exceeds the threshold (`w = 0`), each by its method (KNN for an untrustworthy field with a datahouse, else PLS).

**`Outcome`** gives the rest of the call:
- the kind of the result: exact, blend, the `-9999` sentinel, the fallback to `rf[idx_max]`, or 0;
- the `est_uncof` branch;
- the patterns contributing to `est_future`. `prob_rf` comes from the history before this query's push, and the outlier value from the history after it.

**`HistPush`** is the history ring push that `update_fss_rfwr2` saves.

The instance (`MC_LwprExplore.cfg`):
- two fields, so that order and overwrites matter;
- two query points (model values, symmetric) under one pattern, plus queries with no pattern;
- a ring of 2 and three pushes, so that the ring shifts.

Queries with no pattern change no state and are always enabled, so deadlock checking stays on.

| Run | Expect | What it shows |
|---|---|---|
| `lwpr_explore` | pass | The properties below (1,169,573 states). |
| `lwpr_explore_sentinel` | violation | **Spec divergence.** Spec §4.5 falls back to the most activated field unless even that field's activation is below the minimum-use threshold (and its error is poor), so a sentinel needs an activation below it. The code also returns -9999 above the threshold whenever `min_error` is still 9999 (`machine_learning_lwpr.c:605`). TLC's trace: one field, activated at level 2 (between 1e-5 and the cutoff) with no error history, answers with the sentinel. |

- **`HistoryHoldsLastQueries`:** each pattern's ring holds its last `HistCap` query points, oldest first.
- **`FutureFromEarlierQueries`:** a pattern enters the future value of a non-outlier prediction exactly when one of its last `HistCap` earlier queries activated, above the cutoff, a field that is above the cutoff here. The sighting pass reads the ring before this query's push (lines 321–395), so a query never sights itself. The mutant that runs the pass over the pushed ring breaks this on the first query of a pattern.
- **`FallbackOnlyAtUseThreshold`:** the fallback to a single field (PLS or KNN, lines 608–646) is reached only when the largest activation equals `use_aqo_threshold` exactly. Everywhere else the code answers with the sentinel. The mutant that restores the older test kept in the comment at line 606 breaks this.

## `PlanWalk`: what the executed plan teaches

At `ExecutorEnd`, `learn_query_stat` (`postprocessing.c:587`) walks the executed
plan with `collect_planstat`. The main plan comes first, then every SubPlan it
meets, through the `other_plans` queue. Each node that passes the learn test
gives a sample: its clause list and its rows, passed to `learn_sample_rfwr`.
The planner predicted the same node from another list. For a scan this is
`baserestrictinfo` plus `ppi_clauses`. For a join it is `get_path_clauses`
(`path_utils.c:114`), which the join hooks call.

**Abstraction.**
- A plan is a tree of records with these fields:
  - `kind`;
  - `hadPath`;
  - `own`, the `path_clauses` that `aqo_copy_generic_path_info` gave the node;
  - `exec`, which is false when `ntuples = 0` and `nloops = 0`;
  - `kids` and `subs`.
- A clause is a name.
- Selectivities, relids and row counts travel in lists parallel to the clauses, so they are left out.
- `aqo_copy_generic_path_info` decides `own`:
  - a join gets `joinrestrictinfo`;
  - a path over a scan of the same rel (Material, Unique, Gather) gets the scan's clauses;
  - an upper path gets none;
  - a Hash node has no path.
- `CollectPlanstat` is a recursive operator that follows the code's order:
  - SubPlans are queued first;
  - the left subtree continues the caller's lists;
  - the right subtree starts from empty lists, and `list_concat` then puts the right subtree's clauses first;
  - the learn test and `tmp` come last.
- The lists take `tmp` only when `learn_sample_rfwr` learned, which needs `nfeatures > 0`.

**Actions.**
- `Extract`: `ExtractFromQueryContext`, and the EXPLAIN-only clear.
- `WalkStep`: one iteration of the `while` over `other_plans`. The `tmp` lists are shared across iterations, as in the code.
- `EndWalk`: `update_two_best_costs_record` when collecting in LEARN mode, then `RemoveFromQueryContext`.
- `NextQuery`: the same cached plan reaches `ExecutorEnd` again with another context.

**Instance.** `MC_PlanWalk` enumerates every executed plan with these parts:
- relation `a`, with clause `ca` and possibly a correlated SubPlan on `c` (clause `cs`);
- relation `b`, with no clause;
- a join on `j`, in both orders, with the inner scan possibly hashed;
- each scan possibly under a same-rel node, and the top possibly under an upper node;
- any node possibly not run, and then nothing below it has run.

| Run | Expect | What it shows |
|---|---|---|
| `plan_walk` | pass | `TypeOK`, `EveryNodeLearnedOnce` and `SampleCoversSubtree` (32,536 states). |
| `plan_walk_learn_key` | violation | **Code bug.** A Material, Unique or Gather node over a scan has the scan's clauses as its own `path_clauses`. `collect_planstat` prepends them to the child's list (`postprocessing.c:339`), so the node is learned with each clause twice. The planner predicted the node with each clause once. `get_fss_for_object` hashes the sorted list, so the learn goes into a feature subspace that prediction never reads. TLC's trace is a join of scan `b` with Material over scan `a`, learned with `<<"j","ca","ca">>`. |

- **`EveryNodeLearnedOnce`:** when the walk is over, exactly one sample was learned for each node that meets all of these:
  - it ran;
  - it had a path;
  - it passes the shape test;
  - its subtree has a clause.

  No other node was learned. The mutant that ignores `path_clauses` in the learn test breaks this.
- **`SampleCoversSubtree`:** a node's sample holds every clause of its subtree. The lists lose nothing when they pass through Hash nodes, nodes that did not run, and right subtrees. The mutant that drops the `list_concat` breaks this.
- **`LearnKeyIsPredictKey`:** a learned list equals, as a multiset, the list the planner predicted the node from. It is violated, as shown above.

## Divergences recorded without a run

Each of these was seen while modelling. The passing models contain the
behaviour, but no run states the spec's side of it.

- **`total_num` can miss a query** (`storage.c:483`). Two overlapping queries can both read `total_num = n`. The second `update_query2` is then discarded. `QueryTotalCounted` in `AqoStorage` states the count, and TLC finds it violated under `MC_AqoStorage.cfg`. `total_num` is only stored and never read for a decision. It is the same lost-update shape that `storage_lost_learn` shows, so it has no run of its own.
- **SubPlans inherit the main plan's clauses** (`postprocessing.c:613`). The `tmp` lists of `learn_query_stat` are not reset between iterations of the `other_plans` loop. A SubPlan whose nodes have clauses is therefore learned with the clauses left over from the plans walked before it. `PlanWalk` contains this behaviour, but no run states it.
- **The Markov distribution ignores the history** (`storage.c:870`). `load_query_distribution` takes `query_history_hash` but keys its scan of `aqo_markov_table` by `query_context.fspace_hash`, so the predicted next-pattern distribution is the same whatever history the query arrives with. The model carries only whether a distribution was loaded (`PredictionHasDistribution`).
- **A cached plan runs with another query's context** (`postprocessing.c:527`). `aqo_ExecutorStart` stores the global `query_context`, which only `aqo_planner` sets. A cached plan executed without planning therefore learns under the flags and `fspace_hash` of the query this backend planned last. `PlanWalk`'s `NextQuery` lets a re-execution take any context; which query a context belongs to is not modelled.
- **Nested planning overwrites the context** (`preprocessing.c:121`). A function the planner evaluates during planning that runs SQL re-enters `aqo_planner` and replaces the outer query's `query_context`. `AqoStorage` plans one query per backend at a time.
- **Learn and predict order the features differently.** `collect_planstat` puts the right subtree first, while `get_path_clauses` puts outer before inner. `get_fss_for_object` sorts clauses by hash, so this matters only for clauses whose hashes tie.
- **Generation has side effects** (`machine_learning_lwpr.c:790`). The training step that generates a field first updates the existing fields activated above 0.001. Spec §8 says they are left unchanged.
- **The metric step is bounded on one side only** (`machine_learning_lwpr.c:1109`). Only `delta_M_jj > 0.1*maxM` is rejected, so `M` may grow by any amount in one step. Spec §4.3 rejects steps above 10%.
- **A full KNN store can take NaN** (`machine_learning.c:252`). At capacity `OkNNr_learn` divides by the distance of each selected row. A sample equal to a stored row makes `0/0`. In the LWPR a store is full only after the leak shown by `update_knn_leak`.
- **High-error untrustworthy fields are blended** (`machine_learning_lwpr.c:513`). Only trustworthy fields get `w = 0`. Spec §4.5 excludes every field whose error exceeds the threshold.
- **The exact cover of an untrustworthy field uses PLS** (`machine_learning_lwpr.c:503`). `exact_y = yp_n` is taken before the KNN branch. A fresh field has no error history, so it counts as exact and answers with its initial `beta0`.
- **The fallback projects a stale `xc`** (`machine_learning_lwpr.c:625`). The trustworthy fallback passes `xc` as the loop left it: `xn` minus the last field's centre, not `xn` minus `rf[idx_max]`'s mean. `FallbackOnlyAtUseThreshold` shows this needs an activation exactly at 1e-5.

## Not modelled

- **`lwpr_predict`, `lwpr_aux_predict_one_T` and `predict_for_relation(_lwpr)`.** Nothing calls them: the hooks call only `predict_for_relation_lwpr_explore`.
- **`OkNNr_predict2`, `OkNNr_learn2`, `learn_sample` and `atomic_fss_learn_step`.** These are dead code: the calls are commented out in `postprocessing.c`.
- **The values the estimator computes.** This covers the confidence integral, `sigma2`, `prob_rf` and the sign of `yp_n` (alpha is not clamped below 0, line 484). `LwprExplore` carries only the branches they select.
- **Projection growth for `nIn >= 2`** (`check_add_projection`), and why `lwpr_mem_realloc_rf` is unreachable.
- **The other AQO tables** (`aqo_query_texts`, `aqo_query_stat`, `aqo_data`, `aqo_best_two_costs_table`, `aqo_markov_table`). They use the rescan-then-update pattern already modelled in `AqoStorage`.
- **Further `aqo_planner` details.** This covers query hashing and pattern matching, `RecoveryInProgress`, queries that AQO skips altogether (no recognised pattern), and the content of `query_distribution`.
- **The gate and disabled path of `aqo_planner`** (`preprocessing.c:121–150`, `disable_aqo_for_query`). Unsupported commands, `CREATE EXTENSION`, parallel mode, `DISABLED` mode and system relations only turn every flag off and call the standard planner: nothing is read or written in AQO's tables. Modelled as an action it raised `storage_core` from 484,841 to 737,586 states and over three minutes, near the five-minute bound, while adding no interaction between backends.
- **The best-cost record.** `calculate_current_best_estimate_cost` and `update_two_best_costs_record` are declared in `aqo.h` but defined nowhere in the sources. `load_best_two_costs` and `update_best_two_costs` in `storage.c` have no callers. `EndWalk` records only that the call is made.
- **Memory management** (`lwpr_mem_*`, `lwpr_aux_add_rf`'s growth of `numPointers` by 16). It is `palloc` bookkeeping: the field array grows before it is full, so no control path depends on it.
- **The values `PlanWalk` leaves out.** These are selectivities, relids, row counts and the content of the best-two-costs record. `get_fss_for_object` and the clause hashing are in `hash.c`, which is not part of the modelled sources. `update_query_stat_row` is never called, because its call in `learn_query_stat` is commented out.
- **The training-path history append** (`machine_learning_lwpr.c:708–740`). It runs only for a fresh model (`numRFS == 0`), so its shift branch at line 727 cannot be reached. The prediction-path ring, which can fill, is `HistPush` in `LwprExplore`.
- **Out of TLC's reach or not control-relevant:** the floating-point math kernel, palloc bookkeeping, `path_utils.c` selectivity extraction, and GUC registration (whose values are the constants used here).
