----------------------------- MODULE LwprUpdate -----------------------------
(***************************************************************************)
(* The training step of the AQO receptive-field regressor (LWPR):          *)
(* lwpr_update -> lwpr_aux_update_one -> lwpr_aux_update_one_T, followed   *)
(* by lwpr_aux_update_one_add_prune, in machine_learning_lwpr.c.           *)
(*                                                                         *)
(* Geometry is one-dimensional (nIn = 1, diagonal metric): an input and a  *)
(* field centre are grid positions p whose normalised feature value is     *)
(* p * Spacing / 100, and a field's metric M is held in tenths (m).        *)
(* The Gaussian activation w = exp(-0.5 * M^2 * dx^2) is compared with the *)
(* code's thresholds exactly, through the integer Q = (m * |dx| * S)^2:    *)
(* dist = Q / 10^6, and w > t  <=>  dist < -2 ln t.                        *)
(*                                                                         *)
(* Regression statistics, targets and means are data and are left out; a   *)
(* field keeps what decides the control flow: its centre, metric, update   *)
(* count n_data, the trustworthy flag and the length of its error ring.    *)
(* The per-field KNN store (the "datahouse" keyed by hash(c)) is the set   *)
(* of grid points it holds.                                                *)
(***************************************************************************)
EXTENDS Integers, Sequences, FiniteSets, SequencesExt

CONSTANTS
    Points,          \* grid positions an input can take
    Spacing,         \* distance between neighbouring positions, in 1/100
    MetricLevels,    \* metric values (tenths) a field may take
    InitM,           \* model->init_M, in tenths (lwpr_init_model: 5)
    NIn,             \* model->nIn
    NumPatterns,     \* num_query_pattern
    HistCap,         \* num_history_data_compute_probability_rf
    NumPredErrorHistory   \* num_pred_error_history

ASSUME /\ Points \subseteq Nat /\ Spacing \in Nat \ {0}
       /\ MetricLevels \subseteq Nat \ {0} /\ InitM \in MetricLevels
       /\ NIn = 1 /\ HistCap >= 1 /\ NumPredErrorHistory >= 1

VARIABLES
    rf,         \* model->rf[0..numRFS-1], as a sequence of field records
    nPruned,    \* model->n_pruned
    modelN,     \* model->n_data
    knn,        \* datahouse rows per field centre (rf_hash = hash(c))
    hist,       \* history_data_matrix / num_history_data per query pattern
    capHit,     \* auxiliary: centres whose store was learned into while full
    prunedAt    \* auxiliary: centres at which a field has been pruned

vars == <<rf, nPruned, modelN, knn, hist, capHit, prunedAt>>

(* Thresholds on Q = 10^6 * dist, from -2 ln t for the code's constants.   *)
ActiveQ  == 13815510   \* w > 0.001         <=> Q <= ActiveQ
GenQ     == 4605170    \* w > w_gen = 0.1   <=> Q <= GenQ
WarmQ    == 9210340    \* w > 0.1 * w_gen   <=> Q <= WarmQ
PruneQ   == 210721     \* w > w_prune = 0.9 <=> Q <= PruneQ
NoW      == 2^30       \* the initial w_max = w_sec = 0: farther than any Q

(* Capacity of a field's KNN store: OkNNr_learn(..., 2.0*nIn+1).           *)
KnnCap == 2 * NIn + 1
(* n_data beyond 2*nIn+1 is indistinguishable to every guard below.        *)
NDataCap == 2 * NIn + 1

Field == [c : Points, m : MetricLevels, nData : 0..NDataCap,
          trust : BOOLEAN, errNum : 0..NumPredErrorHistory]

Q(m, x, c) == LET d == IF x >= c THEN x - c ELSE c - x
              IN (m * d * Spacing) ^ 2

Centres(s) == {s[i].c : i \in DOMAIN s}

(* The scan of lwpr_aux_update_one_T keeping the two largest activations:  *)
(* t = <<qmax, imax, qsec, isec>>; larger w is smaller Q, ties keep order. *)
ScanTop(t, i, q) ==
    IF q < t[3]
    THEN IF q < t[1] THEN <<q, i, t[1], t[2]>> ELSE <<t[1], t[2], q, i>>
    ELSE t

TopTwo(qs) == FoldLeftDomain(LAMBDA t, i : ScanTop(t, i, qs[i]),
                             <<NoW, 0, NoW, 0>>, qs)

(* The M step of lwpr_aux_update_distance_metric, diagonal case: a step    *)
(* delta is applied only if delta <= 0.1 * maxM, else alpha is halved and  *)
(* M stays. With nIn = 1, maxM = M, so M' >= 0.9 * M and M may grow freely.*)
MetricSteps(m) == {l \in MetricLevels : 10 * l >= 9 * m}

(* OkNNr_learn on a store of distinct grid points, called with capacity    *)
(* KnnCap: below capacity a point at distance < 0.1 (only the same point,  *)
(* as Spacing > 10) is nudged in place, any other point is appended; at    *)
(* capacity the k nearest rows take a gradient step and no row is added.   *)
KnnLearn(rows, x) ==
    IF Cardinality(rows) < KnnCap THEN rows \cup {x} ELSE rows

HistPush(h, x) == IF Len(h) < HistCap THEN Append(h, x) ELSE Append(Tail(h), x)

-----------------------------------------------------------------------------
Init ==
    /\ rf = << >>
    /\ nPruned = 0
    /\ modelN = 0
    /\ knn = [p \in Points |-> {}]
    /\ hist = [k \in 1..NumPatterns |-> << >>]
    /\ capHit = {}
    /\ prunedAt = {}

(* The activations of all fields for input x, and the fields with w > 0.001.*)
Acts(x) == [i \in 1..Len(rf) |-> Q(rf[i].m, x, rf[i].c)]
Updated(x) == {i \in 1..Len(rf) : Acts(x)[i] <= ActiveQ}
(* Variant: the test reads n_data[0] >= 2*nIn, one learn too many.        *)
LearnersLate(x) == {i \in Updated(x) : rf[i].nData <= 2 * NIn}

(* lwpr_aux_update_regression: a field with n_data[0] > 2*nIn becomes      *)
(* trustworthy, any other learns the input into its datahouse.             *)
Learners(x) == {i \in Updated(x) : rf[i].nData < 2 * NIn}

(* Variants: the error ring appends while num <= num_pred_error_history;  *)
(* n_data is incremented before update_regression tests it.               *)
UpdateFieldRingOverrun(f, m2) ==
    [f EXCEPT !.m = m2,
              !.trust = @ \/ f.nData >= 2 * NIn,
              !.nData = IF @ < NDataCap THEN @ + 1 ELSE @,
              !.errNum = IF @ <= NumPredErrorHistory THEN @ + 1 ELSE @]

UpdateFieldEarlyCount(f, m2) ==
    [f EXCEPT !.m = m2,
              !.trust = @ \/ f.nData + 1 >= 2 * NIn,
              !.nData = IF @ < NDataCap THEN @ + 1 ELSE @,
              !.errNum = IF @ < NumPredErrorHistory THEN @ + 1 ELSE @]

(* One field's update for w > 0.001 with the metric step to m2.            *)
UpdateField(f, m2) ==
    [f EXCEPT !.m = m2,
              !.trust = @ \/ f.nData >= 2 * NIn,
              !.nData = IF @ < NDataCap THEN @ + 1 ELSE @,
              !.errNum = IF @ < NumPredErrorHistory THEN @ + 1 ELSE @]

MetricChoices(x) ==
    {g \in [Updated(x) -> MetricLevels] :
        \A i \in Updated(x) : g[i] \in MetricSteps(rf[i].m)}

UpdatedRF(x, g) ==
    [i \in 1..Len(rf) |-> IF i \in Updated(x) THEN UpdateField(rf[i], g[i])
                                              ELSE rf[i]]

LearnedKnn(x) ==
    [p \in Points |-> IF \E i \in Learners(x) : rf[i].c = p
                      THEN KnnLearn(knn[p], x) ELSE knn[p]]

FullStores(x) == {rf[i].c : i \in {j \in Learners(x) :
                                     Cardinality(knn[rf[j].c]) >= KnnCap}}

(* lwpr_aux_update_one_T with numRFS = 0: only the query history of the   *)
(* current pattern k is extended.                                          *)
NewHist(x, k) == IF rf = << >> THEN [hist EXCEPT ![k] = HistPush(@, x)]
                               ELSE hist

(* Variant: the w_max <= w_gen test dropped.                              *)
GenerationAlways(top) == TRUE

(* lwpr_aux_update_one_add_prune: a new field is needed when w_max <= w_gen.*)
GenerationNeeded(top) == top[1] > GenQ

(* Variant: a warm start copies the template's centre along with its      *)
(* metric.                                                                 *)
NewFieldCopyCentre(x, rf2, top) ==
    LET warm == top[1] <= WarmQ /\ rf2[top[2]].trust
    IN [c |-> IF warm THEN rf2[top[2]].c ELSE x,
        m |-> IF warm THEN rf2[top[2]].m ELSE InitM,
        nData |-> 0, trust |-> FALSE, errNum |-> 0]

(* lwpr_aux_init_rf: warm start from rf[ind_max] when w_max > 0.1 * w_gen  *)
(* and that field (as just updated) is trustworthy, else the init template.*)
NewField(x, rf2, top) ==
    [c |-> x,
     m |-> IF top[1] <= WarmQ /\ rf2[top[2]].trust THEN rf2[top[2]].m
                                                   ELSE InitM,
     nData |-> 0, trust |-> FALSE, errNum |-> 0]

(* The pruned field is the one of the two most activated whose metric      *)
(* trace is smaller (tr_max < tr_sec ? ind_max : ind_sec), with D = M^2.   *)
PruneIndex(rf2, top) == IF rf2[top[2]].m < rf2[top[4]].m THEN top[2] ELSE top[4]

(* lwpr_mem_free_rf and "fill the gap with last RF", then numRFS--.        *)
RemoveSwap(s, i) == [j \in 1..Len(s) - 1 |-> IF j = i THEN s[Len(s)] ELSE s[j]]

(* lwpr_update on input x of a query of pattern k: every field with        *)
(* w > 0.001 is updated (its metric moving to g[i]), then add_prune.       *)
(* A new field is generated and its init learn goes to the store at x.     *)
Generate(x, k, g) ==
    LET rf2 == UpdatedRF(x, g)
        top == TopTwo(Acts(x))
        knn2 == LearnedKnn(x)
    IN /\ GenerationNeeded(top)
       /\ rf' = Append(rf2, NewField(x, rf2, top))
       /\ knn' = [knn2 EXCEPT ![x] = KnnLearn(@, x)]
       /\ capHit' = capHit \cup FullStores(x)
                      \cup (IF Cardinality(knn2[x]) >= KnnCap THEN {x} ELSE {})
       /\ hist' = NewHist(x, k)
       /\ modelN' = modelN + 1
       /\ UNCHANGED <<nPruned, prunedAt>>

(* The second most activated field has w_sec > w_prune: one field goes.    *)
(* Its datahouse rows are left in place (the deletion is a TODO).          *)
Prune(x, k, g) ==
    LET rf2 == UpdatedRF(x, g)
        top == TopTwo(Acts(x))
        p == PruneIndex(rf2, top)
    IN /\ ~GenerationNeeded(top)
       /\ top[3] <= PruneQ
       /\ rf' = RemoveSwap(rf2, p)
       /\ nPruned' = nPruned + 1
       /\ prunedAt' = prunedAt \cup {rf2[p].c}
       /\ knn' = LearnedKnn(x)
       /\ capHit' = capHit \cup FullStores(x)
       /\ modelN' = modelN + 1
       /\ UNCHANGED hist

(* Neither generation nor pruning: only the activated fields change.       *)
Adapt(x, k, g) ==
    /\ ~GenerationNeeded(TopTwo(Acts(x)))
    /\ TopTwo(Acts(x))[3] > PruneQ
    /\ rf' = UpdatedRF(x, g)
    /\ knn' = LearnedKnn(x)
    /\ capHit' = capHit \cup FullStores(x)
    /\ modelN' = modelN + 1
    /\ UNCHANGED <<nPruned, prunedAt, hist>>

Next ==
    \/ \E x \in Points, k \in 1..NumPatterns :
          \E g \in MetricChoices(x) : Generate(x, k, g)
    \/ \E x \in Points, k \in 1..NumPatterns :
          \E g \in MetricChoices(x) : Prune(x, k, g)
    \/ \E x \in Points, k \in 1..NumPatterns :
          \E g \in MetricChoices(x) : Adapt(x, k, g)

Spec == Init /\ [][Next]_vars

-----------------------------------------------------------------------------
TypeOK ==
    /\ rf \in Seq(Field)
    /\ nPruned \in Nat /\ modelN \in Nat
    /\ knn \in [Points -> SUBSET Points]
    /\ hist \in [1..NumPatterns -> Seq(Points)]
    /\ capHit \subseteq Points /\ prunedAt \subseteq Points

(* Live receptive fields have pairwise distinct centres: generation only   *)
(* happens where no field is active above w_gen, and the swap-with-last    *)
(* removal in add_prune neither loses nor duplicates a field. The datahouse*)
(* key hash(c) of a live field therefore belongs to that field alone.      *)
CentresDistinct ==
    \A i, j \in DOMAIN rf : i # j => rf[i].c # rf[j].c

(* A field is trustworthy exactly when it has had more than 2*nIn updates: *)
(* update_regression tests n_data[0] before update_one_T increments it, so *)
(* the flag is raised on update 2*nIn+1, and the field has learned exactly *)
(* KnnCap = 2*nIn+1 samples into its KNN store (init plus 2*nIn updates).  *)
TrustMatchesCount ==
    \A i \in DOMAIN rf : rf[i].trust <=> rf[i].nData > 2 * NIn

(* OkNNr_learn is called with capacity 2*nIn+1, sized for the learns of a  *)
(* single field's untrusted life. A learn into a full store (the gradient  *)
(* branch, which divides by a zero distance for a repeated point) happens  *)
(* only at a centre where a field was pruned and its rows left behind.     *)
CapacityOnlyExceededAfterPrune == capHit \subseteq prunedAt

(* Violated: no learn ever finds its store full. The rows of a pruned field*)
(* are not deleted (comment at the end of add_prune), so a field generated *)
(* again at that centre inherits them and its learns overflow the store.   *)
KnnLearnBelowCapacity == capHit = {}
=============================================================================
