-------------------------------- MODULE OkNNr --------------------------------
(***************************************************************************)
(* The online KNN regressor of machine_learning.c: a store of at most K    *)
(* rows (feature vector, target), OkNNr_predict (distance-weighted mean    *)
(* of the k nearest rows) and OkNNr_learn (absorb the sample into the      *)
(* nearest row, append it, or, at capacity, take a gradient step), with    *)
(* the row count the caller then saves (new_matrix_rows in                 *)
(* lwpr_aux_update_regression and atomic_fss_learn_step).                  *)
(*                                                                         *)
(* Features are one-dimensional (matrix_cols = 1, so fs_distance is |a-b|) *)
(* and every value is an integer in units of 10^-5, so that the code's     *)
(* constants are exact: object_selection_object_threshold 0.1 is 10000,    *)
(* the 0.001 of fs_similarity is 100, and learning_rate 0.1 is a division  *)
(* by 10, exact for the grid and the number of learns the instance allows. *)
(* Weights 1/(0.001 + d) and means are kept as exact fractions. The       *)
(* gradient step's new values are not tracked: after it the store is only  *)
(* known to keep its size.                                                 *)
(***************************************************************************)
EXTENDS Integers, Sequences, FiniteSetsExt, SequencesExt

CONSTANTS
    Xs,          \* feature values a sample or a query can take
    Ts,          \* target values a sample can take
    K,           \* capacity: aqo_K, or 2*nIn+1 for an LWPR field's datahouse
    KPred,       \* k of OkNNr_predict (2 in machine_learning_lwpr.c)
    Threshold,   \* object_selection_object_threshold
    Milli,       \* the 0.001 of fs_similarity
    MaxLearns    \* learns a behaviour makes

ASSUME /\ Xs \subseteq Int /\ Ts \subseteq Nat /\ K \in Nat \ {0}
       /\ KPred \in 1..K /\ Threshold \in Nat /\ Milli \in Nat \ {0}
       /\ MaxLearns \in Nat

NoIdx == -1

VARIABLES
    rows,     \* the stored rows, row i (0-based in the code) at rows[i+1]
    exact,    \* FALSE once a gradient step changed values not tracked
    learns,   \* learns made so far
    pred      \* the last prediction: query point and result, or none


NoPred == [x |-> 0, num |-> 0, den |-> 0]

Abs(v) == IF v < 0 THEN -v ELSE v

(* fs_distance for one column: sqrt((a-b)^2 / 1).                          *)
FsDistance(a, b) == Abs(a - b)

Distances(s, x) ==
    [i \in 0..Len(s) - 1 |-> FsDistance(s[i+1].x, x)]

(* Shift row i into idx at position j, dropping the last entry.            *)
InsertIdx(idx, j, i, k) ==
    [p \in 0..k-1 |-> IF p < j THEN idx[p] ELSE IF p = j THEN i ELSE idx[p-1]]

(* Placing row i with "<=": an equally distant later row goes first.       *)
RECURSIVE PlaceTieLate(_, _, _, _, _)
PlaceTieLate(idx, i, d, j, k) ==
    IF j = k THEN idx
    ELSE IF idx[j] = NoIdx \/ d[i] <= d[idx[j]] THEN InsertIdx(idx, j, i, k)
    ELSE PlaceTieLate(idx, i, d, j + 1, k)

(* The inner loop of OkNNr_compute_weights: row i goes to the first slot   *)
(* that is empty or holds a farther row, shifting the rest down.           *)
RECURSIVE Place(_, _, _, _, _)
Place(idx, i, d, j, k) ==
    IF j = k THEN idx
    ELSE IF idx[j] = NoIdx \/ d[i] < d[idx[j]] THEN InsertIdx(idx, j, i, k)
    ELSE Place(idx, i, d, j + 1, k)

RECURSIVE PlaceRows(_, _, _, _, _)
PlaceRows(idx, d, i, n, k) ==
    IF i = n THEN idx ELSE PlaceRows(Place(idx, i, d, 0, k), d, i + 1, n, k)

(* OkNNr_compute_weights: idx, the k nearest rows (NoIdx where fewer).     *)
ComputeIdx(d, n, k) == PlaceRows([p \in 0..k-1 |-> NoIdx], d, 0, n, k)

(* Weights (0.001 + d) in place of their inverse.                         *)
WeightedMeanByDistance(s, d, R) ==
    LET c == [i \in R |-> Milli + d[i]]
    IN [num |-> MapThenSumSet(LAMBDA i : s[i+1].t * c[i], R),
        den |-> MapThenSumSet(LAMBDA i : c[i], R)]

(* The weighted mean of the targets of rows R with weights                 *)
(* 1/(Milli + d): sum t/(Milli+d) over sum 1/(Milli+d), as a fraction      *)
(* whose terms are multiplied by the product of the (Milli + d).          *)
WeightedMean(s, d, R) ==
    LET c == [i \in R |-> Milli + d[i]]
        prod == FoldFunctionOnSet(LAMBDA a, b : a * b, 1, c, R)
    IN [num |-> MapThenSumSet(LAMBDA i : s[i+1].t * (prod \div c[i]), R),
        den |-> MapThenSumSet(LAMBDA i : prod \div c[i], R)]

(* OkNNr_predict: the weighted mean of the k nearest rows' targets,        *)
(* clamped at 0; -1 when there is no row.                                  *)
OkNNrPredict(s, x, k) ==
    LET d == Distances(s, x)
        idx == ComputeIdx(d, Len(s), k)
        m == WeightedMean(s, d, {idx[p] : p \in {q \in 0..k-1 : idx[q] # NoIdx}})
    IN CASE idx[0] = NoIdx -> [x |-> x, num |-> -1, den |-> 1]
         [] m.num < 0 -> [x |-> x, num |-> 0, den |-> 1]
         [] OTHER -> [x |-> x, num |-> m.num, den |-> m.den]

(* The first row at the smallest distance (the scan of OkNNr_learn keeps   *)
(* min_distance_id on ties).                                               *)
RECURSIVE MinFrom(_, _, _, _)
MinFrom(d, i, n, m) ==
    IF i = n THEN m ELSE MinFrom(d, i + 1, n, IF d[i] < d[m] THEN i ELSE m)

MinDistanceId(d, n) == MinFrom(d, 0, n, 0)

(* The branch test of OkNNr_learn: the store has room for another row.     *)
HasRoomOffByOne(n, k) == n <= k

HasRoom(n, k) == n < k

(* The step taken away from the target.                                    *)
NudgeAway(v, target) == v - (target - v) \div 10

(* One learning_rate step of v toward target.                              *)
Nudge(v, target) == v + (target - v) \div 10

(* OkNNr_learn on store s: the store it leaves, the changed lines lst, and *)
(* whether it took the gradient step.                                      *)
OkNNrLearn(s, nx, nt) ==
    LET n == Len(s)
        d == Distances(s, nx)
        m == MinDistanceId(d, n)
        idx == ComputeIdx(d, n, K)
        sel == {idx[p] : p \in {q \in 0..K-1 : idx[q] # NoIdx}}
    IN IF HasRoom(n, K)
       THEN IF n # 0 /\ d[m] < Threshold
            THEN [s |-> [s EXCEPT ![m+1] = [x |-> Nudge(@.x, nx), t |-> Nudge(@.t, nt)]],
                  lst |-> <<m>>, grad |-> FALSE]
            ELSE [s |-> [i \in 1..n+1 |-> IF i <= n THEN s[i] ELSE [x |-> nx, t |-> nt]],
                  lst |-> <<n>>, grad |-> FALSE]
       ELSE [s |-> s,
             lst |-> [p \in 1..Cardinality(sel) |-> idx[p-1]],
             grad |-> TRUE]

(* new_matrix_rows: matrix_rows raised past every changed line.            *)
NewMatrixRows(n, lst) == FoldLeft(LAMBDA acc, l : IF l >= acc THEN l + 1 ELSE acc, n, lst)

vars == <<rows, exact, learns, pred>>

Init ==
    /\ rows = <<>>
    /\ exact = TRUE
    /\ learns = 0
    /\ pred = NoPred

(* A learn (lwpr_aux_update_regression for an untrustworthy field): load   *)
(* the store, OkNNr_learn, save new_matrix_rows rows. A later prediction   *)
(* is of the store as it now is.                                           *)
Learn(nx, nt) ==
    /\ learns < MaxLearns
    /\ LET r == OkNNrLearn(rows, nx, nt)
           cnt == NewMatrixRows(Len(rows), r.lst)
       IN /\ rows' = [i \in 1..cnt |-> r.s[i]]
          /\ exact' = (exact /\ ~r.grad)
    /\ learns' = learns + 1
    /\ pred' = NoPred

(* A prediction of the store at query point x.                             *)
Predict(x) ==
    /\ pred' = OkNNrPredict(rows, x, KPred)
    /\ UNCHANGED <<rows, exact, learns>>

Next ==
    \/ \E x \in Xs, t \in Ts : Learn(x, t)
    \/ \E x \in Xs : Predict(x)

Spec == Init /\ [][Next]_vars

-----------------------------------------------------------------------------

TypeOK ==
    /\ rows \in Seq([x : Int, t : Nat])
    /\ exact \in BOOLEAN
    /\ learns \in 0..MaxLearns
    /\ pred \in [x : Int, num : Int, den : Int]

(* The k nearest rows by a sort: rows ordered by distance, the earlier row *)
(* first among equals, and the first k taken.                              *)
NearestRef(s, x, k) ==
    LET d == Distances(s, x)
        srt == SetToSortSeq(0..Len(s) - 1,
                 LAMBDA a, b : d[a] < d[b] \/ (d[a] = d[b] /\ a < b))
    IN SubSeq(srt, 1, IF k < Len(s) THEN k ELSE Len(s))

(* OkNNr_predict answers with the distance-weighted mean of exactly the    *)
(* KPred nearest rows (the earlier row first among equally distant ones),  *)
(* or -1 on an empty store: the insertion of OkNNr_compute_weights selects *)
(* what a sort would. Checked while the store's values are exact.          *)
PredictMatchesNearestRef ==
    (exact /\ pred # NoPred) =>
        LET sel == NearestRef(rows, pred.x, KPred)
            m == WeightedMean(rows, Distances(rows, pred.x), ToSet(sel))
        IN IF sel = <<>> THEN pred.num = -1
           ELSE pred.num = m.num /\ pred.den = m.den

(* The prediction lies between the targets of the rows it uses, and of two *)
(* rows at different distances with different targets it is closer to the *)
(* nearer one's target (spec: "nearer neighbor weighted higher").           *)
PredictFavoursNearer ==
    (exact /\ pred # NoPred /\ Len(rows) >= 2) =>
        LET sel == NearestRef(rows, pred.x, KPred)
            d == Distances(rows, pred.x)
            T == {rows[i+1].t : i \in ToSet(sel)}
        IN /\ Min(T) * pred.den <= pred.num /\ pred.num <= Max(T) * pred.den
           /\ \A a, b \in ToSet(sel) :
                (d[a] < d[b] /\ rows[a+1].t # rows[b+1].t) =>
                    Abs(pred.num - rows[a+1].t * pred.den) < Abs(pred.num - rows[b+1].t * pred.den)

(* A store never holds more than K rows, whatever sequence of learns it    *)
(* sees (spec: OkNNr capacity invariant).                                  *)
StoreWithinCapacity == Len(rows) <= K
=============================================================================
