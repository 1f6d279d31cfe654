----------------------------- MODULE LwprExplore -----------------------------
(***************************************************************************)
(* Prediction with exploration values, lwpr_aux_predict_conf_one_T of      *)
(* machine_learning_lwpr.c, as reached from the cardinality hooks through  *)
(* predict_for_relation_lwpr_explore and lwpr_predict_explore.            *)
(*                                                                         *)
(* The receptive fields are 1..nrf, in the order of model->rf. A field's   *)
(* activation at a point is a level of WLevels, a ladder of kernel values *)
(* on which the code's thresholds are named levels: UseW is              *)
(* use_aqo_threshold (1e-5), CutoffW the cutoff (0.001) and ExactW 0.999. *)
(* Levels are compared as the doubles are, equal levels being equal       *)
(* activations. A field's other inputs to the prediction are abstracted   *)
(* to what the branches test: trustworthy, its mean recent error against  *)
(* avg_error_threshold ("none" when pred_error_num = 0, "low" below,      *)
(* "high" above), and whether its KNN datahouse row exists. A prediction *)
(* is abstracted to its kind and the (field, method) pairs it blends;     *)
(* the exploration value to the patterns that contribute to est_future.  *)
(* The state the call changes and update_fss_rfwr2 saves is the per-      *)
(* pattern ring of recent query points (history_data_matrix).             *)
(***************************************************************************)
EXTENDS Integers, Sequences, FiniteSets, SequencesExt

CONSTANTS
    NumRFS,        \* fields a model may hold
    Xs,            \* query points (normalised feature vectors)
    Patterns,      \* query patterns 1..num_query_pattern; 0 is no pattern
    HistCap,       \* num_history_data_compute_probability_rf
    MaxPredicts,   \* predictions a behaviour makes
    WLevels, UseW, CutoffW, ExactW

ASSUME /\ NumRFS \in Nat /\ HistCap \in Nat \ {0} /\ MaxPredicts \in Nat
       /\ 0 \notin Patterns /\ Patterns \subseteq Nat
       /\ WLevels \subseteq Nat /\ {UseW, CutoffW, ExactW} \subseteq Nat
       /\ 0 < UseW /\ UseW < CutoffW /\ CutoffW < ExactW

Errs == {"none", "low", "high"}
Methods == {"pls", "knn"}
Kinds == {"none", "exact", "blend", "sentinel", "fallback", "zero"}

VARIABLES
    nrf,        \* model->numRFS
    act,        \* act[f][x]: the kernel activation of field f at point x
    trust,      \* RF->trustworthy
    err,        \* RF->pred_error_history mean, against avg_error_threshold
    knn,        \* load_rf_datahouse finds the field's KNN rows
    hist,       \* history_data_matrix / num_history_data, per pattern
    seen,       \* every point predicted under each pattern, oldest first
    out,        \* the last prediction
    predicts

vars == <<nrf, act, trust, err, knn, hist, seen, out, predicts>>

Fields == 1..NumRFS
NoOut == [kind |-> "none", from |-> {}, uncof |-> "none", future |-> "none",
          fpats |-> {}, x |-> CHOOSE x \in Xs : TRUE, pat |-> 0]

(* The push of the current point onto a pattern's ring: append while      *)
(* fewer than HistCap, else shift every point down one and put the new    *)
(* one last.                                                              *)
HistPushPastCap(h, x) ==
    IF Len(h) <= HistCap THEN Append(h, x) ELSE Append(Tail(h), x)

HistPushOverwrite(h, x) ==
    IF Len(h) < HistCap THEN Append(h, x) ELSE [h EXCEPT ![HistCap] = x]

HistPush(h, x) ==
    IF Len(h) < HistCap THEN Append(h, x) ELSE Append(Tail(h), x)

(* A field is taken as exactly covering the point.                         *)
ExactFor(f, w) == w > ExactW /\ err[f] \in {"none", "low"}

(* The method of a non-exact field above the cutoff: the KNN datahouse of *)
(* an untrustworthy field when its row exists, else the PLS value yp_n.   *)
Method(f) == IF ~trust[f] /\ knn[f] THEN "knn" ELSE "pls"

(* A non-exact field above the cutoff enters yp and sum_w2: all but the    *)
(* trustworthy ones whose mean error exceeds avg_error_threshold (w = 0). *)
Counts(f) == ~(trust[f] /\ err[f] = "high")

(* One iteration of the prediction loop over the fields: w_max and        *)
(* idx_max (strict >), min_error over fields with an error history (only *)
(* whether it is at most the threshold matters), the exact flag and       *)
(* exact_y (a later exact field overwrites it; continue skips the rest),  *)
(* and the fields entering yp/sum_w2.                                      *)
Step(a, f, x) ==
    LET w == act[f][x]
        above == w > CutoffW
    IN [wmax |-> IF w > a.wmax THEN w ELSE a.wmax,
        imax |-> IF w > a.wmax THEN f ELSE a.imax,
        minLow |-> a.minLow \/ (above /\ err[f] = "low"),
        exact |-> a.exact \/ (above /\ ExactFor(f, w)),
        exactF |-> IF above /\ ExactFor(f, w) THEN f ELSE a.exactF,
        counted |-> IF above /\ ~ExactFor(f, w) /\ Counts(f)
                    THEN a.counted \cup {<<f, Method(f)>>} ELSE a.counted]

RECURSIVE Loop(_, _, _)
Loop(a, f, x) == IF f > nrf THEN a ELSE Loop(Step(a, f, x), f + 1, x)

LoopInit == [wmax |-> 0, imax |-> 1, minLow |-> FALSE, exact |-> FALSE,
             exactF |-> 0, counted |-> {}]

(* The earlier condition, kept in a comment: -9999 only when no field is *)
(* above use_aqo_threshold and none counted.                              *)
SentinelWeakOnly(a) == a.wmax < UseW /\ a.counted = {}

(* The code's return of -9999 (use the default estimator): no field above *)
(* use_aqo_threshold and none counted, or one above it and min_error past *)
(* avg_error_threshold (including min_error left at 9999).               *)
Sentinel(a) == (a.wmax < UseW /\ a.counted = {}) \/ (a.wmax > UseW /\ ~a.minLow)

(* The sighting pass run over the history after this query's push.      *)
FuturePatsAfterPush(a, x, h2) ==
    IF a.counted = {} /\ ~a.exact
    THEN {p \in Patterns : Len(h2[p]) > 0}
    ELSE {p \in Patterns : \E f \in 1..nrf, i \in 1..Len(h2[p]) :
                              act[f][x] > CutoffW /\ act[f][h2[p][i]] > CutoffW}

(* est_future's patterns. prob_rf is computed from the history as it was *)
(* before this query's push; a field contributes to future_value_pattern *)
(* when it is above the cutoff here and an earlier point of the pattern  *)
(* activated it above the cutoff. An outlier query (nothing counted, not *)
(* exact) instead adds outer_future_value for every pattern with history,*)
(* the history after the push.                                            *)
FuturePats(a, x, h2) ==
    IF a.counted = {} /\ ~a.exact
    THEN {p \in Patterns : Len(h2[p]) > 0}
    ELSE {p \in Patterns : \E f \in 1..nrf, i \in 1..Len(hist[p]) :
                              act[f][x] > CutoffW /\ act[f][hist[p][i]] > CutoffW}

(* The result of the call for a query of pattern pat at point x.           *)
Outcome(a, x, pat, h2) ==
    [kind |-> CASE a.exact -> "exact"
                [] a.counted # {} -> "blend"
                [] Sentinel(a) -> "sentinel"
                [] trust[a.imax] \/ knn[a.imax] -> "fallback"
                [] OTHER -> "zero",
     from |-> CASE a.exact -> {<<a.exactF, "pls">>}
                [] a.counted # {} -> a.counted
                [] Sentinel(a) -> {}
                [] trust[a.imax] -> {<<a.imax, "pls">>}
                [] knn[a.imax] -> {<<a.imax, "knn">>}
                [] OTHER -> {},
     uncof |-> CASE a.exact -> "zero" [] a.counted # {} -> "computed" [] OTHER -> "one",
     future |-> IF a.counted = {} /\ ~a.exact THEN "outlier" ELSE "patterns",
     fpats |-> FuturePats(a, x, h2),
     x |-> x,
     pat |-> pat]

Init ==
    /\ nrf \in 0..NumRFS
    /\ act \in [Fields -> [Xs -> WLevels]]
    /\ trust \in [Fields -> BOOLEAN]
    /\ err \in [Fields -> Errs]
    /\ knn \in [Fields -> BOOLEAN]
    \* a trustworthy field's datahouse is never read, and no field past nrf
    /\ \A f \in Fields : trust[f] => ~knn[f]
    /\ \A f \in Fields : f > nrf =>
          /\ act[f] = [x \in Xs |-> 0] /\ ~trust[f] /\ err[f] = "none" /\ ~knn[f]
    /\ hist = [p \in Patterns |-> <<>>]
    /\ seen = [p \in Patterns |-> <<>>]
    /\ out = NoOut
    /\ predicts = 0

(* lwpr_predict_explore for a query of pattern pat (0: current_query_hash *)
(* is 0, nothing is pushed) at point x: the call's two passes over the    *)
(* fields, the history push between them, and the result; the history is *)
(* then saved by update_fss_rfwr2. Pushes are bounded by MaxPredicts.     *)
PredictExplore(pat, x) ==
    /\ pat # 0 => predicts < MaxPredicts
    /\ LET a == Loop(LoopInit, 1, x)
           h2 == IF pat = 0 THEN hist ELSE [hist EXCEPT ![pat] = HistPush(@, x)]
       IN /\ out' = Outcome(a, x, pat, h2)
          /\ hist' = h2
    /\ seen' = IF pat = 0 THEN seen ELSE [seen EXCEPT ![pat] = Append(@, x)]
    /\ predicts' = IF pat = 0 THEN predicts ELSE predicts + 1
    /\ UNCHANGED <<nrf, act, trust, err, knn>>

Next == \E pat \in Patterns \cup {0}, x \in Xs : PredictExplore(pat, x)

Spec == Init /\ [][Next]_vars

-----------------------------------------------------------------------------

TypeOK ==
    /\ nrf \in 0..NumRFS
    /\ hist \in [Patterns -> Seq(Xs)]
    /\ \A p \in Patterns : Len(hist[p]) <= HistCap
    /\ out.kind \in Kinds /\ out.from \subseteq (Fields \X Methods)
    /\ out.uncof \in {"none", "zero", "computed", "one"}
    /\ predicts \in 0..MaxPredicts

(* The fields above the cutoff at x.                                       *)
AboveAt(x) == {f \in 1..nrf : act[f][x] > CutoffW}

(* The ring of each pattern holds its last HistCap query points, oldest   *)
(* first, after any sequence of predictions: the shift of the full ring   *)
(* drops the oldest point and keeps the order.                            *)
HistoryHoldsLastQueries ==
    \A p \in Patterns :
        hist[p] = SubSeq(seen[p], IF Len(seen[p]) > HistCap THEN Len(seen[p]) - HistCap + 1 ELSE 1,
                         Len(seen[p]))

(* The last HistCap points of a sequence.                                  *)
LastPoints(s) == SubSeq(s, IF Len(s) > HistCap THEN Len(s) - HistCap + 1 ELSE 1, Len(s))

(* A pattern enters the future value of a non-outlier prediction exactly  *)
(* when one of the last HistCap queries of that pattern made BEFORE this  *)
(* one activated, above the cutoff, a field that is above the cutoff at   *)
(* this point. The sighting pass (lines 321-367) reads the ring before    *)
(* the push of lines 372-395, so a query never sights itself, and the     *)
(* shifted ring must still hold exactly the recent earlier queries.      *)
FutureFromEarlierQueries ==
    out.future = "patterns" =>
        \A p \in Patterns :
            LET prior == IF out.pat = p THEN SubSeq(seen[p], 1, Len(seen[p]) - 1)
                                        ELSE seen[p]
                window == LastPoints(prior)
            IN p \in out.fpats <=>
                   \E f \in AboveAt(out.x), i \in 1..Len(window) :
                       act[f][window[i]] > CutoffW

(* The most activated field at the point of the last prediction.         *)
MostActive(x) == CHOOSE f \in 1..nrf : \A g \in 1..nrf :
                     act[g][x] <= act[f][x] /\ (act[g][x] = act[f][x] => f <= g)

(* When no field counts and none covers the point, the code falls back to *)
(* the most activated field (PLS or KNN) only if that field's activation  *)
(* equals use_aqo_threshold exactly; at any other activation it answers  *)
(* with the sentinel. Below the cutoff no field has an error history to  *)
(* lower min_error, and above it the field would have counted.           *)
FallbackOnlyAtUseThreshold ==
    out.kind \in {"fallback", "zero"} =>
        nrf > 0 /\ act[MostActive(out.x)][out.x] = UseW

(* Spec 4.5: when no field activates above the cutoff, the prediction     *)
(* falls back to the most activated field, and is the "no corresponding  *)
(* model" sentinel only when even that field's activation is below the   *)
(* minimum-use threshold (and its error is poor). So a sentinel needs an *)
(* empty model or a most activated field below use_aqo_threshold. The    *)
(* code (line 605) also returns -9999 above the threshold whenever       *)
(* min_error is still 9999, i.e. no field above the cutoff has an error  *)
(* history at or below avg_error_threshold.                              *)
SentinelOnlyWhenWeakAndPoor ==
    out.kind = "sentinel" =>
        (nrf = 0 \/ act[MostActive(out.x)][out.x] < UseW)
====
