--------------------------- MODULE MC_LwprUpdate ---------------------------
(***************************************************************************)
(* Model-checking instance of LwprUpdate: three grid positions 0.11 apart, *)
(* the default metric M = 5 and the levels a field needs to become narrow  *)
(* enough for a neighbour to be generated (M = 20) and wide enough for two *)
(* neighbours to be pruned (M = 4.1), each reachable from M = 5 by steps   *)
(* the distance-metric update accepts.                                     *)
(***************************************************************************)
EXTENDS LwprUpdate

MCPoints == 0..2
MCMetricLevels == {41, 45, 50, 200}

(* Bound on model->n_data, the number of lwpr_update calls explored.       *)
MaxUpdates == 8

StateBound == modelN <= MaxUpdates

(* The population of fields refines the abstract population manager.       *)
Pop == INSTANCE FieldPopulation WITH live <- Centres(rf), size <- Len(rf),
                                     pruned <- nPruned
PopulationRefined == Pop!Spec
=============================================================================
