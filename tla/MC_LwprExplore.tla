--------------------------- MODULE MC_LwprExplore ---------------------------
(* Two fields, so that one can be the first and the other the last, two   *)
(* query points under one pattern with a ring of two, so that a third     *)
(* push shifts it. Activation levels: 0 below use_aqo_threshold, 1 equal  *)
(* to it, 2 between it and the cutoff, 4 between the cutoff and 0.999,    *)
(* 6 above 0.999.                                                         *)
EXTENDS LwprExplore, TLC

CONSTANTS x1, x2

MCXs == {x1, x2}
MCWLevels == {0, 1, 2, 4, 6}
MCSymmetry == Permutations(MCXs)
=============================================================================
