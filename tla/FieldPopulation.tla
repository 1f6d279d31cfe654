--------------------------- MODULE FieldPopulation ---------------------------
(***************************************************************************)
(* What the receptive-field population manager of LWPR promises, without   *)
(* metrics or statistics: one training step adds at most one field, at a   *)
(* position no live field occupies, or removes one field that overlaps     *)
(* another one (so the last field is never removed), and every removal is  *)
(* counted in n_pruned. size is the length of the field array (numRFS).    *)
(***************************************************************************)
EXTENDS Naturals, FiniteSets

CONSTANT Points

VARIABLES live, size, pruned

Init == live = {} /\ size = 0 /\ pruned = 0

Add == \E c \in Points \ live :
          /\ live' = live \cup {c}
          /\ size' = size + 1
          /\ UNCHANGED pruned

Remove == /\ size >= 2
          /\ \E c \in live :
                /\ live' = live \ {c}
                /\ size' = size - 1
                /\ pruned' = pruned + 1

Spec == Init /\ [][Add \/ Remove]_<<live, size, pruned>>
=============================================================================
