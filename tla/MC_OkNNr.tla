------------------------------ MODULE MC_OkNNr ------------------------------
(* An LWPR field's datahouse for one input (nIn = 1): capacity 2*nIn+1 = 3 *)
(* and k = 2 for prediction. Features 0, 0.05, 0.1, 0.2 and 0.3 give      *)
(* samples inside and outside the 0.1 absorption threshold of a stored    *)
(* row, and four points pairwise outside it, one more than the store can   *)
(* hold; targets 0, 0.01 and 0.03 differ. Values in units of 10^-5.        *)
EXTENDS OkNNr

MCXs == {0, 5000, 10000, 20000, 30000}
MCTs == {0, 1000, 3000}
=============================================================================
