---------------------------- MODULE MC_AqoStorage ----------------------------
(* Two backends, two queries each. MCModesAdding: sessions in the modes    *)
(* that register new queries in aqo_queries; MCModesOther: sessions in     *)
(* FORCED or CONTROLLED mode next to one in LEARN mode.                    *)
EXTENDS AqoStorage

CONSTANTS p1, p2

MCProcs == {p1, p2}
MCModesAdding == {"intelligent", "learn"}
MCModesOther == {"forced", "controlled", "learn"}
====
