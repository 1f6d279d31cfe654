----------------------------- MODULE MC_PlanWalk -----------------------------
(* Executed plans over three relations: a with the restriction clause ca,  *)
(* b with none (a scan whose list is empty, so nfeatures = 0), and c, a    *)
(* correlated subquery's relation with clause cs, run as a SubPlan of a's *)
(* scan; a and b joined by j. A relation's plan is its scan, possibly     *)
(* under a Material, Unique or Gather path of the same rel; a join's     *)
(* inner scan possibly hashed; the top possibly under an Agg. Any node    *)
(* may not have run (nloops = 0), and then nothing below it has.         *)
EXTENDS PlanWalk

MCClauses == {"ca", "cs", "j"}

(* A node of kind over each of ts, run whenever its child ran.           *)
Over(kind, ts) ==
    UNION {{OverPlan(kind, t, e) : e \in {x \in BOOLEAN : t.exec => x}} : t \in ts}

SubPlansOf(e) ==
    {<<>>} \cup {<<ScanPlan(<<"cs">>, s, <<>>)>> : s \in {x \in BOOLEAN : x => e}}

RelPlans(quals, withSub) ==
    LET scans == UNION {{ScanPlan(quals, e, s) : s \in IF withSub THEN SubPlansOf(e) ELSE {<<>>}}
                        : e \in BOOLEAN}
    IN scans \cup Over("samerel", scans)

RelA == RelPlans(<<"ca">>, TRUE)
RelB == RelPlans(<<>>, FALSE)

(* A join's inner side, hashed when it is a scan (a Hash join).          *)
Inner(t) == IF t.kind = "scan" THEN {t, HashPlan(t)} ELSE {t}

Joins ==
    {JoinPlan(<<"j">>, l, r, e) :
        <<l, r>> \in (RelA \X UNION {Inner(t) : t \in RelB})
                     \cup (RelB \X UNION {Inner(t) : t \in RelA}),
        e \in BOOLEAN}

Consistent(t) == ~t.exec => \A k \in 1..Len(t.kids) : ~t.kids[k].exec

Tops == {t \in Joins : Consistent(t)} \cup RelA

MCPlans == Tops \cup Over("upper", Tops)
=============================================================================
