CONSTANTS
    p1 = p1
    p2 = p2
    Procs <- MCProcs
    MaxTx = 2
    Modes <- MCModesOther
    NoProc = NoProc
SPECIFICATION Spec
INVARIANTS
    TypeOK
    HistoryOncePerQuery
    PredictionHasDistribution
PROPERTIES
    QueryCompletes
