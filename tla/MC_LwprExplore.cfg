CONSTANTS
    x1 = x1
    x2 = x2
    Xs <- MCXs
    WLevels <- MCWLevels
    NumRFS = 2
    Patterns = {1}
    HistCap = 2
    MaxPredicts = 3
    UseW = 1
    CutoffW = 3
    ExactW = 5
SPECIFICATION Spec
SYMMETRY MCSymmetry
INVARIANTS
    TypeOK
    HistoryHoldsLastQueries
    FutureFromEarlierQueries
    FallbackOnlyAtUseThreshold
