CONSTANTS
    Points <- MCPoints
    MetricLevels <- MCMetricLevels
    Spacing = 11
    InitM = 50
    NIn = 1
    NumPatterns = 1
    HistCap = 2
    NumPredErrorHistory = 2
INIT Init
NEXT Next
CONSTRAINT StateBound
INVARIANT KnnLearnBelowCapacity
