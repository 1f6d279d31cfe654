CONSTANTS
    Xs <- MCXs
    Ts <- MCTs
    K = 3
    KPred = 2
    Threshold = 10000
    Milli = 100
    MaxLearns = 4
SPECIFICATION Spec
INVARIANTS
    TypeOK
    PredictMatchesNearestRef
    PredictFavoursNearer
    StoreWithinCapacity
