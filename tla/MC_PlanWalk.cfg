CONSTANTS
    Clauses <- MCClauses
    Plans <- MCPlans
SPECIFICATION Spec
INVARIANTS
    TypeOK
    EveryNodeLearnedOnce
    SampleCoversSubtree
