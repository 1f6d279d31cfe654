CONSTANTS
    Clauses <- MCClauses
    Plans <- MCPlans
SPECIFICATION Spec
INVARIANTS
    LearnKeyIsPredictKey
