SPECIFICATION Spec
CONSTANTS
    Lines <- TwoLines
    Documents <- ThreeDocuments
    Operations <- Proposed
    Marks = {"-", "="}
    GrowthRatio = 1
    LineBudget = 3
    MaxOps = 2
    MaxAttempts = 1
    WordGrowth = 2
    MinWords = 2
INVARIANT EveryChangeHasAnOp
CHECK_DEADLOCK FALSE
