SPECIFICATION Spec
CONSTANTS
    Lines <- TwoLines
    Documents <- ThreeDocuments
    Operations <- Proposed
    Marks = {"-", "="}
    GrowthRatio = 1
    LineBudget = 3
    MaxOps = 2
    MaxAttempts = 2
    WordGrowth = 2
    MinWords = 2
INVARIANTS SpliceIsExact IdentityIsAccepted ReplayTellsTheTruth NeverEditsALookalike
CHECK_DEADLOCK FALSE
