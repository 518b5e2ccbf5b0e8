SPECIFICATION Spec
CONSTANTS
    PageOf <- LastLineOver
    IdOf <- UniqueIds
    BlockOf <- TwoPerBlock
    Chars <- UnitChars
    LinkChoices <- AnyMarked
    FileOf <- OneFile
    N = 4
    NumPages = 2
    Marked = {2, 3, 4}
    Blank = {}
    Refused = {}
    MaxChars = 9
    MaxLines = 2
    WindowSize = 2
    WindowOverlap = 1
    ExtensionSlack = 2
    MaxAttempts = 2
    PerChunkBudget = 5
    Routing = FALSE
    CanEscalate = FALSE
    LossMode = "strict"
INVARIANTS TypeOK DecidedBehind CorrectedWasAsked BudgetBound DecisionsCoherent
PROPERTIES KeepsContract CorrectionStands OwnershipRespected Terminates
