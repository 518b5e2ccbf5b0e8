SPECIFICATION Spec
CONSTANTS
    PageOf <- LastLineOver
    IdOf <- RestartedIds
    BlockOf <- OneBlock
    Chars <- UnitChars
    LinkChoices <- AllMarked
    FileOf <- FilePerPage
    N = 2
    NumPages = 2
    Marked = {1}
    Blank = {}
    Refused = {}
    MaxChars = 9
    MaxLines = 9
    WindowSize = 2
    WindowOverlap = 1
    ExtensionSlack = 2
    MaxAttempts = 2
    PerChunkBudget = 3
    Routing = FALSE
    CanEscalate = FALSE
    LossMode = "report"
INVARIANTS ExhaustedUnitFalls
