SPECIFICATION Spec
CONSTANTS
    PageOf <- OnePage
    IdOf <- UniqueIds
    BlockOf <- OneBlock
    Chars <- UnitChars
    LinkChoices <- AllMarked
    FileOf <- OneFile
    N = 3
    NumPages = 1
    Marked = {1, 2}
    Blank = {}
    Refused = {}
    MaxChars = 9
    MaxLines = 9
    WindowSize = 2
    WindowOverlap = 1
    ExtensionSlack = 2
    MaxAttempts = 2
    PerChunkBudget = 3
    Routing = FALSE
    CanEscalate = FALSE
    LossMode = "report"
INVARIANTS NoMixedPair
