SPECIFICATION Spec
CONSTANTS
    PageOf <- LastTwoOver
    IdOf <- UniqueIds
    BlockOf <- BlockPerLine
    Chars <- UnitChars
    LinkChoices <- PairsOnly
    FileOf <- FilePerPage
    N = 4
    NumPages = 2
    Marked = {1, 2, 4}
    Blank = {}
    Refused = {}
    MaxChars = 9
    MaxLines = 9
    WindowSize = 2
    WindowOverlap = 1
    ExtensionSlack = 2
    MaxAttempts = 2
    PerChunkBudget = 3
    Routing = TRUE
    CanEscalate = TRUE
    LossMode = "realign"
INVARIANTS NoMixedPair ExhaustedUnitFalls MarkKept UnitsRouteWhole SkippedKeepsSource
