SPECIFICATION BatchSpec
CONSTANTS
    Caps = {0, 1, 2}
    N = 6
    PageOf <- TwoPages
    IdOf <- UniqueIds
    BlockOf <- Blocks
    Chars <- CharCounts
    MaxChars = 5
    MaxLines = 3
    WindowSize = 2
    WindowOverlap = 1
    ExtensionSlack = 5
    LinkChoices <- MarkedLinks
    Blank = {4}
    Refused = {}
INVARIANTS UnitsPlannedWhole CallsBounded CallsOwnOnce UnitsShareACall
PROPERTIES OnlySplitsSever PlanEnds
CHECK_DEADLOCK FALSE
