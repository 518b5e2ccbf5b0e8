SPECIFICATION Spec
CONSTANTS
    Order <- TwoFiles
    FileNames = {page, other}
    Xml = {first, second}
    MaxRuns = 2
    MaxWrites = 2
    MaxReplaced = 2
SYMMETRY Interchangeable
INVARIANTS OnlyFaithfulLeaves ReportAccountsForAll DeliveredAsParsed
CHECK_DEADLOCK FALSE
