SPECIFICATION Spec
CONSTANTS
    Tokens <- AllTokens
    Similarity <- Likeness
    MaxLength = 3
    Bands <- AskedBands
    Marks = {"-", "=", "~"}
    Hyphen = "-"
    SoftHyphen = "~"
    SourceLines <- SomeLines
    Corrections <- Accepted
    Joined <- TheWord
INVARIANTS StaysInCorridor EveryTokenOnce CheapestReading UnchangedIsTrusted ReorderIsFlagged ReadsAsDecided ChildrenTile IdentityFollowsWords LossesExact SettlesAtOnce
CHECK_DEADLOCK FALSE
