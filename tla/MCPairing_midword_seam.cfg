SPECIFICATION PairSpec
CONSTANTS
    N = 7
    PageOf <- MCPageOf
    IdOf <- MCIdOf
    Blank = {2}
    ParseRoles <- HeuristicRoles
    Refused = {}
INVARIANTS LinksSymmetric
CHECK_DEADLOCK FALSE
