SPECIFICATION PairSpec
CONSTANTS
    N = 7
    PageOf <- MCPageOf
    IdOf <- MCIdOf
    Blank = {2}
    ParseRoles <- SeamSafeRoles
    Refused <- MCRefused
INVARIANTS LinksSymmetric LinksSkipOnlyBlanks
PROPERTIES SeamsKeepLinks
CHECK_DEADLOCK FALSE
