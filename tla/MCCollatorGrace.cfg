CONSTANTS
    i1 = i1
    c1 = c1
    c2 = c2
    pot = pot
    Account = {i1, c1}
    Pot = pot
    MinCandidates = 0
    KickThreshold = 2
    Period = 2
    ExistentialDeposit = 2
    InitialFree <- BondOnly
    Bonds = {1}
    DesiredCounts = {2}
    InvulnerableLists <- OnlyFirst
    Rekeyed = {}
    MaxBlock = 6
SPECIFICATION ChainSpec
PROPERTIES
    GraceCoversDelay
CHECK_DEADLOCK FALSE
