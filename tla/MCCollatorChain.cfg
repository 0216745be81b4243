CONSTANTS
    i1 = i1
    c1 = c1
    c2 = c2
    pot = pot
    Account = {i1, c1, c2}
    Pot = pot
    MinCandidates = 1
    KickThreshold = 2
    Period = 2
    ExistentialDeposit = 2
    InitialFree <- BondOnly
    Bonds = {1}
    DesiredCounts = {2}
    InvulnerableLists <- OneOrTwo
    Rekeyed = {}
    MaxBlock = 8
SPECIFICATION ChainSpec
INVARIANTS
    LoopAgrees
PROPERTIES
    NeverBelowMinimum
    KickedOnlyIfIdle
    FirstComeFirstServed
    KickedOnlyIfAbsent
CHECK_DEADLOCK FALSE
