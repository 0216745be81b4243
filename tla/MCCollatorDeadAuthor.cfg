CONSTANTS
    a1 = a1
    a2 = a2
    a3 = a3
    pot = pot
    Account = {a1, a2}
    Pot = pot
    MinCandidates = 0
    KickThreshold = 1
    ExistentialDeposit = 2
    InitialFree <- OneRich
    Bonds = {1}
    DesiredCounts = {2}
    InvulnerableLists <- OnlyNone
    Rekeyed = {}
    MaxBlock = 2
SPECIFICATION Spec
INVARIANTS
    RewardNeverFails
