CONSTANTS
    a1 = a1
    a2 = a2
    a3 = a3
    pot = pot
    Account = {a1, a2, a3}
    Pot = pot
    MinCandidates = 0
    KickThreshold = 1
    ExistentialDeposit = 2
    InitialFree <- Unequal
    Bonds = {1, 3}
    DesiredCounts = {1, 2}
    InvulnerableLists <- NoneOrSecond
    Rekeyed = {a2}
    MaxBlock = 2
SPECIFICATION Spec
INVARIANTS
    TypeOK
    CandidatesUnique
    DepositsBacked
    FundsConserved
