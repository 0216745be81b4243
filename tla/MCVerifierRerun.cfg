CONSTANTS
    a1 = a1
    a2 = a2
    e1 = e1
    e2 = e2
    e3 = e3
    k1 = k1
    k2 = k2
    n1 = n1
    n2 = n2
    p1 = p1
    c1 = c1
    c2 = c2
    NoKey = NoKey
    NoEvidence = NoEvidence
    Rejected = Rejected
    NotHex = NotHex
    ShortHex = ShortHex
    Account = {a1}
    Evidence = {e1}
    AppKey = {p1}
    Code = {c1}
    Key = {k1, k2}
    Node = {n1}
    Validator = {n1}
    LocalKey <- MCLocalKey
    Verdict <- MCVerdict
    SigningAct <- RunAct
    VerifyDelay = 1
    EvidenceLifetime = 1
    MaxBlock = 4
    MaxKeys = 1
    MaxRuns = 2
    Renumbered = {}
    LastRequest = 1
    MaxResults = 3
SPECIFICATION Spec
INVARIANTS
    RunTwiceRecordsOnce
