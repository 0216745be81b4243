CONSTANTS
    c1 = c1
    c2 = c2
    w1 = w1
    w2 = w2
    None = None
    Conn = {c1}
    Worker = {w1, w2}
    KeepAliveMax = 2
    OpenLimit = 2
    AcceptErrors = FALSE
    MaxSent = 2
SPECIFICATION Spec
INVARIANTS
    StopAssertion
