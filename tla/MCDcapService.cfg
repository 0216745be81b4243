CONSTANTS
    r1 = r1
    r2 = r2
    t1 = t1
    t2 = t2
    Request <- MCRequest
    Thread <- MCThread
    Kind <- MCKind
    None = None
    Unspecified = Unspecified
SPECIFICATION Spec
SYMMETRY Same
INVARIANTS
    BuffersReturned
PROPERTIES
    RefinesAttestationService
    RefusalsStand
