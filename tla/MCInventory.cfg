SPECIFICATION Spec
CONSTANTS
    N = 3
    c1 = c1
    c2 = c2
    c3 = c3
    Claims = {c1, c2, c3}
    None = None
SYMMETRY ClaimSymmetry
INVARIANTS
    TypeOK
    NoDoubleGrant
    AllOffered
    Releasable
    
