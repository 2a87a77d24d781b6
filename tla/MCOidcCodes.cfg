SPECIFICATION Spec
CONSTANTS
    Grant = {g1, g2}
    User = {u1, u2}
    Nobody = nobody
    Tx = {t1, t2}
    MaxCode = 3
SYMMETRY Symmetry
CHECK_DEADLOCK FALSE
INVARIANTS
    OneAnswer
PROPERTIES
    FailureKeepsCode
    IssuedToActive
    GrantsSpec
