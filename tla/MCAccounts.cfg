SPECIFICATION Spec
CONSTANTS
    User = {u1, u2}
    Name = {n1, n2, n3}
    Address = {e1, e2}
    Password = {w1, w2}
    Omitted = Omitted
    Req = {r1, r2, r3}
SYMMETRY Symmetry
INVARIANTS
    NamesAreUnique
PROPERTIES
    InactiveIsFrozen
    PasswordNeedsProof
CHECK_DEADLOCK FALSE
