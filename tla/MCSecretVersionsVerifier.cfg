SPECIFICATION Spec
CONSTANTS
    Req = {r1, r2}
    MaxVersion = 2
SYMMETRY Symmetry
INVARIANT VerifierNamesActive
