SPECIFICATION Spec
CONSTANTS
    Proc = {p1, p2}
    MaxFamilies = 2
    MaxRows = 2
SYMMETRY Symmetry
INVARIANTS
    TypeOK
    ReuseNeedsOverlap
    NeverAsksTwice
PROPERTIES
    FileNeverGoesBack
