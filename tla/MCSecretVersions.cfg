SPECIFICATION FairSpec
CONSTANTS
    Req = {r1, r2}
    MaxVersion = 4
INVARIANTS
    TypeOK
    CurrentIsActive
    MaterialOpens
    VerifierKeepsSecret
PROPERTIES
    DisableSparesVerifier
    AbsentIsFinal
    EveryRequestEnds
