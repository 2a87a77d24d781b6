SPECIFICATION Spec
CONSTANTS
    Subject = {alice}
    Client = {}
    Browser = Browser
    Tx = {t1, t2}
    Calls = {"login", "refresh", "deactivate"}
    MaxSessions = 3
SYMMETRY Symmetry
INVARIANTS
    OneUnrevokedPerFamily
    BranchStaysCurrent
    RotationChain
    AuthTimeIsLogin
    ReuseEndsFamily
PROPERTIES
    RevocationIsFinal
    FamiliesSpec
