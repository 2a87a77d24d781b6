SPECIFICATION Spec
CONSTANTS
    Subject = {alice}
    Client = {app}
    Browser = Browser
    Tx = {t1, t2}
    Calls = {"login", "exchange", "refresh", "revokeFamily", "revokeOne", "revokeAll", "deactivate"}
    MaxSessions = 2
SYMMETRY Symmetry
PROPERTIES
    InactiveCannotRenew
