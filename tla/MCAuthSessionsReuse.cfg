SPECIFICATION Spec
CONSTANTS
    Subject = {alice}
    Client = {app}
    Browser = Browser
    Tx = {t1, t2}
    Calls = {"login", "refresh"}
    MaxSessions = 3
SYMMETRY Symmetry
INVARIANT ReuseAlwaysRevokes
