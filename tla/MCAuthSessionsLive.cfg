SPECIFICATION FairSpec
CONSTANTS
    Subject = {alice}
    Client = {}
    Browser = Browser
    Tx = {t1, t2}
    Calls = {"login", "refresh", "revokeOne", "revokeAll", "deactivate"}
    MaxSessions = 2
PROPERTIES
    EveryRequestEnds
