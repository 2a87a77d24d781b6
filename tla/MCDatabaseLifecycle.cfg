SPECIFICATION FairSpec
CONSTANTS
    Db = {d1, d2}
    Tag = {1, 2}
    Req = {r1}
    Drone = {c1, c2}
INVARIANTS
    DronesNeverBlockEachOther
PROPERTIES
    CollectedOnlyWhenDead
    TagOutlivesItsResources
    TerminatedIsCollected
CHECK_DEADLOCK FALSE
