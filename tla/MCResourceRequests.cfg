SPECIFICATION Spec
CONSTANTS
    p1 = p1
    p2 = p2
    alice = alice
    db1 = db1
    key1 = key1
    key2 = key2
    Subject = {alice}
    Project = {p1, p2}
    Db = {db1}
    Secret = {key1, key2}
    Tag = {t}
    SystemTag = system
    Req = {r1, r2}
    Home <- MCHome
    PasswordOf <- MCPasswordOf
    Member <- MCMember
    Grade = {}
    Taggable = {db1}
    MaxVersion = 2
SYMMETRY Symmetry
CHECK_DEADLOCK FALSE
INVARIANTS
    TypeOK
    DatabaseIsWhole
PROPERTIES
    OutsidersAreOut
    SignedOutOnlyReads
    TenantsStayApart
