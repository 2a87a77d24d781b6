SPECIFICATION Spec
CONSTANTS
    Subject = {s1, s2, s3}
    Project = {p1}
    Req = {r1, r2}
    NoSubject = NoSubject
    NoProject = NoProject
    Requested = {"owner", "admin", "viewer", "root"}
SYMMETRY Symmetry
INVARIANTS
    KeepsAnOwner
    OwnerIsBilled
    BilledHasPlan
PROPERTIES
    AdminsAreMadeByOwners
