------------------------- MODULE MCResourceRequests -------------------------
EXTENDS ResourceRequests, TLC

CONSTANTS p1, p2, alice, db1, key1, key2

\* A database in p1, a secret in p2.
MCHome == db1 :> p1 @@ key1 :> p1 @@ key2 :> p2
MCPasswordOf == db1 :> key1

\* alice is a member of p1 until somebody changes that, and the owner of p2.
MCMember == p1 :> (alice :> "admin") @@ p2 :> (alice :> "owner")

Symmetry == Permutations(Req)
=============================================================================
