------------------------ MODULE MCDatabaseLifecycle ------------------------
EXTENDS DatabaseLifecycle, TLC

Symmetry == Permutations(Db) \cup Permutations(Drone) \cup Permutations(Req)
=============================================================================
