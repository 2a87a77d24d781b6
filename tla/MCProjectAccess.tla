-------------------------- MODULE MCProjectAccess --------------------------
EXTENDS ProjectAccess, TLC

Symmetry == Permutations(Subject) \cup Permutations(Project) \cup Permutations(Req)
=============================================================================
