---------------------------- MODULE MCOidcCodes -----------------------------
EXTENDS OidcCodes, TLC

Symmetry == Permutations(Grant) \cup Permutations(User) \cup Permutations(Tx)
=============================================================================
