-------------------------- MODULE MCSecretVersions --------------------------
EXTENDS SecretVersions, TLC

Symmetry == Permutations(Req)
=============================================================================
