--------------------------- MODULE MCCommandLine ---------------------------
EXTENDS CommandLine, TLC

Symmetry == Permutations(Proc)
=============================================================================
