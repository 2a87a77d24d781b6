----------------------------- MODULE MCAccounts -----------------------------
EXTENDS Accounts, TLC

Symmetry ==
    Permutations(User) \cup Permutations(Name) \cup Permutations(Address)
    \cup Permutations(Password) \cup Permutations(Req)
=============================================================================
