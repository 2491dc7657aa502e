----------------------------- MODULE MCAccounts -----------------------------
EXTENDS Accounts, TLC

Symmetry == Permutations(User) \cup Permutations(Request) \cup Permutations(Email)
=============================================================================
