--------------------------- MODULE MCStoreParity ----------------------------
EXTENDS StoreParity, FiniteSets, TLC

Symmetry == Permutations(User) \cup Permutations(Email) \cup Permutations(Account)
              \cup Permutations(Pat) \cup Permutations(Nonce)

\* At most four of the users, tokens and challenges exist in one behaviour.  A
\* challenge shares no row with the rest, so what goes without is only both
\* users with both tokens beside it.
Few == Cardinality(drawn) <= 4
=============================================================================
