--------------------------- MODULE MCRequestScope ---------------------------
EXTENDS RequestScope, TLC
Symmetric == Permutations(Ops) \cup Permutations(Budgets)
=============================================================================
