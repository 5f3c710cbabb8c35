------------------------------ MODULE MCCache ------------------------------
EXTENDS Cache, TLC

Symmetry == Permutations(Clients) \cup Permutations(Tokens)
=============================================================================
