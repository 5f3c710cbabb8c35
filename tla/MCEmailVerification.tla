------------------------ MODULE MCEmailVerification ------------------------
EXTENDS EmailVerification, TLC

Symmetry == Permutations(Deliverers)

=============================================================================
