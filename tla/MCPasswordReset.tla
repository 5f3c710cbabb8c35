-------------------------- MODULE MCPasswordReset --------------------------
EXTENDS PasswordReset, TLC

Symmetry == Permutations(Deliverers) \cup Permutations(Clients)

=============================================================================
