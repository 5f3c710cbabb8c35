------------------------------ MODULE MCGuests ------------------------------
\* Instances of Guests for TLC.
EXTENDS Guests, TLC

Symmetry == Permutations(Clients)
=============================================================================
