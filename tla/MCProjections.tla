--------------------------- MODULE MCProjections ---------------------------
\* Instances of Projections for TLC.
EXTENDS Projections, TLC
Symmetry == Permutations(Workers)
=============================================================================
