--------------------------- MODULE MCEstablishment ---------------------------
EXTENDS Establishment, TLC
Symmetry == Permutations(Attempts)
=============================================================================
