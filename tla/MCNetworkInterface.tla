------------------------- MODULE MCNetworkInterface -------------------------
EXTENDS NetworkInterface, TLC

Symmetry == Permutations(Handler) \cup Permutations(Chan)
=============================================================================
