--------------------------- MODULE MCChannelQueue ---------------------------
EXTENDS ChannelQueue, TLC

\* The objects of the pool are interchangeable, and so are the peers.
MCSymmetry == Permutations(Bundles) \cup Permutations(Chan)
=============================================================================
