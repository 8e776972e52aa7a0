---------------------------- MODULE MCLiveEdges ----------------------------
EXTENDS LiveEdges, TLC
NodeSymmetry == Permutations(Computed) \cup Permutations(Watch)
=============================================================================
