---------------------------- MODULE MC_NodeAgent ----------------------------
EXTENDS NodeAgent, TLC

Symmetry == Permutations(Threads) \union Permutations(Drives)
=============================================================================
