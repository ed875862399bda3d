-------------------------- MODULE MCProductUpdate --------------------------
EXTENDS ProductUpdateRefinement, TLC
Symmetry == Permutations(Hosts) \cup Permutations(Appliers)
=============================================================================
