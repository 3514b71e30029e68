--------------------------- MODULE MCMountManager ---------------------------
EXTENDS MountManager, TLC
Symmetry == Permutations(Users) \cup Permutations(Requests)
=============================================================================
