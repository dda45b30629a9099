----------------------------- MODULE MCDiskRepair -----------------------------
EXTENDS DiskRepair, TLC
CONSTANTS a, b, w, s1, s2
Symmetry == Permutations(Slots) \cup Permutations(HomeFiles)
=============================================================================
