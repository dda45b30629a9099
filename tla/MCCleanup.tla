------------------------------ MODULE MCCleanup ------------------------------
(* Instances of Cleanup: a member of a pool and a VM of its own.           *)
EXTENDS Cleanup, TLC

CONSTANTS m1, solo

Symmetry == Permutations(Users)

=============================================================================
