----------------------------- MODULE MCTeardown -----------------------------
(* Instances of Teardown: two members of a pool and a VM of its own.       *)
EXTENDS Teardown, TLC

CONSTANTS m1, m2, solo

Symmetry == Permutations(Users)

=============================================================================
