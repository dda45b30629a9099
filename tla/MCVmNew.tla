------------------------------ MODULE MCVmNew ------------------------------
(* Instances of VmNew; and what the proofs about Commands (VmNewProofs)    *)
(* assume of the scripts, the one of azlin new and those of all the other  *)
(* commands.                                                               *)
EXTENDS VmNew, TLC

Asked(name, count, public, tmp, key, repo) ==
    [name |-> name, count |-> count, public |-> public, tmp |-> tmp, key |-> key,
     repo |-> repo]

CONSTANTS n1, n2

(* A pool, a VM with both disks, one without the private key of its public *)
(* key that has the name of the pool, and one with a repository that       *)
(* cannot be cloned.                                                       *)
GivenOrders ==
    {Asked(n1, 2, FALSE, FALSE, TRUE, "none"), Asked(n2, 1, FALSE, TRUE, TRUE, "valid"),
     Asked(n1, 1, FALSE, FALSE, FALSE, "none"), Asked(n2, 1, FALSE, FALSE, TRUE, "invalid")}

(* Nothing tells the invocations apart.                                    *)
Symmetry == Permutations(Runs)

S == INSTANCE ScriptRules

(* Each script of the table keeps the rules, whatever the flags.  (Not in  *)
(* MCCommands: there a bad script shows in what its command does.)         *)
ASSUME S!ScriptsKeepRules

=============================================================================
