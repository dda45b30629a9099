--------------------------- MODULE MCTunnelRegistry ---------------------------
(* TunnelRegistry on small sets of VMs, pids and ports. *)
EXTENDS TunnelRegistry, TLC

(* VMs, pids and ports are interchangeable, and so are their model values. *)
Symmetry == Permutations(VMs) \cup Permutations(Pids) \cup Permutations(Ports)

=============================================================================
