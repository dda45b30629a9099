--------------------------- MODULE MCNativeTunnel ---------------------------
(* Instances of NativeTunnel: a few connections and short-lived tokens.    *)
EXTENDS NativeTunnel, TLC

(* Connections are interchangeable.                                        *)
Symmetry == Permutations(Conns)

=============================================================================
