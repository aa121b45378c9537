--------------------------- MODULE MCConnections ---------------------------
(* Connections on small instances: neither connections nor descriptors are *)
(* told apart by the specification.                                        *)
EXTENDS Connections, TLC

Symmetry == Permutations(Conns) \cup Permutations(Fds)

=============================================================================
