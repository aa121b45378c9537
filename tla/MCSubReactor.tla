---------------------------- MODULE MCSubReactor ----------------------------
(* Instances of SubReactor for TLC.                                        *)
EXTENDS SubReactor, TLC

(* Descriptors and application threads are interchangeable. *)
Symmetry == Permutations(Fds) \cup Permutations(Senders)
=============================================================================
