---------------------------- MODULE MCLocalServer ----------------------------
(* Instances of LocalServer for TLC. *)
EXTENDS LocalServer, TLC

Symmetry == Permutations(Execs) \cup Permutations(Ports)
=============================================================================
