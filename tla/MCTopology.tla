----------------------------- MODULE MCTopology ------------------------------
(***************************************************************************)
(* Topology for TLC: goroutines and bind file ids are interchangeable.     *)
(***************************************************************************)
EXTENDS Topology, TLC

Symmetry == Permutations(Procs) \cup Permutations(BindFiles)
=============================================================================
