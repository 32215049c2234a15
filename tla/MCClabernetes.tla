---------------------------- MODULE MCClabernetes ----------------------------
(***************************************************************************)
(* A small instance of Clabernetes.                                        *)
(***************************************************************************)
EXTENDS Clabernetes, TLC

Symmetry == Permutations(Nodes)
=============================================================================
