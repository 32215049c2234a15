-------------------------------- MODULE MCAuth --------------------------------
(* Auth with two requests that may be exchanged for each other. *)
EXTENDS Auth, TLC

Symmetry == Permutations(Requests)
=============================================================================
