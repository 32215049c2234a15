----------------------------- MODULE MCInstance -----------------------------
(* Instance with requests that may be exchanged for each other.  Symmetry  *)
(* is used where no liveness is checked.                                   *)
EXTENDS Instance, TLC

ProcSymmetry == Permutations(Procs)
=============================================================================
