----------------------------- MODULE MCNamespace -----------------------------
(***************************************************************************)
(* Namespace for TLC: connections and sending goroutines are               *)
(* interchangeable.                                                        *)
(***************************************************************************)
EXTENDS Namespace

Symmetry == Permutations(Sockets) \cup Permutations(Senders)
=============================================================================
