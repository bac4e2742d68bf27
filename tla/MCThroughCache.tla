--------------------------- MODULE MCThroughCache ---------------------------
(* A dictionary with a perspective. *)
EXTENDS ThroughCache, TLC
CONSTANTS d, p
Parents == p :> d
Symmetry == Permutations(Value) \cup Permutations(Request)
=============================================================================
