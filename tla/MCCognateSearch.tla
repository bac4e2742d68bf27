--------------------------- MODULE MCCognateSearch ---------------------------
(* CognateSearch over every table of a few entries and tags. *)
EXTENDS CognateSearch, TLC
Symmetry == Permutations(LexicalEntry) \cup Permutations(Tag)
=============================================================================
