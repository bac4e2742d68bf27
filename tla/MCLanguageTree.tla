---------------------------- MODULE MCLanguageTree ----------------------------
(* LanguageTree on a few languages and at most one dictionary. *)
EXTENDS LanguageTree, TLC
Symmetry == Permutations(Language) \cup Permutations(Txn)
===============================================================================
