---------------------------- MODULE MCCognateTags ----------------------------
(* CognateTags on a small instance: the editor may create entities in the   *)
(* perspective of one entry only.                                           *)
EXTENDS CognateTags, TLC
CONSTANT e1
MCMayCreate == [u \in User |-> IF u = Admin THEN LexicalEntry ELSE {e1}]
TxnSymmetry == Permutations(Txn)
TagSymmetry == Permutations(Tag)
Symmetry == TxnSymmetry \cup TagSymmetry
=============================================================================
