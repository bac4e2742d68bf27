--------------------------- MODULE MCGrantRequests ---------------------------
(* GrantRequests on a small instance: two dictionaries, each with a group of its *)
(* own that may edit it, the second with another group that may create           *)
(* perspectives, and a fourth group for a perspective created later.             *)
EXTENDS GrantRequests, TLC
CONSTANTS d1, d2, g1, g2, g3, u1, u2
MCGroupsOf == d1 :> {g1} @@ d2 :> {g2, g3}
MCEditGroup == d1 :> g1 @@ d2 :> g2
MCCreateGroup == d1 :> g1 @@ d2 :> g3
MCHolders == d1 :> {u1} @@ d2 :> {u2}
Symmetry == Permutations(Txn)
=============================================================================
