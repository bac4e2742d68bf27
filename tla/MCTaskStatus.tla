---------------------------- MODULE MCTaskStatus ----------------------------
(* TaskStatus on a small instance: three tasks, two of them of one user, and two workers. *)
EXTENDS TaskStatus, TLC
CONSTANTS t1, t2, t3, u1, u2, w2, w3
Owners == t1 :> u1 @@ t2 :> u1 @@ t3 :> u2
Handed == w2 :> t2 @@ w3 :> t3
Symmetry == Permutations(Deleter)
=============================================================================
