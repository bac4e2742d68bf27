----------------------------- MODULE SiblingOrder -----------------------------
(***************************************************************************)
(* What the tree of languages promises: the languages below a language, or *)
(* at the top, stand in one order.  A new language comes last; one that is *)
(* moved comes first, or right after the language it was put after; one    *)
(* that is deleted leaves, and the order of the others stays.              *)
(***************************************************************************)
EXTENDS Sequences, Integers
CONSTANTS Language, Top
VARIABLE children       \* children[p]: the languages below p, in order

Parent == Language \cup {Top}

Among(l, p) == \E i \in DOMAIN children[p] : children[p][i] = l

(* The list s without its element k. *)
Cut(s, k) == SubSeq(s, 1, k - 1) \o SubSeq(s, k + 1, Len(s))

(* The list s with l after its first k elements. *)
Inserted(s, l, k) == SubSeq(s, 1, k) \o <<l>> \o SubSeq(s, k + 1, Len(s))

Init == children = [p \in Parent |-> <<>>]

Add(l, p) ==
    /\ \A q \in Parent : ~Among(l, q)
    /\ children' = [children EXCEPT ![p] = Append(children[p], l)]

Without(q, k) == [p \in Parent |-> IF p = q THEN Cut(children[p], k) ELSE children[p]]

Remove(l) ==
    \E q \in Parent : \E k \in DOMAIN children[q] :
        children[q][k] = l /\ children' = Without(q, k)

Move(l, p) ==
    \E q \in Parent : \E k \in DOMAIN children[q] :
        /\ children[q][k] = l
        /\ LET rest == Without(q, k)
           IN  \E i \in 0 .. Len(rest[p]) :
                 children' = [rest EXCEPT ![p] = Inserted(rest[p], l, i)]

Next == \E l \in Language : \/ Remove(l)
                            \/ \E p \in Parent : Add(l, p) \/ Move(l, p)

Spec == Init /\ [][Next]_children
===============================================================================
