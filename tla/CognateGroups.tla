---------------------------- MODULE CognateGroups ----------------------------
(***************************************************************************)
(* What etymological linking promises its users, with no tags in sight:    *)
(* the lexical entries of one grouping field are divided into groups of    *)
(* cognates.  Linking some entries fuses their groups into one; taking an  *)
(* entry out of its group leaves it alone and the rest of the group whole. *)
(***************************************************************************)
CONSTANT LexicalEntry

VARIABLE group      \* group[e]: the entries e is a cognate of, e included

Init == group = [e \in LexicalEntry |-> {e}]

Connect(conn) ==
    LET fused == UNION {group[e] : e \in conn}
    IN  group' = [e \in LexicalEntry |-> IF e \in fused THEN fused ELSE group[e]]

Leave(lex) ==
    group' = [e \in LexicalEntry |-> IF e = lex THEN {lex} ELSE group[e] \ {lex}]

Next == \/ \E conn \in (SUBSET LexicalEntry) \ {{}} : Connect(conn)
        \/ \E lex \in LexicalEntry : Leave(lex)

Spec == Init /\ [][Next]_group
=============================================================================
