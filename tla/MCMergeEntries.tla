--------------------------- MODULE MCMergeEntries ---------------------------
(* Three entries with three entities: equal texts with a link to one of the entries, or a *)
(* text, a link between two entries and a link with parts.                                *)
EXTENDS MergeEntries
CONSTANTS a, b, c, e1, e2, e3, p, q
Tables ==
    {<<Fresh(a, p, TRUE, FALSE), Fresh(b, p, FALSE, TRUE), Fresh(c, b, TRUE, TRUE)>>,
     <<Fresh(a, p, TRUE, TRUE), Fresh(b, a, TRUE, TRUE), [Fresh(c, b, TRUE, TRUE) EXCEPT !.parts = TRUE]>>}
Starts ==
    {[e \in Entity |-> IF e = e1 THEN s[1] ELSE IF e = e2 THEN s[2] ELSE IF e = e3 THEN s[3] ELSE None] :
        s \in Tables}
=============================================================================
