---------------------------- MODULE MergeEntries ----------------------------
(***************************************************************************)
(* Lexical entries merged into a new one (views/v2/merge.py), while users  *)
(* create, approve, edit and delete entities (schema/gql_entity.py).  A    *)
(* merge is one transaction of many statements: an action for each thing   *)
(* it reads or locks.  What else users do is one action a request.  A      *)
(* merge that meets an error is rolled back if it is a GraphQL request;    *)
(* the REST view and the background task report the error and commit.      *)
(***************************************************************************)
EXTENDS Naturals
CONSTANTS
    Original,       \* lexical entries that are there from the start
    Merge,          \* merge requests; each names the entry that it makes
    PublishAny,     \* those where one published entity publishes the merged one (publish_any)
    Entity,         \* ids of entities
    Text,           \* a field with its text, grouping tag or hash of a file
    Start,          \* what may be in the database at the start
    MaxEdits,       \* bound on the requests that are no merges
    None

Entry == Original \cup Merge
Item == Text \cup Entry         \* an entity of a link field points to an entry

Row == [parent : Entry, item : Item, mark : BOOLEAN, accepted : BOOLEAN, published : BOOLEAN,
        parts : BOOLEAN,        \* whether live entities hang on this one
        merged_to : BOOLEAN, merged_by : BOOLEAN]       \* which of the two keys its metadata has
Table == [Entity -> Row \cup {None}]

ASSUME EntryAssumption == Original \cap Merge = {} /\ Text \cap Entry = {}
ASSUME PublishAnyAssumption == PublishAny \subseteq Merge
ASSUME NoneAssumption == None \notin Entry \cup Row
ASSUME MaxEditsAssumption == MaxEdits \in Nat
ASSUME StartAssumption ==
    Start \subseteq {s \in Table : \A e \in Entity : s[e] # None =>
        /\ s[e].parent \in Original /\ s[e].item \in Text \cup Original
        /\ ~s[e].mark /\ ~s[e].merged_to /\ ~s[e].merged_by}

VARIABLES
    entity,         \* the entities with their publishing rows
    tree,           \* tree[x]: the originals in the merge_tree of entry x, {} if x is not there
    merged_to,      \* of an entry, from its metadata
    deleted,        \* entries marked for deletion
    txn,            \* the merges
    edits,          \* the number of requests that were no merges
    overlap,        \* whether a merge overlaps with other requests
    took,           \* took[t]: entities that the committed merge t marked as merged (history)
    spoiled         \* originals in a merge that failed and was committed (history)

vars == <<entity, tree, merged_to, deleted, txn, edits, overlap, took, spoiled>>

Nothing == [e \in Entity |-> None]
Idle == [pc |-> "idle", group |-> {}, todo |-> {},
         loaded |-> Nothing, rows |-> Nothing, retired |-> {}]
Open(t) == txn[t].pc \notin {"idle", "over"}

TypeOK ==
    /\ entity \in Table
    /\ tree \in [Entry -> SUBSET Original]
    /\ merged_to \in [Entry -> Merge \cup {None}]
    /\ deleted \subseteq Entry
    /\ txn \in [Merge ->
         [pc : {"idle", "checked", "merging", "failed", "over"},
          group : SUBSET Entry,     \* what it merges
          todo : SUBSET Entity,     \* entities it has still to mark as merged
          loaded : Table,           \* entities it has read and will mark next
          rows : Table,             \* rows it has inserted and updated
          retired : SUBSET Entry]]  \* entries it has marked as merged
    /\ edits \in 0..MaxEdits
    /\ overlap \in BOOLEAN
    /\ took \in [Merge -> SUBSET Entity]
    /\ spoiled \subseteq Original

Init ==
    /\ entity \in Start
    /\ tree = [x \in Entry |-> IF x \in Original THEN {x} ELSE {}]
    /\ merged_to = [x \in Entry |-> None]
    /\ deleted = {}
    /\ txn = [t \in Merge |-> Idle]
    /\ edits = 0
    /\ overlap \in BOOLEAN
    /\ took = [t \in Merge |-> {}]
    /\ spoiled = {}

-----------------------------------------------------------------------------
Calm == overlap \/ \A t \in Merge : ~Open(t)
Locked(e, t) == \E s \in Merge \ {t} : txn[s].rows[e] # None
Free == {e \in Entity : entity[e] = None /\ \A t \in Merge : txn[t].rows[e] = None}
First(S) == CHOOSE x \in S : TRUE      \* ids are drawn, and what is marked is sorted by id
Fresh(x, i, a, p) ==
    [parent |-> x, item |-> i, mark |-> FALSE, accepted |-> a, published |-> p,
     parts |-> FALSE, merged_to |-> FALSE, merged_by |-> FALSE]
Live(row) == row # None /\ ~row.mark

(* What a transaction sees: the committed rows and its own. *)
Seen(t, e) == IF txn[t].rows[e] # None THEN txn[t].rows[e] ELSE entity[e]

Goes(t, new) == txn' = [txn EXCEPT ![t] = new] /\ UNCHANGED <<entity, tree, merged_to, deleted, edits, overlap, took, spoiled>>

(* Slip: an entry that is merged already is not refused. *)
CheckGroup_Slip(t, G) ==
    /\ txn[t].pc = "idle" /\ Calm
    /\ \E x, y \in G : x # y
    /\ \A x \in G : tree[x] # {}
    /\ Goes(t, [txn[t] EXCEPT !.pc = "checked", !.group = G])

(* merge_bulk_try and check_group: two entries at least, each there, live and not merged. *)
CheckGroup(t, G) ==
    /\ txn[t].pc = "idle" /\ Calm
    /\ \E x, y \in G : x # y
    /\ \A x \in G : tree[x] # {} /\ x \notin deleted /\ merged_to[x] = None
    /\ Goes(t, [txn[t] EXCEPT !.pc = "checked", !.group = G])

(* Slip: acceptance is combined as publication is without publish_any. *)
Merged_Slip(t, S, i) ==
    LET equal == {entity[e] : e \in {f \in S : entity[f].item = i}}
    IN  [Fresh(t, i, \A row \in equal : row.accepted,
               IF t \in PublishAny THEN \E row \in equal : row.published
                                   ELSE \A row \in equal : row.published)
         EXCEPT !.parts = \E row \in equal : row.parts]

(* merge_entry_data and create_entity: the entities that are equal become one.  A new one is *)
(* accepted if any of them is, and published if any is or if all are.                       *)
Merged(t, S, i) ==
    LET equal == {entity[e] : e \in {f \in S : entity[f].item = i}}
    IN  [Fresh(t, i, \E row \in equal : row.accepted,
               IF t \in PublishAny THEN \E row \in equal : row.published
                                   ELSE \A row \in equal : row.published)
         EXCEPT !.parts = \E row \in equal : row.parts]

Gather(t) ==
    LET S == {e \in Entity : Live(entity[e]) /\ entity[e].parent \in txn[t].group}
        Injective(f) == \A i, j \in DOMAIN f : f[i] = f[j] => i = j
        Draws == [{entity[e].item : e \in S} -> Free]
        id == CHOOSE d \in Draws : Injective(d)
    IN  /\ txn[t].pc = "checked"
        /\ ~\A d \in Draws : ~Injective(d)
        /\ Goes(t, [txn[t] EXCEPT
             !.pc = "merging", !.todo = S,
             !.rows = [e \in Entity |->
                IF \E i \in DOMAIN id : id[i] = e
                THEN Merged(t, S, CHOOSE i \in DOMAIN id : id[i] = e) ELSE None]])

(* Slip: what is merged already is merged again. *)
Load_Slip(t) ==
    LET e == First(txn[t].todo)
    IN  /\ txn[t].pc = "merging" /\ txn[t].loaded = Nothing /\ txn[t].todo # {}
        /\ Goes(t, [txn[t] EXCEPT !.loaded[e] = entity[e]])

(* mark_delete_merge: "a repeated merge, which should be impossible" is an error. *)
Load(t) ==
    LET e == First(txn[t].todo)
    IN  /\ txn[t].pc = "merging" /\ txn[t].loaded = Nothing /\ txn[t].todo # {}
        /\ Goes(t, IF entity[e].merged_to THEN [txn[t] EXCEPT !.pc = "failed"]
                                          ELSE [txn[t] EXCEPT !.loaded[e] = entity[e]])

(* Its UPDATE waits for other transactions that have updated the row, and writes what it read. *)
Mark(t) ==
    LET e == First(txn[t].todo)
    IN  /\ txn[t].pc = "merging" /\ txn[t].todo # {} /\ txn[t].loaded[e] # None
        /\ ~Locked(e, t)
        /\ Goes(t, [txn[t] EXCEPT
             !.rows[e] = [txn[t].loaded[e] EXCEPT !.mark = TRUE, !.merged_to = TRUE],
             !.loaded[e] = None, !.todo = @ \ {e}])

(* An entry is marked, and the links to it are read. *)
Retire(t) ==
    LET x == First(txn[t].group \ txn[t].retired)
    IN  /\ txn[t].pc = "merging" /\ txn[t].todo = {} /\ txn[t].loaded = Nothing
        /\ txn[t].group \ txn[t].retired # {}
        /\ \A s \in Merge \ {t} : x \notin txn[s].retired
        /\ Goes(t, [txn[t] EXCEPT
             !.retired = @ \cup {x},
             !.loaded = [l \in Entity |-> IF Live(Seen(t, l)) /\ Seen(t, l).item = x THEN Seen(t, l) ELSE None]])

(* A link is replaced by one to the new entry.  A link from a merged entry is an error; so are *)
(* parts of the link, which self_reference_replace is called for with an argument missing.    *)
Redirect(t) ==
    LET l == First({e \in Entity : txn[t].loaded[e] # None})
        row == txn[t].loaded[l]
    IN  /\ txn[t].pc = "merging" /\ txn[t].todo = {} /\ txn[t].loaded # Nothing
        /\ IF row.parent \in txn[t].group
           THEN Goes(t, [txn[t] EXCEPT !.pc = "failed"])
           ELSE /\ ~Locked(l, t) /\ Free # {}
                /\ Goes(t, [txn[t] EXCEPT
                     !.rows = [@ EXCEPT
                        ![l] = [row EXCEPT !.mark = TRUE, !.merged_by = TRUE],
                        ![First(Free)] = [row EXCEPT !.item = t, !.accepted = FALSE, !.published = FALSE,
                                                     !.merged_by = FALSE]],
                     !.loaded[l] = None,
                     !.pc = IF row.parts THEN "failed" ELSE @])

-----------------------------------------------------------------------------
(* The publishing rows are another table: a merge does not write those of the entities it marks. *)
Written(t, e) ==
    LET row == txn[t].rows[e]
    IN  IF row = None THEN entity[e]
        ELSE IF entity[e] = None THEN row
        ELSE [row EXCEPT !.accepted = entity[e].accepted, !.published = entity[e].published]

Taken(t) == {e \in Entity : txn[t].rows[e] # None /\ txn[t].rows[e].merged_to}

(* Slip: the merge tree keeps only the entries that were merged last. *)
Leaves_Slip(t) == txn[t].group

(* The originals in the merge trees of the entries. *)
Leaves(t) == UNION {tree[x] : x \in txn[t].group}

Writes(t) ==
    /\ entity' = [e \in Entity |-> Written(t, e)]
    /\ tree' = [tree EXCEPT ![t] = Leaves(t)]
    /\ merged_to' = [x \in Entry |-> IF x \in txn[t].retired THEN t ELSE merged_to[x]]
    /\ deleted' = deleted \cup txn[t].retired
    /\ took' = [took EXCEPT ![t] = Taken(t)]
    /\ txn' = [txn EXCEPT ![t] = [Idle EXCEPT !.pc = "over"]]
    /\ UNCHANGED <<edits, overlap>>

Commit(t) ==
    /\ txn[t].pc = "merging" /\ txn[t].todo = {} /\ txn[t].loaded = Nothing /\ txn[t].retired = txn[t].group
    /\ Writes(t)
    /\ UNCHANGED spoiled

(* The REST view and the background task return from the handler of the error, and commit. *)
CommitFailed(t) ==
    /\ txn[t].pc = "failed"
    /\ Writes(t)
    /\ spoiled' = spoiled \cup Leaves(t)

(* A failed GraphQL request, a deadlock, a process that dies. *)
Abort(t) ==
    /\ Open(t)
    /\ Goes(t, [Idle EXCEPT !.pc = "over"])

-----------------------------------------------------------------------------
MayEdit == Calm /\ edits < MaxEdits /\ edits' = edits + 1
Rows(new) == entity' = new /\ UNCHANGED <<tree, merged_to, deleted, txn, overlap, took, spoiled>>

(* CreateEntity, also in an entry that is deleted and with a link to one; an administrator publishes. *)
CreateEntity(x, i, a, p) ==
    /\ MayEdit /\ Free # {} /\ tree[x] # {}
    /\ i \in Entry => tree[i] # {}
    /\ p => a
    /\ Rows([entity EXCEPT ![First(Free)] = Fresh(x, i, a, p)])

(* UpdateEntity, also of a deleted entity; an acceptance is not taken back. *)
UpdateEntity(e, a, p) ==
    /\ MayEdit /\ entity[e] # None
    /\ entity[e].accepted => a
    /\ Rows([entity EXCEPT ![e].accepted = a, ![e].published = p])

(* UpdateEntityContent: a new entity takes the place, as accepted as the old one. *)
UpdateEntityContent(e, i) ==
    /\ MayEdit /\ Live(entity[e]) /\ entity[e].item \in Text /\ ~Locked(e, None) /\ Free # {}
    /\ Rows([entity EXCEPT ![e].mark = TRUE, ![First(Free)] = Fresh(entity[e].parent, i, entity[e].accepted, FALSE)])

DeleteEntity(e) ==
    /\ MayEdit /\ Live(entity[e]) /\ ~Locked(e, None)
    /\ Rows([entity EXCEPT ![e].mark = TRUE])

DeleteLexicalEntry(x) ==
    /\ MayEdit /\ tree[x] # {} /\ x \notin deleted
    /\ \A t \in Merge : x \notin txn[t].retired
    /\ deleted' = deleted \cup {x}
    /\ UNCHANGED <<entity, tree, merged_to, txn, overlap, took, spoiled>>

MergeStep(t) ==
    \/ \E G \in SUBSET Entry : CheckGroup(t, G)
    \/ Gather(t) \/ Load(t) \/ Mark(t) \/ Retire(t) \/ Redirect(t)
    \/ Commit(t) \/ CommitFailed(t) \/ Abort(t)

Next ==
    \/ \E t \in Merge : MergeStep(t)
    \/ \E x \in Entry, i \in Item, a, p \in BOOLEAN : CreateEntity(x, i, a, p)
    \/ \E e \in Entity :
         \/ \E a, p \in BOOLEAN : UpdateEntity(e, a, p)
         \/ \E i \in Text : UpdateEntityContent(e, i)
         \/ DeleteEntity(e)
    \/ \E x \in Entry : DeleteLexicalEntry(x)

Spec == Init /\ [][Next]_vars

-----------------------------------------------------------------------------
(* An original's content is in one place: no two live entries hold it,     *)
(* when requests come one after another, except after a merge that failed  *)
(* and was committed half done.  Where it went can be told from the        *)
(* merged_to of the entries.                                               *)
OneHome ==
    \A x, y \in Entry \ deleted : x # y => tree[x] \cap tree[y] \subseteq spoiled

TreeTold ==
    \A t \in Merge : \A a \in tree[t] \ spoiled : \E x \in Entry : merged_to[x] = t /\ a \in tree[x]

OriginalsOnce == ~overlap => OneHome /\ TreeTold

(* Two merges, overlapping in any way, take at most one text of a shared   *)
(* entry twice: after the first, the second of them is stopped by the      *)
(* check in mark_delete_merge.                                             *)
TwiceAtMostOnce ==
    \A s, t \in Merge : s # t =>
        \A e, f \in took[s] \cap took[t] : entity[e].item \in Text /\ entity[f].item \in Text => e = f

(* After a merge the new entry holds what its entries held, each text once *)
(* and with the right marks, nothing live is left in them, and every link  *)
(* that led to one of them leads, from where it was, to the new entry; no  *)
(* other entity has changed.                                               *)
LiveIn(T, X) == {e \in Entity : Live(T[e]) /\ T[e].parent \in X}
Kept(t) ==
    LET G == txn[t].group
        old == LiveIn(entity, G)
        new == LiveIn(entity', {t})
        inward == {e \in Entity : Live(entity[e]) /\ entity[e].item \in G}
        Led(i) == IF i \in G THEN t ELSE i
    IN  /\ {entity'[e].item : e \in new} = {Led(entity[e].item) : e \in old}
        /\ \A n \in new : entity'[n].item # t =>
             LET equal == {entity[e] : e \in {f \in old : entity[f].item = entity'[n].item}}
             IN  /\ \A m \in new : entity'[m].item = entity'[n].item => m = n
                 /\ entity'[n].accepted = \E row \in equal : row.accepted
                 /\ entity'[n].published = IF t \in PublishAny THEN \E row \in equal : row.published
                                                               ELSE \A row \in equal : row.published
        /\ LiveIn(entity', G) = {}
        /\ ~\E e \in Entity : Live(entity'[e]) /\ entity'[e].item \in G
        /\ \A l \in inward \ old : \E n \in Entity :
             Live(entity'[n]) /\ entity'[n].item = t /\ entity'[n].parent = entity[l].parent
        /\ \A e \in Entity \ (old \cup inward) : entity[e] # None => entity'[e] = entity[e]

MergeKeeps == [][\A t \in Merge : ~overlap /\ Commit(t) => Kept(t)]_vars
=============================================================================
