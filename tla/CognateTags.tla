----------------------------- MODULE CognateTags -----------------------------
(***************************************************************************)
(* Etymological links of one 'Grouping Tag' field on the server:           *)
(* ConnectLexicalEntries and DeleteGroupingTags of                         *)
(* schema/gql_lexicalentry.py, over find_all_tags and                      *)
(* find_lexical_entries_by_tags of utils/search.py.                        *)
(*                                                                         *)
(* Two entries are linked when they carry an entity with the same content, *)
(* a tag.  A mutation runs in one database transaction (pyramid_tm) at     *)
(* PostgreSQL's default READ COMMITTED: Begin is what the mutation reads,  *)
(* Commit what it writes.  The server runs several worker processes, so    *)
(* other transactions may commit in between: the initial state chooses if  *)
(* requests overlap in a behaviour or come one after another.              *)
(***************************************************************************)
EXTENDS Naturals, FiniteSets

CONSTANTS
    LexicalEntry,
    Tag,            \* the strings that can be drawn as a tag
    User,
    Admin,          \* user 1, assumed to have every permission
    MayCreate,      \* MayCreate[u]: entries of perspectives u may create entities in
    Txn,            \* the requests of a behaviour, each used once
    MaxOverlapping  \* bound on the requests of a behaviour in which they overlap

ASSUME UserAssumption ==
    /\ Admin \in User
    /\ MayCreate \in [User -> SUBSET LexicalEntry]
    /\ MayCreate[Admin] = LexicalEntry
ASSUME MaxOverlappingAssumption == MaxOverlapping \in Nat

VARIABLES
    entity,         \* tag entities that are not marked for deletion
    accepted,       \* those whose publishingentity.accepted is set
    published,      \* those whose publishingentity.published is set
    drawn,          \* tags generated so far
    txn,            \* what each request has read
    concurrent      \* do requests overlap?  chosen once for a behaviour

vars == <<entity, accepted, published, drawn, txn, concurrent>>

(* One row of the entity table; a request adds at most one for each entry and tag. *)
Entity == [parent : LexicalEntry, content : Tag, by : Txn]

Idle == [pc |-> "idle"]
ConnectTxn == [pc : {"open", "done"}, op : {"connect"}, user : User,
               conn : SUBSET LexicalEntry, group : SUBSET LexicalEntry,
               tags : SUBSET Tag, rows : SUBSET Entity]
DeleteTxn == [pc : {"open", "done"}, op : {"delete"}, lex : LexicalEntry,
              rows : SUBSET Entity]

TypeOK ==
    /\ entity \in SUBSET Entity
    /\ accepted \in SUBSET Entity
    /\ published \in SUBSET Entity
    /\ drawn \in SUBSET Tag
    /\ txn \in [Txn -> {Idle} \cup ConnectTxn \cup DeleteTxn]
    /\ concurrent \in BOOLEAN

Init ==
    /\ entity = {}
    /\ accepted = {}
    /\ published = {}
    /\ drawn = {}
    /\ txn = [t \in Txn |-> Idle]
    /\ concurrent \in BOOLEAN

-----------------------------------------------------------------------------
TagsOf(e) == {x.content : x \in {y \in entity : y.parent = e}}

find_lexical_entries_by_tags(tags) ==
    {e \in LexicalEntry : TagsOf(e) \cap tags # {}}

(***************************************************************************)
(* find_all_tags starts from one tag of the entry and adds the tags of     *)
(* every entry found until nothing is new: the least set that contains the *)
(* first tag and, with one tag of an entry, all the tags of that entry.    *)
(* Which tag comes first makes no difference (CognateSearch runs the loop, *)
(* FirstTagIsEnough of CognateTagsProofs proves it), so it starts here     *)
(* from all the tags of the entry.                                         *)
(***************************************************************************)
Closed(tags) == \A e \in find_lexical_entries_by_tags(tags) : TagsOf(e) \subseteq tags

ClosureOf(start) ==
    {g \in Tag : \A tags \in SUBSET Tag : start \subseteq tags /\ Closed(tags) => g \in tags}

find_all_tags(e) == ClosureOf(TagsOf(e))

(* dbEntity query with .first(): one existing row for each entry and tag that has one. *)
FirstRows(group, tags) ==
    {rows \in SUBSET {x \in entity : x.parent \in group /\ x.content \in tags} :
        /\ \A e \in group : \A g \in tags \cap TagsOf(e) :
              \E x \in rows : x.parent = e /\ x.content = g
        /\ \A x, y \in rows : x.parent = y.parent /\ x.content = y.content => x = y}

MayBegin(t) ==
    /\ txn[t] = Idle
    /\ IF concurrent
       THEN Cardinality({s \in Txn : txn[s] # Idle}) < MaxOverlapping
       ELSE \A s \in Txn : txn[s].pc # "open"

ConnectBegin(t, user, conn) ==
    /\ MayBegin(t)
    /\ LET found == UNION {find_all_tags(e) : e \in conn}
       IN  \E tags \in IF found # {} THEN {found} ELSE {{g} : g \in Tag \ drawn} :
             LET group == find_lexical_entries_by_tags(tags) \cup conn
             IN  \E rows \in FirstRows(group, tags) :
                   /\ txn' = [txn EXCEPT ![t] =
                               [pc |-> "open", op |-> "connect", user |-> user, conn |-> conn,
                                group |-> group, tags |-> tags, rows |-> rows]]
                   /\ drawn' = drawn \cup tags
    /\ UNCHANGED <<entity, accepted, published, concurrent>>

(* Slips of the loop that adds tags: the linked entries only, no look before adding, *)
(* no entry that had no tag, entry and tag swapped.                                   *)
NewRows_LinkedOnly(t) ==
    {x \in [parent : txn[t].conn, content : txn[t].tags, by : {t}] :
        \A y \in txn[t].rows : ~(y.parent = x.parent /\ y.content = x.content)}
NewRows_Unchecked(t) == [parent : txn[t].group, content : txn[t].tags, by : {t}]
NewRows_FoundOnly(t) ==
    [parent : {y.parent : y \in txn[t].rows}, content : txn[t].tags, by : {t}]
NewRows_Swapped(t) == [parent : txn[t].tags, content : txn[t].group, by : {t}]

(* The rows a connecting request adds: every tag an entry of the group was not seen to have. *)
NewRows(t) ==
    {x \in [parent : txn[t].group, content : txn[t].tags, by : {t}] :
        \A y \in txn[t].rows : ~(y.parent = x.parent /\ y.content = x.content)}

ConnectCommit(t) ==
    /\ txn[t].pc = "open"
    /\ txn[t].op = "connect"
    /\ entity' = entity \cup NewRows(t)
    /\ accepted' = accepted \cup {x \in NewRows(t) : x.parent \in MayCreate[txn[t].user]}
    /\ published' = IF txn[t].user = Admin
                    THEN published \cup NewRows(t) \cup txn[t].rows
                    ELSE published
    /\ txn' = [txn EXCEPT ![t].pc = "done"]
    /\ UNCHANGED <<drawn, concurrent>>

(* DeleteGroupingTags of an entry with no tag of the field changes nothing. *)
DeleteBegin(t, lex) ==
    /\ MayBegin(t)
    /\ TagsOf(lex) # {}
    /\ txn' = [txn EXCEPT ![t] = [pc |-> "open", op |-> "delete", lex |-> lex,
                                  rows |-> {x \in entity : x.parent = lex}]]
    /\ UNCHANGED <<entity, accepted, published, drawn, concurrent>>

(* Slips: only the first tag entity is deleted; the tags are deleted from every entry. *)
DeleteCommit_First(t) ==
    /\ txn[t].pc = "open"
    /\ txn[t].op = "delete"
    /\ entity' = entity \ {CHOOSE x \in txn[t].rows : TRUE}
    /\ txn' = [txn EXCEPT ![t].pc = "done"]
    /\ UNCHANGED <<accepted, published, drawn, concurrent>>

DeleteCommit_ByTag(t) ==
    /\ txn[t].pc = "open"
    /\ txn[t].op = "delete"
    /\ entity' = {x \in entity : x.content \notin TagsOf(txn[t].lex)}
    /\ txn' = [txn EXCEPT ![t].pc = "done"]
    /\ UNCHANGED <<accepted, published, drawn, concurrent>>

DeleteCommit(t) ==
    /\ txn[t].pc = "open"
    /\ txn[t].op = "delete"
    /\ entity' = entity \ txn[t].rows
    /\ txn' = [txn EXCEPT ![t].pc = "done"]
    /\ UNCHANGED <<accepted, published, drawn, concurrent>>

Next ==
    \E t \in Txn :
        \/ \E user \in User, conn \in (SUBSET LexicalEntry) \ {{}} : ConnectBegin(t, user, conn)
        \/ ConnectCommit(t)
        \/ \E lex \in LexicalEntry : DeleteBegin(t, lex)
        \/ DeleteCommit(t)

Spec == Init /\ [][Next]_vars

-----------------------------------------------------------------------------
(* The groups a reader sees: the entries that share a tag with e, and e itself. *)
GroupOf(e) == {e} \cup {f \in LexicalEntry : TagsOf(e) \cap TagsOf(f) # {}}

UniformTags ==
    \A e, f \in LexicalEntry : TagsOf(e) \cap TagsOf(f) # {} => TagsOf(e) = TagsOf(f)

OneRow ==
    \A x, y \in entity : x.parent = y.parent /\ x.content = y.content => x = y

(***************************************************************************)
(* Requests that do not overlap keep the entries of a group uniform: two   *)
(* entries that share one tag share all of them, so a search from either,  *)
(* whatever tag it starts from, sees the same group, and taking one entry  *)
(* out cannot split the rest.                                              *)
(***************************************************************************)
Uniform == ~concurrent => UniformTags

(***************************************************************************)
(* Requests that do not overlap never give an entry the same tag twice:    *)
(* ConnectLexicalEntries looks for the tag before it adds it.              *)
(***************************************************************************)
OneRowPerTag == ~concurrent => OneRow

(***************************************************************************)
(* When requests do not overlap, DeleteGroupingTags leaves its entry with  *)
(* no link at all, however many tags its group has collected.              *)
(***************************************************************************)
TakenOut ==
    [][\A t \in Txn : ~concurrent /\ txn[t] \in DeleteTxn /\ txn'[t] # txn[t]
                        => TagsOf(txn[t].lex)' = {}]_vars

(***************************************************************************)
(* However requests overlap, as long as nobody has asked to take an entry  *)
(* out, the entries of every ConnectLexicalEntries that succeeded are      *)
(* found from one another.                                                 *)
(***************************************************************************)
StaysConnected ==
    (\A t \in Txn : txn[t] \notin DeleteTxn)
    => \A t \in Txn : txn[t] \in ConnectTxn /\ txn[t].pc = "done"
         => \A e, f \in txn[t].conn : f \in find_lexical_entries_by_tags(find_all_tags(e))

groups == [e \in LexicalEntry |-> GroupOf(e)]

Groups == INSTANCE CognateGroups WITH group <- groups

(***************************************************************************)
(* Requests that do not overlap implement linking as CognateGroups         *)
(* promises it: a connect fuses exactly the groups of its entries, and     *)
(* DeleteGroupingTags takes exactly its entry out.                         *)
(***************************************************************************)
ImplementsGroups == Groups!Init /\ [][~concurrent => Groups!Next]_groups
=============================================================================
