-------------------------- MODULE CognateTagsProofs --------------------------
(***************************************************************************)
(* Proofs about CognateTags: types for any interleaving of requests, and,  *)
(* for requests that do not overlap, uniform groups and the refinement of  *)
(* CognateGroups.                                                          *)
(***************************************************************************)
EXTENDS CognateTags, TLAPS

USE UserAssumption, MaxOverlappingAssumption

(***************************************************************************)
(* The inductive invariant of requests that do not overlap: what the one   *)
(* open request has read still describes the tables.                       *)
(***************************************************************************)
UpToDateConnect(x) ==
    /\ x.conn # {} /\ x.tags # {}
    /\ \A e \in x.conn : TagsOf(e) \subseteq x.tags
    /\ x.group = find_lexical_entries_by_tags(x.tags) \cup x.conn
    /\ \A e \in x.group : TagsOf(e) \subseteq x.tags
    /\ \A e \in x.group : e \in UNION {GroupOf(c) : c \in x.conn}
    /\ x.rows \in FirstRows(x.group, x.tags)

UpToDateDelete(x) ==
    /\ TagsOf(x.lex) # {}
    /\ x.rows = {y \in entity : y.parent = x.lex}

SerialFacts ==
    /\ TypeOK /\ UniformTags /\ OneRow
    /\ \A x \in entity : x.content \in drawn
    /\ \A s, t \in Txn : txn[s].pc = "open" /\ txn[t].pc = "open" => s = t
    /\ \A t \in Txn : txn[t].pc = "open" =>
          \/ txn[t].op = "connect" /\ UpToDateConnect(txn[t]) /\ txn[t].tags \subseteq drawn
          \/ txn[t].op = "delete" /\ UpToDateDelete(txn[t])

SerialInv == ~concurrent => SerialFacts

-----------------------------------------------------------------------------
(* Every tag of an entry is a tag. *)
LEMMA TagsOfType ==
    ASSUME entity \in SUBSET Entity, NEW e \in LexicalEntry
    PROVE  TagsOf(e) \in SUBSET Tag
BY DEF TagsOf, Entity

(***************************************************************************)
(* What find_all_tags computes is the least closed set of tags: it         *)
(* contains where it starts from, it is closed, and it is contained in     *)
(* every closed set that contains the start.                               *)
(***************************************************************************)
LEMMA ClosureIsLeast ==
    ASSUME entity \in SUBSET Entity, NEW start \in SUBSET Tag
    PROVE  /\ start \subseteq ClosureOf(start)
           /\ ClosureOf(start) \in SUBSET Tag
           /\ Closed(ClosureOf(start))
           /\ \A tags \in SUBSET Tag :
                start \subseteq tags /\ Closed(tags) => ClosureOf(start) \subseteq tags
<1>1. /\ start \subseteq ClosureOf(start)
      /\ ClosureOf(start) \in SUBSET Tag
      /\ \A tags \in SUBSET Tag :
           start \subseteq tags /\ Closed(tags) => ClosureOf(start) \subseteq tags
  BY DEF ClosureOf
<1>2. ASSUME NEW e \in find_lexical_entries_by_tags(ClosureOf(start)), NEW g \in TagsOf(e)
      PROVE  g \in ClosureOf(start)
  <2>1. e \in LexicalEntry /\ g \in Tag
    BY TagsOfType DEF find_lexical_entries_by_tags
  <2>2. SUFFICES ASSUME NEW tags \in SUBSET Tag, start \subseteq tags, Closed(tags)
                 PROVE  g \in tags
    BY <2>1 DEF ClosureOf
  <2>3. ClosureOf(start) \subseteq tags
    BY <2>2, <1>1
  <2>4. e \in find_lexical_entries_by_tags(tags)
    BY <2>3 DEF find_lexical_entries_by_tags
  <2>5. QED
    BY <2>2, <2>4 DEF Closed
<1>3. Closed(ClosureOf(start))
  BY <1>2 DEF Closed
<1>4. QED
  BY <1>1, <1>3

(***************************************************************************)
(* find_all_tags takes only the first tag of the entry it is given.  It    *)
(* may be any: the closure of one tag of an entry is the closure of all.   *)
(***************************************************************************)
THEOREM FirstTagIsEnough ==
    ASSUME entity \in SUBSET Entity, NEW e \in LexicalEntry, NEW g \in TagsOf(e)
    PROVE  ClosureOf({g}) = find_all_tags(e)
<1>1. TagsOf(e) \in SUBSET Tag /\ {g} \in SUBSET Tag
  BY TagsOfType
<1>2. g \in ClosureOf({g}) /\ Closed(ClosureOf({g})) /\ ClosureOf({g}) \in SUBSET Tag
  BY <1>1, ClosureIsLeast
<1>3. e \in find_lexical_entries_by_tags(ClosureOf({g}))
  BY <1>2 DEF find_lexical_entries_by_tags
<1>4. TagsOf(e) \subseteq ClosureOf({g})
  BY <1>2, <1>3 DEF Closed
<1>5. find_all_tags(e) \subseteq ClosureOf({g})
  BY <1>1, <1>2, <1>4, ClosureIsLeast DEF find_all_tags
<1>6. /\ {g} \subseteq find_all_tags(e)
      /\ Closed(find_all_tags(e))
      /\ find_all_tags(e) \in SUBSET Tag
  BY <1>1, ClosureIsLeast DEF find_all_tags
<1>7. ClosureOf({g}) \subseteq find_all_tags(e)
  BY <1>1, <1>6, ClosureIsLeast
<1>8. QED
  BY <1>5, <1>7

-----------------------------------------------------------------------------
(* In the records of txn, the two kinds of request are told apart by op. *)
LEMMA TxnKinds ==
    /\ Idle \notin ConnectTxn \cup DeleteTxn
    /\ \A x \in ConnectTxn : x.op = "connect"
    /\ \A x \in DeleteTxn : x.op = "delete"
BY DEF Idle, ConnectTxn, DeleteTxn

(* What a request that is about to commit looks like. *)
LEMMA OpenConnect ==
    ASSUME TypeOK, NEW t \in Txn, txn[t].pc = "open", txn[t].op = "connect"
    PROVE  /\ txn[t] \in ConnectTxn
           /\ txn[t].user \in User /\ txn[t].conn \in SUBSET LexicalEntry
           /\ txn[t].group \in SUBSET LexicalEntry
           /\ txn[t].tags \in SUBSET Tag /\ txn[t].rows \in SUBSET Entity
           /\ NewRows(t) \in SUBSET Entity
           /\ [txn[t] EXCEPT !.pc = "done"] \in ConnectTxn
<1>1. txn[t] \in ConnectTxn
  BY DEF TypeOK, Idle, ConnectTxn, DeleteTxn
<1>2. QED
  BY <1>1 DEF ConnectTxn, NewRows, Entity

LEMMA OpenDelete ==
    ASSUME TypeOK, NEW t \in Txn, txn[t].pc = "open", txn[t].op = "delete"
    PROVE  /\ txn[t] \in DeleteTxn
           /\ txn[t].lex \in LexicalEntry /\ txn[t].rows \in SUBSET Entity
           /\ [txn[t] EXCEPT !.pc = "done"] \in DeleteTxn
<1>1. txn[t] \in DeleteTxn
  BY DEF TypeOK, Idle, ConnectTxn, DeleteTxn
<1>2. QED
  BY <1>1 DEF DeleteTxn

(* What a connecting request has read. *)
LEMMA BeginConnect ==
    ASSUME TypeOK, NEW t \in Txn, NEW user \in User, NEW conn \in (SUBSET LexicalEntry) \ {{}},
           ConnectBegin(t, user, conn)
    PROVE  \E tags \in SUBSET Tag, group \in SUBSET LexicalEntry, rows \in SUBSET Entity :
             /\ LET found == UNION {find_all_tags(e) : e \in conn}
                IN  \/ found # {} /\ tags = found
                    \/ found = {} /\ \E g \in Tag \ drawn : tags = {g}
             /\ group = find_lexical_entries_by_tags(tags) \cup conn
             /\ rows \in FirstRows(group, tags)
             /\ txn' = [txn EXCEPT ![t] =
                          [pc |-> "open", op |-> "connect", user |-> user, conn |-> conn,
                           group |-> group, tags |-> tags, rows |-> rows]]
             /\ drawn' = drawn \cup tags
             /\ txn'[t] \in ConnectTxn
<1> DEFINE found == UNION {find_all_tags(e) : e \in conn}
<1>1. \A e \in conn : find_all_tags(e) \in SUBSET Tag
  BY DEF find_all_tags, ClosureOf
<1>2. found \in SUBSET Tag
  BY <1>1
<1>3. PICK tags \in (IF found # {} THEN {found} ELSE {{g} : g \in Tag \ drawn}) :
        LET group == find_lexical_entries_by_tags(tags) \cup conn
        IN  \E rows \in FirstRows(group, tags) :
              /\ txn' = [txn EXCEPT ![t] =
                          [pc |-> "open", op |-> "connect", user |-> user, conn |-> conn,
                           group |-> group, tags |-> tags, rows |-> rows]]
              /\ drawn' = drawn \cup tags
  BY DEF ConnectBegin
<1>4. /\ tags \in SUBSET Tag
      /\ \/ found # {} /\ tags = found
         \/ found = {} /\ \E g \in Tag \ drawn : tags = {g}
  BY <1>2, <1>3
<1> DEFINE group == find_lexical_entries_by_tags(tags) \cup conn
<1>5. group \in SUBSET LexicalEntry
  BY DEF find_lexical_entries_by_tags
<1>6. PICK rows \in FirstRows(group, tags) :
        /\ txn' = [txn EXCEPT ![t] =
                    [pc |-> "open", op |-> "connect", user |-> user, conn |-> conn,
                     group |-> group, tags |-> tags, rows |-> rows]]
        /\ drawn' = drawn \cup tags
  BY <1>3
<1>7. rows \in SUBSET Entity
  BY <1>6 DEF FirstRows, TypeOK
<1>8. txn'[t] \in ConnectTxn
  <2>1. txn'[t] = [pc |-> "open", op |-> "connect", user |-> user, conn |-> conn,
                   group |-> group, tags |-> tags, rows |-> rows]
    BY <1>6 DEF TypeOK
  <2>2. QED
    BY <2>1, <1>4, <1>5, <1>7 DEF ConnectTxn
<1>9. QED
  BY <1>4, <1>5, <1>6, <1>7, <1>8

(* TypeOK is inductive on its own. *)
LEMMA TypeStep == TypeOK /\ [Next]_vars => TypeOK'
<1> SUFFICES ASSUME TypeOK, [Next]_vars PROVE TypeOK'
  OBVIOUS
<1>1. CASE UNCHANGED vars
  BY <1>1 DEF vars, TypeOK
<1>2. ASSUME NEW t \in Txn, NEW user \in User, NEW conn \in (SUBSET LexicalEntry) \ {{}},
             ConnectBegin(t, user, conn)
      PROVE  TypeOK'
  <2>1. UNCHANGED <<entity, accepted, published, concurrent>>
    BY <1>2 DEF ConnectBegin
  <2>2. QED
    BY <1>2, <2>1, BeginConnect DEF TypeOK
<1>3. ASSUME NEW t \in Txn, ConnectCommit(t) PROVE TypeOK'
  <2>1. txn[t].pc = "open" /\ txn[t].op = "connect"
    BY <1>3 DEF ConnectCommit
  <2>2. QED
    BY <1>3, <2>1, OpenConnect DEF ConnectCommit, TypeOK
<1>4. ASSUME NEW t \in Txn, NEW lex \in LexicalEntry, DeleteBegin(t, lex) PROVE TypeOK'
  <2>1. [pc |-> "open", op |-> "delete", lex |-> lex,
         rows |-> {x \in entity : x.parent = lex}] \in DeleteTxn
    BY DEF DeleteTxn, TypeOK
  <2>2. QED
    BY <1>4, <2>1 DEF DeleteBegin, TypeOK
<1>5. ASSUME NEW t \in Txn, DeleteCommit(t) PROVE TypeOK'
  <2>1. txn[t].pc = "open" /\ txn[t].op = "delete"
    BY <1>5 DEF DeleteCommit
  <2>2. QED
    BY <1>5, <2>1, OpenDelete DEF DeleteCommit, TypeOK
<1>6. QED
  BY <1>1, <1>2, <1>3, <1>4, <1>5 DEF Next

(* The variables keep their types whatever requests run and however they overlap. *)
THEOREM TypeCorrect == Spec => []TypeOK
<1>1. Init => TypeOK
  BY DEF Init, TypeOK
<1>2. QED
  BY <1>1, TypeStep, PTL DEF Spec

-----------------------------------------------------------------------------
(* In a uniform table the tags of an entry are already closed. *)
LEMMA UniformIsClosed ==
    ASSUME TypeOK, UniformTags, NEW e \in LexicalEntry
    PROVE  find_all_tags(e) = TagsOf(e)
<1>1. TagsOf(e) \in SUBSET Tag
  BY TagsOfType DEF TypeOK
<1>2. Closed(TagsOf(e))
  BY DEF Closed, find_lexical_entries_by_tags, UniformTags
<1>3. entity \in SUBSET Entity
  BY DEF TypeOK
<1>4. QED
  BY <1>1, <1>2, <1>3, ClosureIsLeast DEF find_all_tags

(* The tags of the entries after a commit of an up-to-date request. *)
LEMMA TagsAfterConnect ==
    ASSUME TypeOK, NEW t \in Txn, ConnectCommit(t), UpToDateConnect(txn[t]),
           NEW e \in LexicalEntry
    PROVE  TagsOf(e)' = IF e \in txn[t].group THEN txn[t].tags ELSE TagsOf(e)
<1>1. txn[t].pc = "open" /\ txn[t].op = "connect" /\ entity' = entity \cup NewRows(t)
  BY DEF ConnectCommit
<1>2. CASE e \notin txn[t].group
  BY <1>1, <1>2 DEF TagsOf, NewRows
<1>3. CASE e \in txn[t].group
  <2>1. TagsOf(e)' \subseteq txn[t].tags
    BY <1>1, <1>3 DEF TagsOf, NewRows, UpToDateConnect
  <2>2. ASSUME NEW g \in txn[t].tags PROVE g \in TagsOf(e)'
    <3>1. CASE \E y \in txn[t].rows : y.parent = e /\ y.content = g
      <4>1. txn[t].rows \subseteq entity
        BY DEF UpToDateConnect, FirstRows
      <4>2. QED
        BY <1>1, <3>1, <4>1 DEF TagsOf
    <3>2. CASE \A y \in txn[t].rows : ~(y.parent = e /\ y.content = g)
      <4>1. [parent |-> e, content |-> g, by |-> t] \in NewRows(t)
        BY <1>3, <3>2 DEF NewRows
      <4>2. QED
        BY <1>1, <4>1 DEF TagsOf
    <3>3. QED
      BY <3>1, <3>2
  <2>3. QED
    BY <1>3, <2>1, <2>2
<1>4. QED
  BY <1>2, <1>3

LEMMA TagsAfterDelete ==
    ASSUME NEW t \in Txn, DeleteCommit(t), UpToDateDelete(txn[t]), NEW e \in LexicalEntry
    PROVE  TagsOf(e)' = IF e = txn[t].lex THEN {} ELSE TagsOf(e)
BY DEF DeleteCommit, UpToDateDelete, TagsOf

(***************************************************************************)
(* SerialFacts is inductive.  The steps that read establish that what the    *)
(* request holds is up to date; the steps that write need it, and leave no *)
(* request open.                                                           *)
(***************************************************************************)
LEMMA AnswerKept == [Next]_vars => concurrent' = concurrent
BY DEF Next, vars, ConnectBegin, ConnectCommit, DeleteBegin, DeleteCommit

LEMMA ConnectBeginStep ==
    ASSUME SerialFacts, ~concurrent, NEW t \in Txn, NEW user \in User,
           NEW conn \in (SUBSET LexicalEntry) \ {{}}, ConnectBegin(t, user, conn)
    PROVE  SerialFacts'
<1> DEFINE found == UNION {find_all_tags(e) : e \in conn}
<1>1. TypeOK /\ UniformTags /\ OneRow
  BY DEF SerialFacts
<1>2. /\ UNCHANGED <<entity, accepted, published>>
      /\ txn[t] = Idle
      /\ \A s \in Txn : txn[s].pc # "open"
  BY DEF ConnectBegin, MayBegin
<1>3. PICK tags \in SUBSET Tag, group \in SUBSET LexicalEntry, rows \in SUBSET Entity :
        /\ \/ found # {} /\ tags = found
           \/ found = {} /\ \E g \in Tag \ drawn : tags = {g}
        /\ group = find_lexical_entries_by_tags(tags) \cup conn
        /\ rows \in FirstRows(group, tags)
        /\ txn' = [txn EXCEPT ![t] =
                     [pc |-> "open", op |-> "connect", user |-> user, conn |-> conn,
                      group |-> group, tags |-> tags, rows |-> rows]]
        /\ drawn' = drawn \cup tags
        /\ txn'[t] \in ConnectTxn
  BY <1>1, BeginConnect
<1> DEFINE x == [pc |-> "open", op |-> "connect", user |-> user, conn |-> conn,
                 group |-> group, tags |-> tags, rows |-> rows]
<1>4. txn'[t] = x /\ \A s \in Txn : s # t => txn'[s] = txn[s]
  BY <1>1, <1>3 DEF TypeOK
<1>5. TypeOK'
  BY <1>1, TypeStep DEF Next
<1>6. \A e \in conn : find_all_tags(e) = TagsOf(e)
  BY <1>1, UniformIsClosed
<1>7. found = UNION {TagsOf(e) : e \in conn}
  BY <1>6
<1>8. \A e \in conn : TagsOf(e) \subseteq tags
  BY <1>3, <1>7
<1>9. /\ \A e \in group : TagsOf(e) \subseteq tags
      /\ \A e \in group : e \in UNION {GroupOf(c) : c \in conn}
  <2>1. CASE found # {} /\ tags = found
    <3>1. ASSUME NEW e \in find_lexical_entries_by_tags(tags)
          PROVE  \E c \in conn : TagsOf(e) = TagsOf(c) /\ e \in GroupOf(c)
      <4>1. PICK c \in conn : TagsOf(e) \cap TagsOf(c) # {}
        BY <2>1, <3>1, <1>7 DEF find_lexical_entries_by_tags
      <4>2. e \in LexicalEntry /\ c \in LexicalEntry
        BY DEF find_lexical_entries_by_tags
      <4>3. TagsOf(e) = TagsOf(c)
        BY <1>1, <4>1, <4>2 DEF UniformTags
      <4>4. e \in GroupOf(c)
        BY <4>1, <4>2 DEF GroupOf
      <4>5. QED
        BY <4>3, <4>4
    <3>2. \A c \in conn : c \in GroupOf(c)
      BY DEF GroupOf
    <3>3. QED
      BY <1>3, <1>8, <3>1, <3>2
  <2>2. CASE found = {} /\ \E g \in Tag \ drawn : tags = {g}
    <3>1. find_lexical_entries_by_tags(tags) = {}
      BY <2>2 DEF SerialFacts, find_lexical_entries_by_tags, TagsOf
    <3>2. \A c \in conn : c \in GroupOf(c)
      BY DEF GroupOf
    <3>3. QED
      BY <1>3, <1>8, <3>1, <3>2
  <2>3. QED
    BY <1>3, <2>1, <2>2
<1>10. tags # {}
  BY <1>3
<1>12. UpToDateConnect(txn[t])'
  <2>1. \A e \in LexicalEntry : TagsOf(e)' = TagsOf(e) /\ GroupOf(e)' = GroupOf(e)
    BY <1>2 DEF TagsOf, GroupOf
  <2>2. find_lexical_entries_by_tags(tags)' = find_lexical_entries_by_tags(tags)
    BY <1>2 DEF find_lexical_entries_by_tags, TagsOf
  <2>3. FirstRows(group, tags)' = FirstRows(group, tags)
    BY <1>2 DEF FirstRows, TagsOf
  <2>4. /\ txn'[t].conn = conn /\ txn'[t].tags = tags
        /\ txn'[t].group = group /\ txn'[t].rows = rows
    BY <1>4
  <2>5. /\ conn # {} /\ tags # {}
        /\ \A e \in conn : TagsOf(e)' \subseteq tags
        /\ \A e \in group : TagsOf(e)' \subseteq tags
    BY <1>3, <1>8, <1>9, <1>10, <2>1
  <2>6. \A e \in group : e \in UNION {GroupOf(c)' : c \in conn}
    BY <1>9, <2>1
  <2>7. group = find_lexical_entries_by_tags(tags)' \cup conn
    BY <1>3, <2>2
  <2>8. rows \in FirstRows(group, tags)'
    BY <1>3, <2>3
  <2>9. FirstRows(txn[t].group, txn[t].tags)' = FirstRows(group, tags)'
    BY <2>4 DEF FirstRows
  <2>10. find_lexical_entries_by_tags(txn[t].tags)' = find_lexical_entries_by_tags(tags)'
    BY <2>4 DEF find_lexical_entries_by_tags
  <2>11. QED
    BY <2>4, <2>5, <2>6, <2>7, <2>8, <2>9, <2>10 DEF UpToDateConnect
<1>13. UniformTags' /\ OneRow'
  BY <1>1, <1>2 DEF UniformTags, OneRow, TagsOf
<1>14. \A y \in entity' : y.content \in drawn'
  BY <1>2, <1>3 DEF SerialFacts
<1>15. \A s \in Txn : txn'[s].pc = "open" => s = t
  BY <1>2, <1>4
<1>16. QED
  BY <1>3, <1>4, <1>5, <1>12, <1>13, <1>14, <1>15 DEF SerialFacts

LEMMA DeleteBeginStep ==
    ASSUME SerialFacts, ~concurrent, NEW t \in Txn, NEW lex \in LexicalEntry,
           DeleteBegin(t, lex)
    PROVE  SerialFacts'
<1> DEFINE x == [pc |-> "open", op |-> "delete", lex |-> lex,
                 rows |-> {y \in entity : y.parent = lex}]
<1>1. TypeOK /\ UniformTags /\ OneRow
  BY DEF SerialFacts
<1>2. /\ UNCHANGED <<entity, accepted, published, drawn>>
      /\ TagsOf(lex) # {}
      /\ \A s \in Txn : txn[s].pc # "open"
      /\ txn' = [txn EXCEPT ![t] = x]
  BY DEF DeleteBegin, MayBegin
<1>3. txn'[t] = x /\ \A s \in Txn : s # t => txn'[s] = txn[s]
  BY <1>1, <1>2 DEF TypeOK
<1>4. TypeOK'
  BY <1>1, TypeStep DEF Next
<1>5. UpToDateDelete(txn[t])'
  BY <1>2, <1>3 DEF UpToDateDelete, TagsOf
<1>6. UniformTags' /\ OneRow' /\ \A y \in entity' : y.content \in drawn'
  BY <1>1, <1>2 DEF UniformTags, OneRow, TagsOf, SerialFacts
<1>7. \A s \in Txn : txn'[s].pc = "open" => s = t
  BY <1>2, <1>3
<1>8. QED
  BY <1>3, <1>4, <1>5, <1>6, <1>7 DEF SerialFacts

(* After a commit no request is open. *)
LEMMA NoneOpen ==
    ASSUME SerialFacts, NEW t \in Txn, txn[t].pc = "open",
           txn' = [txn EXCEPT ![t].pc = "done"]
    PROVE  \A s \in Txn : txn'[s].pc # "open"
<1>1. \A s \in Txn : s # t => txn'[s] = txn[s] /\ txn[s].pc # "open"
  BY DEF SerialFacts, TypeOK
<1>2. txn'[t] = [txn[t] EXCEPT !.pc = "done"]
  BY DEF SerialFacts, TypeOK
<1>3. txn[t] \in ConnectTxn \cup DeleteTxn
  BY DEF SerialFacts, TypeOK, Idle
<1>4. txn'[t].pc = "done"
  BY <1>2, <1>3 DEF ConnectTxn, DeleteTxn
<1>5. QED
  BY <1>1, <1>4

LEMMA ConnectCommitStep ==
    ASSUME SerialFacts, NEW t \in Txn, ConnectCommit(t)
    PROVE  SerialFacts'
<1>1. TypeOK /\ UniformTags /\ OneRow /\ UpToDateConnect(txn[t])
  BY DEF SerialFacts, ConnectCommit
<1>2. TypeOK'
  BY <1>1, TypeStep DEF Next
<1>3. UniformTags'
  <2>1. ASSUME NEW e \in LexicalEntry, NEW f \in LexicalEntry,
               TagsOf(e)' \cap TagsOf(f)' # {}
        PROVE  TagsOf(e)' = TagsOf(f)'
    <3>1. \A d \in LexicalEntry :
            TagsOf(d)' = IF d \in txn[t].group THEN txn[t].tags ELSE TagsOf(d)
      BY <1>1, TagsAfterConnect
    <3>2. \A d \in LexicalEntry : d \notin txn[t].group => TagsOf(d) \cap txn[t].tags = {}
      BY <1>1 DEF UpToDateConnect, find_lexical_entries_by_tags
    <3>3. QED
      BY <2>1, <3>1, <3>2, <1>1 DEF UniformTags
  <2>2. QED
    BY <2>1 DEF UniformTags
<1>4. OneRow'
  <2>1. SUFFICES ASSUME NEW x \in entity', NEW y \in entity',
                        x.parent = y.parent, x.content = y.content
                 PROVE  x = y
    BY DEF OneRow
  <2>2. entity' = entity \cup NewRows(t)
    BY DEF ConnectCommit
  <2>3. CASE x \in entity /\ y \in entity
    BY <1>1, <2>1, <2>3 DEF OneRow
  <2>4. CASE x \in NewRows(t) /\ y \in NewRows(t)
    BY <2>1, <2>4 DEF NewRows
  <2>5. ASSUME NEW u \in entity, NEW v \in NewRows(t),
               u.parent = v.parent, u.content = v.content
        PROVE  FALSE
    <3>1. v.parent \in txn[t].group /\ v.content \in txn[t].tags
      BY DEF NewRows
    <3>2. v.content \in TagsOf(v.parent)
      BY <2>5 DEF TagsOf
    <3>3. \E z \in txn[t].rows : z.parent = v.parent /\ z.content = v.content
      BY <1>1, <3>1, <3>2 DEF UpToDateConnect, FirstRows
    <3>4. QED
      BY <3>3 DEF NewRows
  <2>6. QED
    BY <2>1, <2>2, <2>3, <2>4, <2>5
<1>5. \A x \in entity' : x.content \in drawn'
  BY <1>1 DEF SerialFacts, ConnectCommit, NewRows, UpToDateConnect
<1>6. \A s \in Txn : txn'[s].pc # "open"
  BY NoneOpen DEF ConnectCommit
<1>7. QED
  BY <1>2, <1>3, <1>4, <1>5, <1>6 DEF SerialFacts

LEMMA DeleteCommitStep ==
    ASSUME SerialFacts, NEW t \in Txn, DeleteCommit(t)
    PROVE  SerialFacts'
<1>1. TypeOK /\ UniformTags /\ OneRow /\ UpToDateDelete(txn[t])
  BY DEF SerialFacts, DeleteCommit
<1>2. TypeOK'
  BY <1>1, TypeStep DEF Next
<1>3. \A e \in LexicalEntry : TagsOf(e)' = IF e = txn[t].lex THEN {} ELSE TagsOf(e)
  BY <1>1, TagsAfterDelete
<1>4. UniformTags'
  BY <1>1, <1>3 DEF UniformTags
<1>5. OneRow' /\ \A x \in entity' : x.content \in drawn'
  BY <1>1 DEF OneRow, DeleteCommit, SerialFacts
<1>6. \A s \in Txn : txn'[s].pc # "open"
  BY NoneOpen DEF DeleteCommit
<1>7. QED
  BY <1>2, <1>4, <1>5, <1>6 DEF SerialFacts

LEMMA SerialStep ==
    ASSUME ~concurrent, SerialFacts, [Next]_vars
    PROVE  SerialFacts'
<1>1. CASE UNCHANGED vars
  <2>1. UNCHANGED <<entity, accepted, published, drawn, txn, concurrent>>
    BY <1>1 DEF vars
  <2>2. TypeOK' /\ UniformTags' /\ OneRow'
    BY <2>1 DEF SerialFacts, TypeOK, UniformTags, OneRow, TagsOf
  <2>3. ASSUME NEW t \in Txn
        PROVE  /\ UpToDateConnect(txn[t])' = UpToDateConnect(txn[t])
               /\ UpToDateDelete(txn[t])' = UpToDateDelete(txn[t])
    BY <2>1 DEF UpToDateConnect, UpToDateDelete, GroupOf, FirstRows,
                find_lexical_entries_by_tags, TagsOf
  <2>4. QED
    BY <2>1, <2>2, <2>3 DEF SerialFacts
<1>2. QED
  BY <1>1, ConnectBeginStep, ConnectCommitStep, DeleteBeginStep, DeleteCommitStep DEF Next

(***************************************************************************)
(* The inductive invariant of requests that do not overlap: groups are     *)
(* uniform, rows are not doubled, and what the open request has read still *)
(* describes the tables.                                                   *)
(***************************************************************************)
LEMMA SerialInvariant == Spec => []SerialInv
<1>1. Init => SerialInv
  <2>1. Init => TypeOK /\ UniformTags /\ OneRow
    BY DEF Init, TypeOK, UniformTags, OneRow, TagsOf
  <2>2. Init => SerialFacts
    BY <2>1 DEF Init, Idle, SerialFacts
  <2>3. QED
    BY <2>2 DEF SerialInv
<1>2. SerialInv /\ [Next]_vars => SerialInv'
  BY SerialStep, AnswerKept DEF SerialInv
<1>3. QED
  BY <1>1, <1>2, PTL DEF Spec

(***************************************************************************)
(* For any number of entries, tags, users and requests: connecting and     *)
(* deleting requests that do not overlap keep every group uniform.         *)
(***************************************************************************)
THEOREM SerialUniform == Spec => []Uniform
<1>1. SerialInv => Uniform
  BY DEF SerialInv, SerialFacts, Uniform
<1>2. QED
  BY <1>1, SerialInvariant, PTL

(* Requests that do not overlap never give an entry the same tag twice. *)
THEOREM SerialOneRow == Spec => []OneRowPerTag
<1>1. SerialInv => OneRowPerTag
  BY DEF SerialInv, SerialFacts, OneRowPerTag
<1>2. QED
  BY <1>1, SerialInvariant, PTL

(***************************************************************************)
(* Without overlap a DeleteGroupingTags that commits leaves its entry with *)
(* no tag.                                                                 *)
(***************************************************************************)
THEOREM SerialTakenOut == Spec => TakenOut
<1>1. ASSUME SerialInv, [Next]_vars, NEW t \in Txn,
             ~concurrent, txn[t] \in DeleteTxn, txn'[t] # txn[t]
      PROVE  TagsOf(txn[t].lex)' = {}
  <2>1. SerialFacts /\ TypeOK
    BY <1>1 DEF SerialInv, SerialFacts
  <2>2. txn[t] # Idle
    BY <1>1 DEF DeleteTxn, Idle
  <2>3. DeleteCommit(t)
    <3>1. \A s \in Txn : txn' = [txn EXCEPT ![s].pc = "done"] => s = t
      BY <1>1, <2>1 DEF TypeOK
    <3>2. txn[t].op = "delete"
      BY <1>1 DEF DeleteTxn
    <3>3. ASSUME NEW s \in Txn, NEW user \in User, NEW conn \in SUBSET LexicalEntry,
                 ConnectBegin(s, user, conn)
          PROVE  s = t
      BY <1>1, <2>1, <3>3 DEF ConnectBegin, TypeOK
    <3>4. ASSUME NEW s \in Txn, NEW lex \in LexicalEntry, DeleteBegin(s, lex)
          PROVE  s = t
      BY <1>1, <2>1, <3>4 DEF DeleteBegin, TypeOK
    <3>5. QED
      BY <1>1, <2>2, <3>1, <3>2, <3>3, <3>4
      DEF Next, vars, ConnectBegin, DeleteBegin, MayBegin, ConnectCommit, DeleteCommit
  <2>4. UpToDateDelete(txn[t])
    BY <2>1, <2>3 DEF SerialFacts, DeleteCommit
  <2>5. txn[t].lex \in LexicalEntry
    BY <1>1 DEF DeleteTxn
  <2>6. QED
    BY <2>3, <2>4, <2>5 DEF DeleteCommit, UpToDateDelete, TagsOf
<1>2. ASSUME SerialInv, [Next]_vars
      PROVE  [\A t \in Txn : ~concurrent /\ txn[t] \in DeleteTxn /\ txn'[t] # txn[t]
                              => TagsOf(txn[t].lex)' = {}]_vars
  BY <1>1, <1>2
<1>3. QED
  BY <1>2, SerialInvariant, PTL DEF Spec, TakenOut

-----------------------------------------------------------------------------
(* The effect of each commit on the groups. *)
LEMMA GroupsAfterConnect ==
    ASSUME SerialFacts, NEW t \in Txn, ConnectCommit(t)
    PROVE  /\ txn[t].conn \in (SUBSET LexicalEntry) \ {{}}
           /\ txn[t].group = UNION {GroupOf(c) : c \in txn[t].conn}
           /\ \A e \in LexicalEntry :
                GroupOf(e)' = IF e \in txn[t].group THEN txn[t].group ELSE GroupOf(e)
<1>1. TypeOK /\ UpToDateConnect(txn[t])
  BY DEF SerialFacts, ConnectCommit
<1>2. txn[t].conn \in (SUBSET LexicalEntry) \ {{}} /\ txn[t].group \in SUBSET LexicalEntry
  BY <1>1, OpenConnect DEF ConnectCommit, UpToDateConnect
<1>3. \A d \in LexicalEntry :
        TagsOf(d)' = IF d \in txn[t].group THEN txn[t].tags ELSE TagsOf(d)
  BY <1>1, TagsAfterConnect
<1>4. \A d \in LexicalEntry : d \notin txn[t].group => TagsOf(d) \cap txn[t].tags = {}
  BY <1>1 DEF UpToDateConnect, find_lexical_entries_by_tags
<1>5. \A d \in txn[t].group : TagsOf(d) \subseteq txn[t].tags
  BY <1>1 DEF UpToDateConnect
<1>6. \A c \in txn[t].conn : c \in txn[t].group
  BY <1>1 DEF UpToDateConnect
<1>7. ASSUME NEW c \in txn[t].conn, NEW f \in GroupOf(c) PROVE f \in txn[t].group
  BY <1>2, <1>4, <1>5, <1>6 DEF GroupOf
<1>8. txn[t].group = UNION {GroupOf(c) : c \in txn[t].conn}
  BY <1>1, <1>7 DEF UpToDateConnect
<1>9. ASSUME NEW e \in LexicalEntry
      PROVE  GroupOf(e)' = IF e \in txn[t].group THEN txn[t].group ELSE GroupOf(e)
  <2>1. CASE e \in txn[t].group
    <3>1. txn[t].tags # {}
      BY <1>1 DEF UpToDateConnect
    <3>2. QED
      BY <2>1, <3>1, <1>2, <1>3, <1>4 DEF GroupOf
  <2>2. CASE e \notin txn[t].group
    <3>1. \A f \in LexicalEntry :
            TagsOf(e)' \cap TagsOf(f)' # {} <=> TagsOf(e) \cap TagsOf(f) # {}
      BY <2>2, <1>3, <1>4, <1>5
    <3>2. QED
      BY <2>2, <3>1 DEF GroupOf
  <2>3. QED
    BY <2>1, <2>2
<1>10. QED
  BY <1>2, <1>8, <1>9

LEMMA GroupsAfterDelete ==
    ASSUME SerialFacts, NEW t \in Txn, DeleteCommit(t)
    PROVE  /\ txn[t].lex \in LexicalEntry
           /\ \A e \in LexicalEntry :
                GroupOf(e)' = IF e = txn[t].lex THEN {txn[t].lex} ELSE GroupOf(e) \ {txn[t].lex}
<1>1. TypeOK /\ UpToDateDelete(txn[t])
  BY DEF SerialFacts, DeleteCommit
<1>2. txn[t].lex \in LexicalEntry
  BY <1>1, OpenDelete DEF DeleteCommit
<1>3. \A e \in LexicalEntry : TagsOf(e)' = IF e = txn[t].lex THEN {} ELSE TagsOf(e)
  BY <1>1, TagsAfterDelete
<1>4. QED
  BY <1>2, <1>3 DEF GroupOf

(***************************************************************************)
(* Connecting and deleting requests that do not overlap implement the      *)
(* groups of CognateGroups: a step that reads changes no group, and a step *)
(* that writes is exactly one Connect or one Leave.                        *)
(***************************************************************************)
THEOREM SerialImplementsGroups == Spec => ImplementsGroups
<1>1. Init => Groups!Init
  BY DEF Init, Groups!Init, groups, GroupOf, TagsOf
<1>2. ASSUME SerialFacts, [Next]_vars PROVE [Groups!Next]_groups
  <2>1. CASE UNCHANGED entity
    BY <2>1 DEF groups, GroupOf, TagsOf
  <2>2. ASSUME NEW t \in Txn, ConnectCommit(t) PROVE Groups!Next
    <3>1. /\ txn[t].conn \in (SUBSET LexicalEntry) \ {{}}
          /\ txn[t].group = UNION {GroupOf(c) : c \in txn[t].conn}
          /\ \A e \in LexicalEntry :
               GroupOf(e)' = IF e \in txn[t].group THEN txn[t].group ELSE GroupOf(e)
      BY <1>2, <2>2, GroupsAfterConnect
    <3>2. UNION {GroupOf(c) : c \in txn[t].conn} = UNION {groups[c] : c \in txn[t].conn}
      <4>1. \A c \in txn[t].conn : groups[c] = GroupOf(c)
        BY <3>1 DEF groups
      <4>2. QED
        BY <4>1
    <3>3. groups' = [e \in LexicalEntry |-> GroupOf(e)'] /\ \A e \in LexicalEntry : groups[e] = GroupOf(e)
      BY DEF groups
    <3>4. Groups!Connect(txn[t].conn)
      BY <3>1, <3>2, <3>3 DEF Groups!Connect
    <3>5. QED
      BY <3>1, <3>4 DEF Groups!Next
  <2>3. ASSUME NEW t \in Txn, DeleteCommit(t) PROVE Groups!Next
    <3>1. /\ txn[t].lex \in LexicalEntry
          /\ \A e \in LexicalEntry :
               GroupOf(e)' = IF e = txn[t].lex THEN {txn[t].lex}
                                               ELSE GroupOf(e) \ {txn[t].lex}
      BY <1>2, <2>3, GroupsAfterDelete
    <3>2. groups' = [e \in LexicalEntry |-> GroupOf(e)']
      BY DEF groups
    <3>3. \A e \in LexicalEntry : groups[e] = GroupOf(e)
      BY DEF groups
    <3>4. Groups!Leave(txn[t].lex)
      BY <3>1, <3>2, <3>3 DEF Groups!Leave
    <3>5. QED
      BY <3>1, <3>4 DEF Groups!Next
  <2>4. QED
    BY <1>2, <2>1, <2>2, <2>3 DEF Next, vars, ConnectBegin, DeleteBegin
<1>3. SerialInv /\ [Next]_vars => [~concurrent => Groups!Next]_groups
  BY <1>2 DEF SerialInv
<1>4. QED
  BY <1>1, <1>3, SerialInvariant, PTL DEF Spec, ImplementsGroups

-----------------------------------------------------------------------------
(* Nobody has asked to take an entry out. *)
NoDelete == \A t \in Txn : txn[t] \notin DeleteTxn

(* What a connecting request has read is still in the tables, and every entry of its *)
(* group carries all its tags once it has committed: rows are only added.            *)
Linking(t) ==
    txn[t] \in ConnectTxn =>
        /\ txn[t].tags # {} /\ txn[t].conn \subseteq txn[t].group
        /\ txn[t].pc = "open" => txn[t].rows \subseteq entity
        /\ txn[t].pc = "done" => \A e \in txn[t].group : txn[t].tags \subseteq TagsOf(e)

LinkInv == TypeOK /\ (NoDelete => \A t \in Txn : Linking(t))

LEMMA MoreTags ==
    ASSUME entity \subseteq entity'
    PROVE  \A e \in LexicalEntry : TagsOf(e) \subseteq TagsOf(e)'
BY DEF TagsOf

(* The record of a request that neither begins nor commits keeps its meaning. *)
LEMMA LinkingKept ==
    ASSUME TypeOK, NEW t \in Txn, Linking(t), txn'[t] = txn[t], entity \subseteq entity'
    PROVE  Linking(t)'
<1>1. SUFFICES ASSUME txn[t] \in ConnectTxn PROVE Linking(t)'
  BY DEF Linking
<1>2. txn[t].group \subseteq LexicalEntry
  BY <1>1 DEF ConnectTxn
<1>3. \A e \in txn[t].group : TagsOf(e) \subseteq TagsOf(e)'
  BY <1>2, MoreTags
<1>4. QED
  BY <1>1, <1>3 DEF Linking

LEMMA LinkingBegins ==
    ASSUME TypeOK, NEW t \in Txn, NEW user \in User, NEW conn \in (SUBSET LexicalEntry) \ {{}},
           ConnectBegin(t, user, conn)
    PROVE  Linking(t)' /\ entity' = entity /\ \A s \in Txn : s # t => txn'[s] = txn[s]
<1>1. PICK tags \in SUBSET Tag, group \in SUBSET LexicalEntry, rows \in SUBSET Entity :
        /\ LET found == UNION {find_all_tags(e) : e \in conn}
           IN  \/ found # {} /\ tags = found
               \/ found = {} /\ \E g \in Tag \ drawn : tags = {g}
        /\ group = find_lexical_entries_by_tags(tags) \cup conn
        /\ rows \in FirstRows(group, tags)
        /\ txn' = [txn EXCEPT ![t] =
                     [pc |-> "open", op |-> "connect", user |-> user, conn |-> conn,
                      group |-> group, tags |-> tags, rows |-> rows]]
  BY BeginConnect
<1>2. tags # {} /\ conn \subseteq group /\ rows \subseteq entity
  BY <1>1 DEF FirstRows
<1>3. /\ txn'[t] = [pc |-> "open", op |-> "connect", user |-> user, conn |-> conn,
                    group |-> group, tags |-> tags, rows |-> rows]
      /\ \A s \in Txn : s # t => txn'[s] = txn[s]
  BY <1>1 DEF TypeOK
<1>4. entity' = entity
  BY DEF ConnectBegin
<1>5. QED
  BY <1>2, <1>3, <1>4 DEF Linking

(* A request that connects gives every entry of its group every tag it lacks. *)
LEMMA LinkingCommits ==
    ASSUME TypeOK, NEW t \in Txn, Linking(t), ConnectCommit(t)
    PROVE  Linking(t)'
<1>1. txn[t] \in ConnectTxn /\ txn[t].pc = "open"
  BY OpenConnect DEF ConnectCommit
<1>2. /\ txn'[t].tags = txn[t].tags /\ txn'[t].conn = txn[t].conn
      /\ txn'[t].group = txn[t].group /\ txn'[t].pc = "done"
  BY <1>1 DEF ConnectCommit, TypeOK, ConnectTxn
<1>3. entity' = entity \cup NewRows(t) /\ txn[t].rows \subseteq entity
  BY <1>1 DEF ConnectCommit, Linking
<1>4. ASSUME NEW e \in txn[t].group, NEW g \in txn[t].tags PROVE g \in TagsOf(e)'
  <2>1. CASE \E y \in txn[t].rows : y.parent = e /\ y.content = g
    BY <1>3, <2>1 DEF TagsOf
  <2>2. CASE ~\E y \in txn[t].rows : y.parent = e /\ y.content = g
    <3>1. [parent |-> e, content |-> g, by |-> t] \in NewRows(t)
      BY <2>2 DEF NewRows
    <3>2. QED
      BY <1>3, <3>1 DEF TagsOf
  <2>3. QED
    BY <2>1, <2>2
<1>5. QED
  BY <1>1, <1>2, <1>4 DEF Linking

LEMMA LinkStep == LinkInv /\ [Next]_vars => LinkInv'
<1> SUFFICES ASSUME LinkInv, [Next]_vars, NoDelete' PROVE \A s \in Txn : Linking(s)'
  BY TypeStep DEF LinkInv
<1>1. TypeOK
  BY DEF LinkInv
<1>2. CASE UNCHANGED vars
  <2>1. NoDelete
    BY <1>2 DEF vars, NoDelete
  <2>2. QED
    BY <1>2, <2>1 DEF vars, LinkInv, Linking, TagsOf
<1>3. ASSUME NEW t \in Txn, NEW user \in User, NEW conn \in (SUBSET LexicalEntry) \ {{}},
             ConnectBegin(t, user, conn)
      PROVE  \A s \in Txn : Linking(s)'
  <2>1. Linking(t)' /\ entity' = entity /\ \A s \in Txn : s # t => txn'[s] = txn[s]
    BY <1>1, <1>3, LinkingBegins
  <2>2. txn[t] \notin DeleteTxn
    BY <1>3 DEF ConnectBegin, MayBegin, DeleteTxn, Idle
  <2>3. NoDelete
    BY <2>1, <2>2 DEF NoDelete
  <2>4. QED
    BY <1>1, <2>1, <2>3, LinkingKept DEF LinkInv
<1>4. ASSUME NEW t \in Txn, ConnectCommit(t) PROVE \A s \in Txn : Linking(s)'
  <2>1. txn[t] \in ConnectTxn /\ txn[t] \notin DeleteTxn
    BY <1>1, <1>4, OpenConnect DEF ConnectCommit, DeleteTxn
  <2>2. entity \subseteq entity' /\ \A s \in Txn : s # t => txn'[s] = txn[s]
    BY <1>1, <1>4 DEF ConnectCommit, TypeOK
  <2>3. NoDelete
    BY <2>1, <2>2 DEF NoDelete
  <2>4. QED
    BY <1>1, <1>4, <2>2, <2>3, LinkingKept, LinkingCommits DEF LinkInv
<1>5. ASSUME NEW t \in Txn, NEW lex \in LexicalEntry, DeleteBegin(t, lex) PROVE FALSE
  <2>1. txn'[t] = [pc |-> "open", op |-> "delete", lex |-> lex,
                   rows |-> {x \in entity : x.parent = lex}]
    BY <1>1, <1>5 DEF DeleteBegin, TypeOK
  <2>2. txn'[t] \in DeleteTxn
    BY <1>1, <2>1 DEF DeleteTxn, TypeOK
  <2>3. QED
    BY <2>2 DEF NoDelete
<1>6. ASSUME NEW t \in Txn, DeleteCommit(t) PROVE FALSE
  <2>1. [txn[t] EXCEPT !.pc = "done"] \in DeleteTxn
    BY <1>1, <1>6, OpenDelete DEF DeleteCommit
  <2>2. QED
    BY <1>1, <1>6, <2>1 DEF DeleteCommit, TypeOK, NoDelete
<1>7. QED
  BY <1>2, <1>3, <1>4, <1>5, <1>6 DEF Next

(***************************************************************************)
(* For any number of requests and however they overlap: as long as nobody  *)
(* has asked to take an entry out, the entries that one request has        *)
(* connected are found from one another.                                   *)
(***************************************************************************)
THEOREM ConnectedStay == Spec => []StaysConnected
<1>1. Init => LinkInv
  BY DEF Init, LinkInv, TypeOK, Linking, ConnectTxn, Idle
<1>2. LinkInv => StaysConnected
  <2> SUFFICES ASSUME LinkInv, NoDelete, NEW t \in Txn,
                      txn[t] \in ConnectTxn, txn[t].pc = "done",
                      NEW e \in txn[t].conn, NEW f \in txn[t].conn
               PROVE  f \in find_lexical_entries_by_tags(find_all_tags(e))
    BY DEF StaysConnected, NoDelete
  <2>1. Linking(t) /\ entity \in SUBSET Entity
    BY DEF LinkInv, TypeOK
  <2>2. e \in LexicalEntry /\ f \in LexicalEntry
    BY DEF ConnectTxn
  <2>3. txn[t].tags # {} /\ txn[t].tags \subseteq TagsOf(e) /\ txn[t].tags \subseteq TagsOf(f)
    BY <2>1 DEF Linking
  <2>4. TagsOf(e) \subseteq find_all_tags(e)
    BY <2>1, <2>2, TagsOfType, ClosureIsLeast DEF find_all_tags
  <2>5. QED
    BY <2>2, <2>3, <2>4 DEF find_lexical_entries_by_tags
<1>3. QED
  BY <1>1, <1>2, LinkStep, PTL DEF Spec
=============================================================================
