------------------------- MODULE MergeEntriesProofs -------------------------
(***************************************************************************)
(* The properties of MergeEntries for any number of entries, entities and  *)
(* merges: types; originals in one place while requests come one after     *)
(* another; that overlapping merges take one shared text at most; and that *)
(* a merge keeps everything, step by step, if nothing overlaps it.         *)
(***************************************************************************)
EXTENDS MergeEntries, TLAPS

Transaction ==
    [pc : {"idle", "checked", "merging", "failed", "over"},
     group : SUBSET Entry, todo : SUBSET Entity,
     loaded : Table, rows : Table, retired : SUBSET Entry]

LEMMA FirstIn == ASSUME NEW S, S # {} PROVE First(S) \in S
  BY DEF First

LEMMA GoesTyped ==
  ASSUME TypeOK, NEW t \in Merge, NEW new \in Transaction, Goes(t, new)
  PROVE  TypeOK'
  BY DEF TypeOK, Goes, Transaction

LEMMA IdleTyped == Idle \in Transaction
  BY DEF Idle, Nothing, Transaction, Table

LEMMA FreshTyped ==
  ASSUME NEW x \in Entry, NEW i \in Item, NEW a \in BOOLEAN, NEW p \in BOOLEAN
  PROVE  Fresh(x, i, a, p) \in Row
  BY DEF Fresh, Row

LEMMA RowsTyped ==
  ASSUME TypeOK, NEW new \in Table, MayEdit, Rows(new)
  PROVE  TypeOK'
  BY MaxEditsAssumption DEF TypeOK, Rows, MayEdit

LEMMA MergedTyped ==
  ASSUME NEW t \in Merge, NEW S, NEW i \in Item
  PROVE  Merged(t, S, i) \in Row
  <1> DEFINE equal == {entity[e] : e \in {f \in S : entity[f].item = i}}
             a == \E row \in equal : row.accepted
             p == IF t \in PublishAny THEN \E row \in equal : row.published
                                      ELSE \A row \in equal : row.published
             b == \E row \in equal : row.parts
  <1>1. Merged(t, S, i) = [Fresh(t, i, a, p) EXCEPT !.parts = b]
    BY DEF Merged
  <1>2. t \in Entry /\ a \in BOOLEAN /\ p \in BOOLEAN /\ b \in BOOLEAN
    BY DEF Entry
  <1> HIDE DEF a, p, b
  <1>3. Fresh(t, i, a, p) \in Row
    BY <1>2, FreshTyped
  <1> QED BY <1>1, <1>2, <1>3 DEF Row

(* A table that is not empty has a row. *)
LEMMA SomeRow == ASSUME NEW T \in Table, T # Nothing PROVE \E e \in Entity : T[e] # None
  BY DEF Table, Nothing

(* What a merge does while it runs is of its type. *)
LEMMA StepTyped ==
  ASSUME TypeOK, NEW t \in Merge,
         \/ \E G \in SUBSET Entry : CheckGroup(t, G)
         \/ Gather(t) \/ Load(t) \/ Mark(t) \/ Retire(t) \/ Redirect(t) \/ Abort(t)
  PROVE  TypeOK'
  <1>1. txn[t] \in Transaction /\ entity \in Table
    BY DEF TypeOK, Transaction
  <1>2. CASE \E G \in SUBSET Entry : CheckGroup(t, G)
    <2>1. PICK G \in SUBSET Entry : CheckGroup(t, G)
      BY <1>2
    <2>2. [txn[t] EXCEPT !.pc = "checked", !.group = G] \in Transaction
      BY <1>1 DEF Transaction
    <2> QED BY <2>1, <2>2, GoesTyped DEF CheckGroup
  <1>3. CASE Gather(t)
    <2> DEFINE S == {e \in Entity : Live(entity[e]) /\ entity[e].parent \in txn[t].group}
               Items == {entity[e].item : e \in S}
               Injective(f) == \A i, j \in DOMAIN f : f[i] = f[j] => i = j
               Draws == [Items -> Free]
               id == CHOOSE d \in Draws : Injective(d)
               new == [e \in Entity |->
                         IF \E i \in DOMAIN id : id[i] = e
                         THEN Merged(t, S, CHOOSE i \in DOMAIN id : id[i] = e) ELSE None]
    <2>1. \E d \in Draws : Injective(d)
      BY <1>3 DEF Gather
    <2>2. id \in Draws
      BY <2>1
    <2>3. \A i \in DOMAIN id : i \in Item
      BY <1>1, <2>2 DEF Live, Table, Row
    <2> HIDE DEF id
    <2>4. new \in Table
      <3> SUFFICES ASSUME NEW e \in Entity, \E i \in DOMAIN id : id[i] = e
                   PROVE  Merged(t, S, CHOOSE i \in DOMAIN id : id[i] = e) \in Row
        BY DEF Table
      <3>1. (CHOOSE i \in DOMAIN id : id[i] = e) \in Item
        BY <2>3
      <3> QED BY <3>1, MergedTyped
    <2> HIDE DEF new
    <2>5. [txn[t] EXCEPT !.pc = "merging", !.todo = S, !.rows = new] \in Transaction
      BY <1>1, <2>4 DEF Transaction
    <2>6. Goes(t, [txn[t] EXCEPT !.pc = "merging", !.todo = S, !.rows = new])
      BY <1>3 DEF Gather, new, id
    <2> QED BY <2>5, <2>6, GoesTyped
  <1>4. CASE Load(t)
    <2> DEFINE e == First(txn[t].todo)
               new == IF entity[e].merged_to THEN [txn[t] EXCEPT !.pc = "failed"]
                                             ELSE [txn[t] EXCEPT !.loaded[e] = entity[e]]
    <2>1. e \in Entity
      BY <1>1, <1>4, FirstIn DEF Load, Transaction
    <2> HIDE DEF e
    <2>2. new \in Transaction
      BY <1>1, <2>1 DEF Transaction, Table
    <2> QED BY <1>4, <2>2, GoesTyped DEF Load, e
  <1>5. CASE Mark(t)
    <2> DEFINE e == First(txn[t].todo)
               new == [txn[t] EXCEPT
                         !.rows[e] = [txn[t].loaded[e] EXCEPT !.mark = TRUE, !.merged_to = TRUE],
                         !.loaded[e] = None, !.todo = @ \ {e}]
    <2>1. e \in Entity /\ txn[t].loaded[e] # None
      BY <1>1, <1>5, FirstIn DEF Mark, Transaction
    <2> HIDE DEF e
    <2>2. [txn[t].loaded[e] EXCEPT !.mark = TRUE, !.merged_to = TRUE] \in Row
      BY <1>1, <2>1 DEF Transaction, Table, Row
    <2>3. new \in Transaction
      BY <1>1, <2>1, <2>2 DEF Transaction, Table
    <2> QED BY <1>5, <2>3, GoesTyped DEF Mark, e
  <1>6. CASE Retire(t)
    <2> DEFINE x == First(txn[t].group \ txn[t].retired)
               read == [l \in Entity |-> IF Live(Seen(t, l)) /\ Seen(t, l).item = x THEN Seen(t, l) ELSE None]
               new == [txn[t] EXCEPT !.retired = @ \cup {x}, !.loaded = read]
    <2>1. x \in Entry
      <3>1. txn[t].group \ txn[t].retired # {}
        BY <1>6 DEF Retire
      <3> QED BY <1>1, <3>1, FirstIn DEF Transaction
    <2>2. read \in Table
      BY <1>1 DEF Transaction, Table, Seen
    <2> HIDE DEF x, read
    <2>3. new \in Transaction
      BY <1>1, <2>1, <2>2 DEF Transaction
    <2> QED BY <1>6, <2>3, GoesTyped DEF Retire, x, read
  <1>7. CASE Redirect(t)
    <2> DEFINE l == First({e \in Entity : txn[t].loaded[e] # None})
               row == txn[t].loaded[l]
               n == First(Free)
    <2>1. l \in Entity /\ row # None
      <3>1. {e \in Entity : txn[t].loaded[e] # None} # {}
        BY <1>1, <1>7, SomeRow DEF Redirect, Transaction
      <3> QED BY <3>1, FirstIn
    <2>2. CASE row.parent \in txn[t].group
      BY <1>1, <1>7, <2>2, GoesTyped DEF Redirect, Transaction
    <2>3. CASE row.parent \notin txn[t].group
      <3> DEFINE old == [row EXCEPT !.mark = TRUE, !.merged_by = TRUE]
                 link == [row EXCEPT !.item = t, !.accepted = FALSE, !.published = FALSE, !.merged_by = FALSE]
                 new == [txn[t] EXCEPT !.rows = [@ EXCEPT ![l] = old, ![n] = link],
                                       !.loaded[l] = None,
                                       !.pc = IF row.parts THEN "failed" ELSE @]
      <3>1. Goes(t, new)
        BY <1>7, <2>3, Zenon DEF Redirect
      <3>2. row \in Row /\ t \in Item
        BY <1>1, <2>1 DEF Transaction, Table, Item, Entry
      <3> HIDE DEF l, row, n
      <3>3. old \in Row /\ link \in Row
        BY <3>2 DEF Row
      <3> HIDE DEF old, link
      <3>4. new \in Transaction
        BY <1>1, <2>1, <3>3 DEF Transaction, Table
      <3> QED BY <3>1, <3>4, GoesTyped
    <2> QED BY <2>2, <2>3
  <1>8. CASE Abort(t)
    <2>1. [Idle EXCEPT !.pc = "over"] \in Transaction
      BY IdleTyped DEF Transaction
    <2> QED BY <1>8, <2>1, GoesTyped DEF Abort
  <1> QED BY <1>2, <1>3, <1>4, <1>5, <1>6, <1>7, <1>8

LEMMA WrittenTyped ==
  ASSUME TypeOK, NEW t \in Merge
  PROVE  [e \in Entity |-> Written(t, e)] \in Table
  <1> SUFFICES ASSUME NEW e \in Entity PROVE Written(t, e) \in Row \cup {None}
    BY DEF Table
  <1> DEFINE row == txn[t].rows[e]
  <1>1. row \in Row \cup {None} /\ entity[e] \in Row \cup {None}
    BY DEF TypeOK, Table
  <1> QED BY <1>1 DEF Row, Written

LEMMA WritesTyped ==
  ASSUME TypeOK, NEW t \in Merge, Writes(t), spoiled' \subseteq spoiled \cup Leaves(t)
  PROVE  TypeOK'
  <1>1. Leaves(t) \subseteq Original
    BY DEF Leaves, TypeOK
  <1>2. entity' \in Table
    BY WrittenTyped DEF Writes
  <1>3. tree' \in [Entry -> SUBSET Original]
    BY <1>1 DEF Writes, TypeOK
  <1>4. merged_to' \in [Entry -> Merge \cup {None}]
    BY DEF Writes, TypeOK
  <1>5. deleted' \subseteq Entry /\ spoiled' \subseteq Original
    BY <1>1 DEF Writes, TypeOK
  <1>6. txn' \in [Merge -> Transaction]
    <2>1. [Idle EXCEPT !.pc = "over"] \in Transaction
      BY IdleTyped DEF Transaction
    <2> QED BY <2>1 DEF Writes, TypeOK, Transaction
  <1>7. took' \in [Merge -> SUBSET Entity]
    BY DEF Writes, TypeOK, Taken
  <1> QED BY <1>2, <1>3, <1>4, <1>5, <1>6, <1>7 DEF TypeOK, Writes, Transaction

(* What a request that is no merge makes of the entities. *)
LEMMA EditTyped ==
  ASSUME TypeOK,
         \/ \E x \in Entry, i \in Item, a, p \in BOOLEAN : CreateEntity(x, i, a, p)
         \/ \E e \in Entity :
              \/ \E a, p \in BOOLEAN : UpdateEntity(e, a, p)
              \/ \E i \in Text : UpdateEntityContent(e, i)
              \/ DeleteEntity(e)
         \/ \E x \in Entry : DeleteLexicalEntry(x)
  PROVE  TypeOK'
  <1>1. entity \in Table
    BY DEF TypeOK
  <1>2. ASSUME NEW x \in Entry, NEW i \in Item, NEW a \in BOOLEAN, NEW p \in BOOLEAN, CreateEntity(x, i, a, p)
        PROVE  TypeOK'
    <2>1. [entity EXCEPT ![First(Free)] = Fresh(x, i, a, p)] \in Table
      BY <1>1, FreshTyped DEF Table
    <2> QED BY <1>2, <2>1, RowsTyped DEF CreateEntity
  <1>3. ASSUME NEW e \in Entity, NEW a \in BOOLEAN, NEW p \in BOOLEAN, UpdateEntity(e, a, p)
        PROVE  TypeOK'
    <2>1. [entity EXCEPT ![e].accepted = a, ![e].published = p] \in Table
      BY <1>1, <1>3 DEF Table, Row, UpdateEntity
    <2> QED BY <1>3, <2>1, RowsTyped DEF UpdateEntity
  <1>4. ASSUME NEW e \in Entity, NEW i \in Text, UpdateEntityContent(e, i)
        PROVE  TypeOK'
    <2> DEFINE new == Fresh(entity[e].parent, i, entity[e].accepted, FALSE)
    <2>1. entity[e] \in Row
      BY <1>1, <1>4 DEF Table, Live, UpdateEntityContent
    <2>2. new \in Row
      BY <2>1, FreshTyped DEF Row, Item
    <2> HIDE DEF new
    <2>3. [entity EXCEPT ![e].mark = TRUE, ![First(Free)] = new] \in Table
      BY <1>1, <2>1, <2>2 DEF Table, Row
    <2> QED BY <1>4, <2>3, RowsTyped DEF UpdateEntityContent, new
  <1>5. ASSUME NEW e \in Entity, DeleteEntity(e)
        PROVE  TypeOK'
    <2>1. [entity EXCEPT ![e].mark = TRUE] \in Table
      BY <1>1, <1>5 DEF Table, Row, DeleteEntity, Live
    <2> QED BY <1>5, <2>1, RowsTyped DEF DeleteEntity
  <1>6. ASSUME NEW x \in Entry, DeleteLexicalEntry(x)
        PROVE  TypeOK'
    BY <1>6, MaxEditsAssumption DEF DeleteLexicalEntry, MayEdit, TypeOK
  <1> QED BY <1>2, <1>3, <1>4, <1>5, <1>6

LEMMA InitTyped == Init => TypeOK
  <1> SUFFICES ASSUME Init PROVE TypeOK
    OBVIOUS
  <1>1. entity \in Table
    BY StartAssumption DEF Init
  <1>2. txn \in [Merge -> Transaction]
    BY IdleTyped DEF Init
  <1> QED BY <1>1, <1>2, MaxEditsAssumption DEF Init, TypeOK, Transaction

LEMMA NextTyped == TypeOK /\ [Next]_vars => TypeOK'
  <1> SUFFICES ASSUME TypeOK, [Next]_vars PROVE TypeOK'
    OBVIOUS
  <1>1. ASSUME NEW t \in Merge, MergeStep(t) PROVE TypeOK'
    BY <1>1, StepTyped, WritesTyped DEF MergeStep, Commit, CommitFailed
  <1>2. CASE UNCHANGED vars
    BY <1>2 DEF vars, TypeOK
  <1> QED BY <1>1, <1>2, EditTyped DEF Next

(* Every reachable state is of its type. *)
THEOREM TypeCorrect == Spec => []TypeOK
  BY InitTyped, NextTyped, PTL DEF Spec

-----------------------------------------------------------------------------
(* Requests come one after another, and what an open merge has checked     *)
(* stays so; the entry of a merge is made when it commits.                 *)
Alone ==
    /\ \A s, t \in Merge : Open(s) /\ Open(t) => s = t
    /\ \A t \in Merge : Open(t) =>
         \A x \in txn[t].group : tree[x] # {} /\ x \notin deleted /\ merged_to[x] = None
Made ==
    \A t \in Merge :
        /\ txn[t].pc # "over" => tree[t] = {}
        /\ txn[t].pc = "idle" => txn[t].retired = {}
        /\ txn[t].retired \subseteq txn[t].group
HomeInv == TypeOK /\ Made /\ OriginalsOnce /\ (~overlap => Alone)

(* A running merge changes only its own state. *)
Runs(t) ==
    /\ UNCHANGED <<tree, merged_to, deleted, overlap, spoiled>>
    /\ \A s \in Merge \ {t} : txn'[s] = txn[s]
    /\ Open(t)' => Open(t) /\ txn'[t].group = txn[t].group
    /\ txn'[t].pc # "idle" /\ (txn'[t].pc # "over" => txn[t].pc # "over")
    /\ txn'[t].retired \subseteq txn'[t].group

LEMMA RunsStep ==
  ASSUME TypeOK, Made, NEW t \in Merge,
         Gather(t) \/ Load(t) \/ Mark(t) \/ Retire(t) \/ Redirect(t) \/ Abort(t)
  PROVE  Runs(t)
  <1>1. txn[t] \in Transaction /\ txn[t].retired \subseteq txn[t].group
    BY DEF TypeOK, Transaction, Made
  <1>2. ASSUME NEW new, Goes(t, new), new.retired \subseteq new.group, txn[t].pc # "over", new.pc # "idle",
               new.pc \notin {"idle", "over"} => Open(t) /\ new.group = txn[t].group
        PROVE  Runs(t)
    <2>1. txn'[t] = new /\ \A s \in Merge \ {t} : txn'[s] = txn[s]
      BY <1>2 DEF Goes, TypeOK
    <2> QED BY <1>2, <2>1 DEF Runs, Goes, Open
  <1>3. CASE Gather(t)
    <2>1. Open(t) /\ txn[t].pc # "over"
      BY <1>3 DEF Gather, Open
    <2>2. PICK S, R : Goes(t, [txn[t] EXCEPT !.pc = "merging", !.todo = S, !.rows = R])
      BY <1>3, Zenon DEF Gather
    <2> QED BY <1>1, <1>2, <2>1, <2>2 DEF Transaction
  <1>4. CASE Load(t)
    <2>1. Open(t) /\ txn[t].pc # "over"
      BY <1>4 DEF Load, Open
    <2>2. PICK new : Goes(t, new) /\ \/ new = [txn[t] EXCEPT !.pc = "failed"]
                                     \/ \E e : new = [txn[t] EXCEPT !.loaded[e] = entity[e]]
      BY <1>4, Zenon DEF Load
    <2> QED BY <1>1, <1>2, <2>1, <2>2 DEF Transaction, Open
  <1>5. CASE Mark(t)
    <2>1. Open(t) /\ txn[t].pc # "over"
      BY <1>5 DEF Mark, Open
    <2>2. PICK new, e : Goes(t, new) /\ new = [txn[t] EXCEPT
                                !.rows[e] = [txn[t].loaded[e] EXCEPT !.mark = TRUE, !.merged_to = TRUE],
                                !.loaded[e] = None, !.todo = @ \ {e}]
      BY <1>5, Zenon DEF Mark
    <2> QED BY <1>1, <1>2, <2>1, <2>2 DEF Transaction, Open
  <1>6. CASE Retire(t)
    <2> DEFINE x == First(txn[t].group \ txn[t].retired)
    <2>1. Open(t) /\ txn[t].pc # "over"
      BY <1>6 DEF Retire, Open
    <2>2. PICK R : Goes(t, [txn[t] EXCEPT !.retired = @ \cup {x}, !.loaded = R])
      BY <1>6, Zenon DEF Retire
    <2>3. x \in txn[t].group
      BY <1>6, FirstIn DEF Retire
    <2> HIDE DEF x
    <2> QED BY <1>1, <1>2, <2>1, <2>2, <2>3 DEF Transaction, Open
  <1>7. CASE Redirect(t)
    <2>1. Open(t) /\ txn[t].pc # "over"
      BY <1>7 DEF Redirect, Open
    <2> DEFINE l == First({e \in Entity : txn[t].loaded[e] # None})
               row == txn[t].loaded[l]
               rows == [txn[t].rows EXCEPT
                          ![l] = [row EXCEPT !.mark = TRUE, !.merged_by = TRUE],
                          ![First(Free)] = [row EXCEPT !.item = t, !.accepted = FALSE, !.published = FALSE,
                                                       !.merged_by = FALSE]]
               new == [txn[t] EXCEPT !.rows = rows, !.loaded[l] = None,
                                     !.pc = IF row.parts THEN "failed" ELSE @]
    <2>2. CASE row.parent \in txn[t].group
      <3>1. Goes(t, [txn[t] EXCEPT !.pc = "failed"])
        BY <1>7, <2>2, Zenon DEF Redirect
      <3> QED BY <1>1, <1>2, <2>1, <3>1 DEF Transaction, Open
    <2>3. CASE row.parent \notin txn[t].group
      <3>1. Goes(t, new)
        BY <1>7, <2>3, Zenon DEF Redirect
      <3> HIDE DEF l, rows
      <3>2. new.group = txn[t].group /\ new.retired = txn[t].retired /\ new.pc \in {"failed", txn[t].pc}
        BY <1>1 DEF Transaction
      <3> HIDE DEF new
      <3> QED BY <1>1, <1>2, <2>1, <3>1, <3>2 DEF Open
    <2> QED BY <2>2, <2>3
  <1>8. CASE Abort(t)
    <2>1. txn[t].pc # "over"
      BY <1>8 DEF Abort, Open
    <2> QED BY <1>2, <1>8, <2>1 DEF Abort, Idle
  <1> QED BY <1>3, <1>4, <1>5, <1>6, <1>7, <1>8

LEMMA RunsHome == ASSUME HomeInv, TypeOK', NEW t \in Merge, Runs(t) PROVE HomeInv'
  <1>1. Made'
    BY DEF HomeInv, Made, Runs
  <1>2. OriginalsOnce'
    BY DEF HomeInv, OriginalsOnce, OneHome, TreeTold, Runs
  <1>3. ~overlap => Alone'
    BY DEF HomeInv, Alone, Open, Runs
  <1> QED BY <1>1, <1>2, <1>3 DEF HomeInv, Runs

LEMMA CheckHome == ASSUME HomeInv, TypeOK', NEW t \in Merge, NEW G \in SUBSET Entry, CheckGroup(t, G) PROVE HomeInv'
  <1>1. txn'[t].pc = "checked" /\ txn'[t].group = G /\ txn'[t].retired = txn[t].retired
    BY DEF CheckGroup, Goes, HomeInv, TypeOK
  <1>2. \A s \in Merge \ {t} : txn'[s] = txn[s]
    BY DEF CheckGroup, Goes, HomeInv, TypeOK
  <1>3. txn[t].pc = "idle" /\ UNCHANGED <<tree, merged_to, deleted, overlap, spoiled>>
    BY DEF CheckGroup, Goes
  <1>4. Made'
    BY <1>1, <1>2, <1>3 DEF HomeInv, Made
  <1>5. OriginalsOnce'
    BY <1>3 DEF HomeInv, OriginalsOnce, OneHome, TreeTold
  <1>6. ASSUME ~overlap PROVE Alone'
    <2>1. \A s \in Merge : ~Open(s)
      BY <1>6 DEF CheckGroup, Calm
    <2>2. \A s \in Merge \ {t} : ~Open(s)'
      BY <1>2, <2>1 DEF Open
    <2>3. \A x \in G : tree[x] # {} /\ x \notin deleted /\ merged_to[x] = None
      BY DEF CheckGroup
    <2> QED BY <1>1, <1>3, <2>2, <2>3 DEF Alone
  <1> QED BY <1>3, <1>4, <1>5, <1>6 DEF HomeInv

LEMMA WritesHome ==
  ASSUME HomeInv, TypeOK', NEW t \in Merge, Open(t), Writes(t),
         \/ txn[t].retired = txn[t].group /\ spoiled' = spoiled
         \/ spoiled' = spoiled \cup Leaves(t)
  PROVE  HomeInv'
  <1> DEFINE G == txn[t].group
  <1>1. /\ tree' = [tree EXCEPT ![t] = Leaves(t)]
        /\ merged_to' = [x \in Entry |-> IF x \in txn[t].retired THEN t ELSE merged_to[x]]
        /\ deleted' = deleted \cup txn[t].retired /\ overlap' = overlap /\ spoiled \subseteq spoiled'
    BY DEF Writes
  <1>2. txn'[t].pc = "over" /\ txn'[t].retired = {} /\ \A s \in Merge \ {t} : txn'[s] = txn[s]
    BY DEF Writes, HomeInv, TypeOK, Idle
  <1>3. t \in Entry /\ \A x \in Entry \ {t} : tree'[x] = tree[x]
    BY <1>1 DEF HomeInv, TypeOK, Entry
  <1>4. tree'[t] = Leaves(t) /\ tree[t] = {} /\ txn[t].retired \subseteq G /\ G \subseteq Entry
    BY <1>1, <1>3 DEF HomeInv, TypeOK, Made, Open
  <1>5. Made'
    BY <1>2, <1>3, Merge \subseteq Entry DEF HomeInv, Made, Entry
  <1>6. ASSUME ~overlap PROVE Alone'
    <2>1. \A s \in Merge \ {t} : ~Open(s)
      BY <1>6 DEF HomeInv, Alone
    <2> QED BY <1>2, <2>1 DEF Alone, Open
  <1>7. ASSUME ~overlap PROVE OneHome' /\ TreeTold'
    <2>1. OneHome /\ TreeTold
      BY <1>7 DEF HomeInv, OriginalsOnce
    <2>2. \A x \in G : tree[x] # {} /\ x \notin deleted /\ merged_to[x] = None
      BY <1>7 DEF HomeInv, Alone
    <2>3. t \notin G
      BY <1>4, <2>2
    <2>4. ASSUME NEW y \in Entry \ deleted', y # t PROVE tree'[t] \cap tree'[y] \subseteq spoiled'
      <3>1. CASE txn[t].retired = G
        <4>1. y \notin deleted /\ y \notin G
          BY <1>1, <3>1, <2>4
        <4>2. \A x \in G : tree[x] \cap tree[y] \subseteq spoiled
          BY <1>4, <2>1, <2>2, <4>1 DEF OneHome
        <4> QED BY <1>1, <1>3, <1>4, <2>4, <4>2 DEF Leaves
      <3>2. CASE spoiled' = spoiled \cup Leaves(t)
        BY <1>4, <3>2
      <3> QED BY <3>1, <3>2
    <2>5. ASSUME NEW x \in Entry \ deleted', NEW y \in Entry \ deleted', x # y, x # t, y # t
          PROVE  tree'[x] \cap tree'[y] \subseteq spoiled'
      BY <1>1, <1>3, <2>1, <2>5 DEF OneHome
    <2>6. OneHome'
      BY <2>4, <2>5 DEF OneHome
    <2>7. ASSUME NEW s \in Merge, s # t, NEW a \in tree'[s] \ spoiled'
          PROVE  \E x \in Entry : merged_to'[x] = s /\ a \in tree'[x]
      <3>1. a \in tree[s] \ spoiled
        BY <1>1, <1>3, <2>7 DEF Entry
      <3>2. PICK x \in Entry : merged_to[x] = s /\ a \in tree[x]
        BY <2>1, <2>7, <3>1 DEF TreeTold
      <3>3. s # None
        BY NoneAssumption DEF Entry
      <3>4. x \notin G /\ x # t
        BY <1>4, <2>2, <3>2, <3>3
      <3> QED BY <1>1, <1>3, <1>4, <3>2, <3>4
    <2>8. ASSUME NEW a \in tree'[t] \ spoiled'
          PROVE  \E x \in Entry : merged_to'[x] = t /\ a \in tree'[x]
      <3>1. txn[t].retired = G
        BY <1>4, <2>8
      <3>2. PICK x \in G : a \in tree[x]
        BY <1>4, <2>8 DEF Leaves
      <3> QED BY <1>1, <1>3, <1>4, <2>3, <3>1, <3>2
    <2>9. TreeTold'
      BY <2>7, <2>8 DEF TreeTold
    <2> QED BY <2>6, <2>9
  <1> QED BY <1>1, <1>5, <1>6, <1>7 DEF HomeInv, OriginalsOnce

LEMMA NextHome == HomeInv /\ [Next]_vars => HomeInv'
  <1> SUFFICES ASSUME HomeInv, [Next]_vars PROVE HomeInv'
    OBVIOUS
  <1>1. TypeOK'
    BY NextTyped DEF HomeInv
  <1>2. ASSUME NEW t \in Merge, MergeStep(t) PROVE HomeInv'
    <2>1. CASE \E G \in SUBSET Entry : CheckGroup(t, G)
      BY <1>1, <2>1, CheckHome
    <2>2. CASE Commit(t) \/ CommitFailed(t)
      <3>1. Open(t) /\ Writes(t)
        BY <2>2 DEF Commit, CommitFailed, Open
      <3> QED BY <1>1, <2>2, <3>1, WritesHome DEF Commit, CommitFailed
    <2>3. CASE Gather(t) \/ Load(t) \/ Mark(t) \/ Retire(t) \/ Redirect(t) \/ Abort(t)
      BY <1>1, <2>3, RunsStep, RunsHome DEF HomeInv
    <2> QED BY <1>2, <2>1, <2>2, <2>3 DEF MergeStep
  <1>3. CASE UNCHANGED <<tree, merged_to, txn, overlap, spoiled>> /\ deleted \subseteq deleted'
             /\ (UNCHANGED deleted \/ Calm)
    <2>1. Made'
      BY <1>3 DEF HomeInv, Made
    <2>2. OriginalsOnce'
      BY <1>3 DEF HomeInv, OriginalsOnce, OneHome, TreeTold
    <2>3. ~overlap => Alone'
      BY <1>3 DEF HomeInv, Alone, Open, Calm
    <2> QED BY <1>1, <1>3, <2>1, <2>2, <2>3 DEF HomeInv
  <1>4. ASSUME NEW x \in Entry, NEW i \in Item, NEW a \in BOOLEAN, NEW p \in BOOLEAN, CreateEntity(x, i, a, p)
        PROVE  HomeInv'
    BY <1>3, <1>4 DEF CreateEntity, Rows
  <1>5. ASSUME NEW e \in Entity, NEW a \in BOOLEAN, NEW p \in BOOLEAN, UpdateEntity(e, a, p) PROVE HomeInv'
    BY <1>3, <1>5 DEF UpdateEntity, Rows
  <1>6. ASSUME NEW e \in Entity, NEW i \in Text, UpdateEntityContent(e, i) PROVE HomeInv'
    BY <1>3, <1>6 DEF UpdateEntityContent, Rows
  <1>7. ASSUME NEW e \in Entity, DeleteEntity(e) PROVE HomeInv'
    BY <1>3, <1>7 DEF DeleteEntity, Rows
  <1>8. ASSUME NEW x \in Entry, DeleteLexicalEntry(x) PROVE HomeInv'
    BY <1>3, <1>8 DEF DeleteLexicalEntry, MayEdit
  <1>9. CASE UNCHANGED vars
    BY <1>3, <1>9 DEF vars
  <1> QED BY <1>2, <1>4, <1>5, <1>6, <1>7, <1>8, <1>9 DEF Next

LEMMA InitHome == Init => HomeInv
  <1> SUFFICES ASSUME Init PROVE HomeInv
    OBVIOUS
  <1>1. TypeOK
    BY InitTyped
  <1>2. \A t \in Merge : tree[t] = {} /\ txn[t] = Idle /\ ~Open(t)
    BY EntryAssumption DEF Init, Entry, Open, Idle
  <1>3. OneHome /\ TreeTold
    BY <1>2 DEF Init, OneHome, TreeTold
  <1> QED BY <1>1, <1>2, <1>3 DEF HomeInv, Made, Alone, OriginalsOnce, Idle

(* With requests one after another no original lives in two entries, and   *)
(* merged_to tells where it went, but for merges that failed half way and  *)
(* were committed.                                                         *)
THEOREM SerialOriginalsOnce == Spec => []OriginalsOnce
  <1>1. Spec => []HomeInv
    BY InitHome, NextHome, PTL DEF Spec
  <1>2. HomeInv => OriginalsOnce
    BY DEF HomeInv
  <1> QED BY <1>1, <1>2, PTL

-----------------------------------------------------------------------------
(* What a merge holds.  A text that it has updated it has marked as        *)
(* merged; while it marks it holds one entity, and later only links.       *)
Shape(t) ==
    LET T == txn[t]
    IN  /\ \A e \in Entity : T.rows[e] # None =>
             /\ T.rows[e].merged_to => T.rows[e].mark /\ entity[e] # None
             /\ entity[e] # None => T.rows[e].item = entity[e].item /\ (T.rows[e].item \in Text => T.rows[e].merged_to)
        /\ \A e \in Entity : T.loaded[e] # None =>
             /\ entity[e] # None \/ T.rows[e] # None
             /\ entity[e] # None => T.loaded[e].item = entity[e].item
             /\ IF T.todo = {} THEN T.loaded[e].item \in Entry /\ ~T.loaded[e].merged_to /\ ~T.loaded[e].mark
                               ELSE e = First(T.todo)
        /\ \A e \in T.todo : entity[e] # None
        /\ T.pc \in {"idle", "checked", "over"} => T.todo = {} /\ T.loaded = Nothing /\ T.rows = Nothing

IsText(e) == entity[e] # None /\ entity[e].item \in Text
Pending(t) == {e \in Entity : txn[t].loaded[e] # None} \cup Taken(t)

Marked == \A e \in Entity : entity[e] # None /\ entity[e].merged_to => entity[e].mark
RowLocks ==
    \A s, t \in Merge : s # t => \A e \in Entity : txn[s].rows[e] # None => txn[t].rows[e] = None
(* What a merge took exists, and its texts are marked as merged. *)
TookMarked ==
    \A s \in Merge :
        /\ took[s] # {} => txn[s].pc = "over"
        /\ \A e \in took[s] : entity[e] # None /\ (entity[e].item \in Text => entity[e].merged_to)
(* An open merge holds at most one text that another has taken. *)
HoldsOne ==
    \A s, t \in Merge : s # t =>
        \A e, f \in took[s] \cap Pending(t) : IsText(e) /\ IsText(f) => e = f

TwiceInv ==
    /\ TypeOK /\ Marked /\ RowLocks /\ TookMarked /\ HoldsOne /\ TwiceAtMostOnce
    /\ \A t \in Merge : Shape(t)

(* A step of a running merge: what it locks no other has locked, and a     *)
(* text that it takes up is not merged.                                    *)
Sound(t) ==
    /\ UNCHANGED <<entity, took>> /\ txn[t].pc # "over"
    /\ \A s \in Merge \ {t} : txn'[s] = txn[s]
    /\ Shape(t)'
    /\ \A e \in Entity : txn'[t].rows[e] # None =>
         txn[t].rows[e] # None \/ \A s \in Merge \ {t} : txn[s].rows[e] = None
    /\ \A e \in Pending(t)' : IsText(e) => e \in Pending(t) \/ ~entity[e].merged_to

LEMMA SoundTwice ==
  ASSUME TwiceInv, TypeOK', NEW t \in Merge, Sound(t)
  PROVE  TwiceInv'
  <1>1. Marked'
    BY DEF TwiceInv, Marked, Sound
  <1>2. RowLocks'
    BY DEF TwiceInv, RowLocks, Sound
  <1>3. TookMarked'
    BY DEF TwiceInv, TookMarked, Sound
  <1>4. HoldsOne'
    <2> SUFFICES ASSUME NEW s \in Merge, NEW u \in Merge, s # u,
                        NEW e \in (took[s] \cap Pending(u))', NEW f \in (took[s] \cap Pending(u))',
                        IsText(e)', IsText(f)'
                 PROVE  e = f
      BY DEF HoldsOne
    <2>1. IsText(e) /\ IsText(f) /\ e \in took[s] /\ f \in took[s]
      BY DEF Sound, IsText
    <2>2. entity[e].merged_to /\ entity[f].merged_to
      BY <2>1 DEF TwiceInv, TookMarked, IsText
    <2>3. e \in Pending(u) /\ f \in Pending(u)
      BY <2>1, <2>2 DEF Sound, Pending, Taken
    <2> QED BY <2>1, <2>3 DEF TwiceInv, HoldsOne
  <1>5. TwiceAtMostOnce'
    BY DEF TwiceInv, TwiceAtMostOnce, Sound
  <1>6. \A s \in Merge : Shape(s)'
    BY DEF TwiceInv, Shape, Sound
  <1> QED BY <1>1, <1>2, <1>3, <1>4, <1>5, <1>6 DEF TwiceInv

(* An edit keeps what there is, but for marks, acceptance and publication. *)
Edited ==
    /\ UNCHANGED <<txn, took>>
    /\ \A e \in Entity : entity[e] # None =>
         /\ entity'[e] # None /\ entity'[e].item = entity[e].item
         /\ entity'[e].merged_to = entity[e].merged_to /\ (entity[e].mark => entity'[e].mark)
    /\ \A e \in Entity : entity[e] = None /\ entity'[e] # None => e \in Free /\ ~entity'[e].merged_to

LEMMA EditedTwice == ASSUME TwiceInv, TypeOK', Edited PROVE TwiceInv'
  <1>1. took \in [Merge -> SUBSET Entity]
    BY DEF TwiceInv, TypeOK
  <1>2. Marked'
    BY DEF TwiceInv, Marked, Edited
  <1>3. RowLocks'
    BY DEF TwiceInv, RowLocks, Edited
  <1>4. TookMarked'
    BY <1>1 DEF TwiceInv, TookMarked, Edited
  <1>5. \A s \in Merge : Shape(s)'
    <2> SUFFICES ASSUME NEW s \in Merge PROVE Shape(s)'
      OBVIOUS
    <2>1. \A e \in Entity : txn[s].rows[e] # None \/ txn[s].loaded[e] # None => (entity[e] = None <=> entity'[e] = None)
      BY DEF TwiceInv, Shape, Edited, Free
    <2>2. txn[s].todo \subseteq Entity /\ Shape(s)
      BY DEF TwiceInv, TypeOK
    <2> QED BY <2>1, <2>2 DEF Shape, Edited
  <1>6. \A s \in Merge : \A e \in took[s] : IsText(e)' <=> IsText(e)
    BY <1>1 DEF TwiceInv, TookMarked, Edited, IsText
  <1>7. HoldsOne'
    <2>1. \A s \in Merge : Pending(s)' = Pending(s)
      BY DEF Pending, Taken, Edited
    <2> QED BY <1>6, <2>1 DEF TwiceInv, HoldsOne, Edited
  <1>8. TwiceAtMostOnce'
    BY <1>1 DEF TwiceInv, TookMarked, TwiceAtMostOnce, Edited
  <1> QED BY <1>2, <1>3, <1>4, <1>5, <1>7, <1>8 DEF TwiceInv

LEMMA CheckSound ==
  ASSUME TwiceInv, NEW t \in Merge, NEW G \in SUBSET Entry, CheckGroup(t, G)
  PROVE  Sound(t)
  <1>1. txn[t] \in Transaction /\ Shape(t)
    BY DEF TwiceInv, TypeOK, Transaction
  <1>2. txn'[t] = [txn[t] EXCEPT !.pc = "checked", !.group = G] /\ \A s \in Merge \ {t} : txn'[s] = txn[s]
    BY DEF CheckGroup, Goes, TwiceInv, TypeOK
  <1>3. txn[t].pc = "idle" /\ UNCHANGED <<entity, took>>
    BY DEF CheckGroup, Goes
  <1>4. /\ txn'[t].rows = txn[t].rows /\ txn'[t].loaded = txn[t].loaded /\ txn'[t].todo = txn[t].todo
        /\ txn'[t].pc = "checked"
    BY <1>1, <1>2 DEF Transaction
  <1>5. Shape(t)'
    BY <1>1, <1>3, <1>4 DEF Shape
  <1>6. Pending(t)' = Pending(t)
    BY <1>4 DEF Pending, Taken
  <1> QED BY <1>2, <1>3, <1>4, <1>5, <1>6 DEF Sound

LEMMA GatherSound == ASSUME TwiceInv, NEW t \in Merge, Gather(t) PROVE Sound(t)
  <1> DEFINE S == {e \in Entity : Live(entity[e]) /\ entity[e].parent \in txn[t].group}
             Items == {entity[e].item : e \in S}
             Injective(f) == \A i, j \in DOMAIN f : f[i] = f[j] => i = j
             Draws == [Items -> Free]
             id == CHOOSE d \in Draws : Injective(d)
             new == [e \in Entity |->
                       IF \E i \in DOMAIN id : id[i] = e
                       THEN Merged(t, S, CHOOSE i \in DOMAIN id : id[i] = e) ELSE None]
  <1>1. txn[t] \in Transaction /\ Shape(t) /\ txn[t].pc = "checked"
    BY DEF TwiceInv, TypeOK, Transaction, Gather
  <1>2. id \in Draws
    BY DEF Gather
  <1>3. \A e \in Entity : new[e] # None => e \in Free /\ ~new[e].merged_to
    <2> SUFFICES ASSUME NEW e \in Entity, new[e] # None PROVE e \in Free /\ ~new[e].merged_to
      OBVIOUS
    <2>1. PICK i \in DOMAIN id : id[i] = e
      OBVIOUS
    <2>2. e \in Free
      BY <1>2, <2>1
    <2>3. \A i1 : ~Merged(t, S, i1).merged_to
      BY DEF Merged, Fresh
    <2> HIDE DEF id, S
    <2> QED BY <2>1, <2>2, <2>3
  <1>4. Goes(t, [txn[t] EXCEPT !.pc = "merging", !.todo = S, !.rows = new])
    BY DEF Gather
  <1> HIDE DEF new
  <1>5. /\ txn'[t].rows = new /\ txn'[t].loaded = Nothing /\ txn'[t].todo = S /\ txn'[t].pc = "merging"
        /\ txn[t].rows = Nothing
        /\ \A s \in Merge \ {t} : txn'[s] = txn[s]
    BY <1>1, <1>4 DEF Goes, Transaction, TwiceInv, TypeOK, Shape
  <1>6. UNCHANGED <<entity, took>>
    BY <1>4 DEF Goes
  <1>7. \A e \in S : entity[e] # None
    BY DEF Live
  <1> HIDE DEF S
  <1>8. Shape(t)'
    BY <1>3, <1>5, <1>6, <1>7 DEF Shape, Free, Nothing
  <1>9. Pending(t)' = {}
    BY <1>3, <1>5 DEF Pending, Taken, Nothing
  <1>10. \A e \in Entity : txn'[t].rows[e] # None => \A s \in Merge \ {t} : txn[s].rows[e] = None
    BY <1>3, <1>5 DEF Free
  <1> QED BY <1>1, <1>5, <1>6, <1>8, <1>9, <1>10 DEF Sound

LEMMA LoadSound == ASSUME TwiceInv, NEW t \in Merge, Load(t) PROVE Sound(t)
  <1> DEFINE e == First(txn[t].todo)
  <1>1. txn[t] \in Transaction /\ Shape(t) /\ txn[t].pc = "merging" /\ txn[t].loaded = Nothing /\ txn[t].todo # {}
    BY DEF TwiceInv, TypeOK, Transaction, Load
  <1>2. e \in txn[t].todo /\ e \in Entity /\ entity[e] # None
    BY <1>1, FirstIn DEF Transaction, Shape
  <1>3. Goes(t, IF entity[e].merged_to THEN [txn[t] EXCEPT !.pc = "failed"]
                                       ELSE [txn[t] EXCEPT !.loaded[e] = entity[e]])
    BY DEF Load
  <1>4. UNCHANGED <<entity, took>> /\ \A s \in Merge \ {t} : txn'[s] = txn[s]
    BY <1>3 DEF Goes, TwiceInv, TypeOK
  <1>5. CASE entity[e].merged_to
    <2>1. /\ txn'[t].rows = txn[t].rows /\ txn'[t].loaded = txn[t].loaded /\ txn'[t].todo = txn[t].todo
          /\ txn'[t].pc = "failed"
      BY <1>1, <1>3, <1>5 DEF Goes, Transaction, TwiceInv, TypeOK
    <2>2. Shape(t)' /\ Pending(t)' = Pending(t)
      BY <1>1, <1>4, <2>1 DEF Shape, Pending, Taken
    <2> QED BY <1>1, <1>4, <2>1, <2>2 DEF Sound
  <1>6. CASE ~entity[e].merged_to
    <2>1. /\ txn'[t].rows = txn[t].rows /\ txn'[t].todo = txn[t].todo /\ txn'[t].pc = "merging"
          /\ txn'[t].loaded = [Nothing EXCEPT ![e] = entity[e]]
      BY <1>1, <1>3, <1>6 DEF Goes, Transaction, TwiceInv, TypeOK
    <2> HIDE DEF e
    <2>2. \A d \in Entity : txn'[t].loaded[d] = IF d = e THEN entity[e] ELSE None
      BY <1>2, <2>1 DEF Nothing
    <2>3. Shape(t)'
      BY <1>1, <1>2, <1>4, <2>1, <2>2 DEF Shape, e
    <2>4. \A d \in Pending(t)' : d = e \/ d \in Pending(t)
      BY <2>1, <2>2 DEF Pending, Taken
    <2> QED BY <1>1, <1>4, <1>6, <2>1, <2>3, <2>4 DEF Sound
  <1> QED BY <1>5, <1>6

LEMMA MarkSound == ASSUME TwiceInv, NEW t \in Merge, Mark(t) PROVE Sound(t)
  <1> DEFINE e == First(txn[t].todo)
             old == [txn[t].loaded[e] EXCEPT !.mark = TRUE, !.merged_to = TRUE]
  <1>1. txn[t] \in Transaction /\ Shape(t) /\ txn[t].pc = "merging" /\ txn[t].todo # {} /\ txn[t].loaded[e] # None
    BY DEF TwiceInv, TypeOK, Transaction, Mark
  <1>2. e \in txn[t].todo /\ e \in Entity /\ entity[e] # None
    BY <1>1, FirstIn DEF Transaction, Shape
  <1>3. Goes(t, [txn[t] EXCEPT !.rows[e] = old, !.loaded[e] = None, !.todo = @ \ {e}])
    BY DEF Mark
  <1>4. UNCHANGED <<entity, took>> /\ \A s \in Merge \ {t} : txn'[s] = txn[s]
    BY <1>3 DEF Goes, TwiceInv, TypeOK
  <1>5. ~Locked(e, t)
    BY DEF Mark
  <1>6. old.mark /\ old.merged_to /\ old.item = entity[e].item /\ old # None
    <2>1. txn[t].loaded[e] \in Row /\ txn[t].loaded[e].item = entity[e].item
      BY <1>1, <1>2 DEF Transaction, Table, Shape
    <2> QED BY <2>1, NoneAssumption DEF Row
  <1> HIDE DEF old, e
  <1>7. /\ txn'[t].rows = [txn[t].rows EXCEPT ![e] = old] /\ txn'[t].loaded = [txn[t].loaded EXCEPT ![e] = None]
        /\ txn'[t].todo = txn[t].todo \ {e} /\ txn'[t].pc = "merging"
    BY <1>1, <1>3 DEF Goes, Transaction, TwiceInv, TypeOK
  <1>8. \A d \in Entity :
          /\ txn'[t].rows[d] = IF d = e THEN old ELSE txn[t].rows[d]
          /\ txn'[t].loaded[d] = None
    <2>1. \A d \in Entity : txn[t].loaded[d] # None => d = e
      BY <1>1 DEF Shape, e
    <2> QED BY <1>1, <1>2, <1>7, <2>1 DEF Transaction, Table
  <1>9. Shape(t)'
    BY <1>1, <1>2, <1>4, <1>6, <1>7, <1>8 DEF Shape
  <1>10. \A d \in Pending(t)' : d \in Pending(t)
    BY <1>1, <1>2, <1>8 DEF Pending, Taken
  <1>11. \A d \in Entity : txn'[t].rows[d] # None =>
           txn[t].rows[d] # None \/ \A s \in Merge \ {t} : txn[s].rows[d] = None
    BY <1>5, <1>8 DEF Locked
  <1> QED BY <1>1, <1>4, <1>9, <1>10, <1>11 DEF Sound

LEMMA RetireSound == ASSUME TwiceInv, NEW t \in Merge, Retire(t) PROVE Sound(t)
  <1> DEFINE x == First(txn[t].group \ txn[t].retired)
             read == [l \in Entity |-> IF Live(Seen(t, l)) /\ Seen(t, l).item = x THEN Seen(t, l) ELSE None]
  <1>1. txn[t] \in Transaction /\ Shape(t) /\ txn[t].pc = "merging" /\ txn[t].todo = {}
    BY DEF TwiceInv, TypeOK, Transaction, Retire
  <1>2. x \in Entry
    BY <1>1, FirstIn DEF Transaction, Retire
  <1>3. Goes(t, [txn[t] EXCEPT !.retired = @ \cup {x}, !.loaded = read])
    BY DEF Retire
  <1>4. UNCHANGED <<entity, took>> /\ \A s \in Merge \ {t} : txn'[s] = txn[s]
    BY <1>3 DEF Goes, TwiceInv, TypeOK
  <1> HIDE DEF x
  <1>5. \A l \in Entity : read[l] # None =>
          /\ read[l] = Seen(t, l) /\ Live(Seen(t, l)) /\ read[l].item = x
    OBVIOUS
  <1> HIDE DEF read
  <1>6. /\ txn'[t].rows = txn[t].rows /\ txn'[t].loaded = read /\ txn'[t].todo = {} /\ txn'[t].pc = "merging"
    BY <1>1, <1>3 DEF Goes, Transaction, TwiceInv, TypeOK
  <1>7. \A l \in Entity : read[l] # None =>
          /\ entity[l] # None \/ txn[t].rows[l] # None
          /\ entity[l] # None => entity[l].item = x
          /\ read[l].item \in Entry /\ ~read[l].merged_to /\ ~read[l].mark
    <2> SUFFICES ASSUME NEW l \in Entity, read[l] # None
                 PROVE  /\ entity[l] # None \/ txn[t].rows[l] # None
                        /\ entity[l] # None => entity[l].item = x
                        /\ read[l].item \in Entry /\ ~read[l].merged_to /\ ~read[l].mark
      OBVIOUS
    <2>1. CASE txn[t].rows[l] # None
      BY <1>1, <1>2, <1>5, <2>1 DEF Seen, Live, Shape
    <2>2. CASE txn[t].rows[l] = None
      BY <1>2, <1>5, <2>2 DEF Seen, Live, TwiceInv, Marked
    <2> QED BY <2>1, <2>2
  <1>8. Shape(t)'
    BY <1>1, <1>4, <1>5, <1>6, <1>7 DEF Shape
  <1>9. \A e \in Pending(t)' : IsText(e) => e \in Pending(t)
    <2>1. \A e \in Entity : read[e] # None => ~IsText(e)
      BY <1>2, <1>7, EntryAssumption DEF IsText
    <2> QED BY <1>6, <2>1 DEF Pending, Taken
  <1> QED BY <1>1, <1>4, <1>6, <1>8, <1>9 DEF Sound

LEMMA RedirectSound == ASSUME TwiceInv, NEW t \in Merge, Redirect(t) PROVE Sound(t)
  <1> DEFINE l == First({e \in Entity : txn[t].loaded[e] # None})
             row == txn[t].loaded[l]
             n == First(Free)
             old == [row EXCEPT !.mark = TRUE, !.merged_by = TRUE]
             link == [row EXCEPT !.item = t, !.accepted = FALSE, !.published = FALSE, !.merged_by = FALSE]
  <1>1. txn[t] \in Transaction /\ Shape(t) /\ txn[t].pc = "merging" /\ txn[t].todo = {} /\ txn[t].loaded # Nothing
    BY DEF TwiceInv, TypeOK, Transaction, Redirect
  <1>2. l \in Entity /\ row # None
    <2>1. {e \in Entity : txn[t].loaded[e] # None} # {}
      BY <1>1, SomeRow DEF Transaction
    <2> QED BY <2>1, FirstIn
  <1>3. CASE row.parent \in txn[t].group
    <2>1. Goes(t, [txn[t] EXCEPT !.pc = "failed"])
      BY <1>3, Zenon DEF Redirect
    <2>2. /\ txn'[t].rows = txn[t].rows /\ txn'[t].loaded = txn[t].loaded /\ txn'[t].todo = txn[t].todo
          /\ txn'[t].pc = "failed" /\ UNCHANGED <<entity, took>> /\ \A s \in Merge \ {t} : txn'[s] = txn[s]
      BY <1>1, <2>1 DEF Goes, Transaction, TwiceInv, TypeOK
    <2>3. Shape(t)' /\ Pending(t)' = Pending(t)
      BY <1>1, <2>2 DEF Shape, Pending, Taken
    <2> QED BY <1>1, <2>2, <2>3 DEF Sound
  <1>4. CASE row.parent \notin txn[t].group
    <2>1. ~Locked(l, t) /\ Free # {}
      BY <1>4, Zenon DEF Redirect
    <2>2. Goes(t, [txn[t] EXCEPT !.rows = [@ EXCEPT ![l] = old, ![n] = link],
                                 !.loaded[l] = None,
                                 !.pc = IF row.parts THEN "failed" ELSE @])
      BY <1>4, Zenon DEF Redirect
    <2>3. n \in Free /\ n \in Entity
      BY <2>1, FirstIn DEF Free
    <2>4. entity[l] # None \/ txn[t].rows[l] # None
      BY <1>1, <1>2 DEF Shape
    <2>5. n # l /\ entity[n] = None /\ \A s \in Merge : txn[s].rows[n] = None
      BY <2>3, <2>4 DEF Free
    <2>6. row \in Row /\ row.item \in Entry /\ ~row.merged_to /\ (entity[l] # None => row.item = entity[l].item)
      BY <1>1, <1>2 DEF Shape, Transaction, Table
    <2> HIDE DEF l, row, n
    <2>7. old # None /\ old.item = row.item /\ ~old.merged_to /\ ~link.merged_to
      BY <2>6, NoneAssumption DEF Row
    <2> HIDE DEF old, link
    <2>8. /\ txn'[t].rows = [txn[t].rows EXCEPT ![l] = old, ![n] = link]
          /\ txn'[t].loaded = [txn[t].loaded EXCEPT ![l] = None]
          /\ txn'[t].todo = {} /\ txn'[t].pc \in {"merging", "failed"}
          /\ UNCHANGED <<entity, took>> /\ \A s \in Merge \ {t} : txn'[s] = txn[s]
      BY <1>1, <2>2 DEF Goes, Transaction, TwiceInv, TypeOK
    <2>9. \A e \in Entity :
            /\ txn'[t].rows[e] = IF e = n THEN link ELSE IF e = l THEN old ELSE txn[t].rows[e]
            /\ txn'[t].loaded[e] = IF e = l THEN None ELSE txn[t].loaded[e]
      BY <1>1, <1>2, <2>3, <2>5, <2>8 DEF Transaction, Table
    <2>10. old.item \notin Text
      BY <2>6, <2>7, EntryAssumption
    <2>11. \A e \in Entity : txn'[t].rows[e] # None =>
             /\ txn'[t].rows[e].merged_to => txn'[t].rows[e].mark /\ entity[e] # None
             /\ entity[e] # None => /\ txn'[t].rows[e].item = entity[e].item
                                    /\ txn'[t].rows[e].item \in Text => txn'[t].rows[e].merged_to
      BY <1>1, <2>5, <2>6, <2>7, <2>9, <2>10 DEF Shape
    <2>12. \A e \in Entity : txn'[t].loaded[e] # None =>
             /\ entity[e] # None \/ txn'[t].rows[e] # None
             /\ entity[e] # None => txn'[t].loaded[e].item = entity[e].item
             /\ txn'[t].loaded[e].item \in Entry /\ ~txn'[t].loaded[e].merged_to /\ ~txn'[t].loaded[e].mark
      <3> SUFFICES ASSUME NEW e \in Entity, txn'[t].loaded[e] # None
                   PROVE  /\ entity[e] # None \/ txn'[t].rows[e] # None
                          /\ entity[e] # None => txn'[t].loaded[e].item = entity[e].item
                          /\ txn'[t].loaded[e].item \in Entry /\ ~txn'[t].loaded[e].merged_to /\ ~txn'[t].loaded[e].mark
        OBVIOUS
      <3>1. e # l /\ txn'[t].loaded[e] = txn[t].loaded[e] /\ txn[t].loaded[e] # None
        BY <2>9
      <3>2. e # n
        BY <1>1, <2>5, <3>1 DEF Shape
      <3> QED BY <1>1, <2>9, <3>1, <3>2 DEF Shape
    <2>13. Shape(t)'
      BY <2>8, <2>11, <2>12 DEF Shape
    <2>14. \A e \in Pending(t)' : e \in Pending(t)
      BY <2>7, <2>9 DEF Pending, Taken
    <2>15. \A e \in Entity : txn'[t].rows[e] # None =>
             txn[t].rows[e] # None \/ \A s \in Merge \ {t} : txn[s].rows[e] = None
      BY <2>1, <2>5, <2>9 DEF Locked
    <2> QED BY <1>1, <2>8, <2>13, <2>14, <2>15 DEF Sound
  <1> QED BY <1>3, <1>4

LEMMA AbortSound == ASSUME TwiceInv, NEW t \in Merge, Abort(t) PROVE Sound(t)
  <1>1. /\ txn'[t] = [Idle EXCEPT !.pc = "over"] /\ UNCHANGED <<entity, took>>
        /\ \A s \in Merge \ {t} : txn'[s] = txn[s]
    BY DEF Abort, Goes, TwiceInv, TypeOK
  <1>2. /\ txn'[t].todo = {} /\ txn'[t].loaded = Nothing /\ txn'[t].rows = Nothing
        /\ \A e \in Entity : Nothing[e] = None
    BY <1>1 DEF Idle, Nothing
  <1>3. Shape(t)' /\ Pending(t)' = {}
    BY <1>2 DEF Shape, Pending, Taken
  <1>4. txn[t].pc # "over"
    BY DEF Abort, Open
  <1> QED BY <1>1, <1>2, <1>3, <1>4 DEF Sound

(* The commit of what a merge has done. *)
LEMMA WritesTwice ==
  ASSUME TwiceInv, TypeOK', NEW t \in Merge, Open(t), Writes(t)
  PROVE  TwiceInv'
  <1>1. Shape(t) /\ txn[t] \in Transaction /\ entity \in Table
    BY DEF TwiceInv, TypeOK, Transaction
  <1>2. /\ txn'[t] = [Idle EXCEPT !.pc = "over"] /\ \A s \in Merge \ {t} : txn'[s] = txn[s]
        /\ took'[t] = Taken(t) /\ \A s \in Merge \ {t} : took'[s] = took[s]
    BY DEF Writes, TwiceInv, TypeOK
  <1>3. /\ txn'[t].todo = {} /\ txn'[t].loaded = Nothing /\ txn'[t].rows = Nothing /\ txn'[t].pc = "over"
        /\ \A e \in Entity : Nothing[e] = None
    BY <1>2 DEF Idle, Nothing
  <1>4. \A e \in Entity :
          /\ txn[t].rows[e] = None => entity'[e] = entity[e]
          /\ txn[t].rows[e] # None => /\ entity'[e] # None /\ entity'[e].item = txn[t].rows[e].item
                                      /\ entity'[e].merged_to = txn[t].rows[e].merged_to
                                      /\ entity'[e].mark = txn[t].rows[e].mark
    <2> SUFFICES ASSUME NEW e \in Entity
                 PROVE  /\ txn[t].rows[e] = None => entity'[e] = entity[e]
                        /\ txn[t].rows[e] # None => /\ entity'[e] # None /\ entity'[e].item = txn[t].rows[e].item
                                                    /\ entity'[e].merged_to = txn[t].rows[e].merged_to
                                                    /\ entity'[e].mark = txn[t].rows[e].mark
      OBVIOUS
    <2>1. entity'[e] = Written(t, e)
      BY DEF Writes
    <2>2. txn[t].rows[e] \in Row \cup {None} /\ entity[e] \in Row \cup {None}
      BY <1>1 DEF Transaction, Table
    <2>3. CASE txn[t].rows[e] = None \/ entity[e] = None
      BY <2>1, <2>3 DEF Written
    <2>4. CASE txn[t].rows[e] # None /\ entity[e] # None
      <3> DEFINE row == txn[t].rows[e]
                 new == [row EXCEPT !.accepted = entity[e].accepted, !.published = entity[e].published]
      <3>1. entity'[e] = new
        BY <2>1, <2>4 DEF Written
      <3>2. row \in Row /\ entity[e] \in Row
        BY <2>2, <2>4
      <3> HIDE DEF row
      <3>3. new \in Row /\ new.item = row.item /\ new.merged_to = row.merged_to /\ new.mark = row.mark
        BY <3>2 DEF Row
      <3> QED BY <3>1, <3>3, <2>4, NoneAssumption DEF row
    <2> QED BY <2>3, <2>4
  <1>5. \A e \in Entity : entity[e] # None =>
          /\ entity'[e] # None /\ entity'[e].item = entity[e].item
          /\ entity[e].item \in Text /\ entity[e].merged_to => entity'[e].merged_to
    BY <1>1, <1>4 DEF Shape
  <1>6. Marked'
    BY <1>1, <1>4 DEF TwiceInv, Marked, Shape
  <1>7. RowLocks'
    <2> SUFFICES ASSUME NEW s \in Merge, NEW u \in Merge, s # u, NEW e \in Entity, txn'[s].rows[e] # None
                 PROVE  txn'[u].rows[e] = None
      BY DEF RowLocks
    <2>1. s # t /\ txn'[s] = txn[s]
      BY <1>2, <1>3
    <2>2. CASE u = t
      BY <1>3, <2>2
    <2>3. CASE u # t
      BY <1>2, <2>1, <2>3 DEF TwiceInv, RowLocks
    <2> QED BY <2>2, <2>3
  <1>8. TookMarked'
    <2>1. \A e \in Taken(t) : entity'[e] # None /\ (entity'[e].item \in Text => entity'[e].merged_to)
      BY <1>4 DEF Taken
    <2>2. \A s \in Merge \ {t} : \A e \in took[s] : entity'[e] # None /\ (entity'[e].item \in Text => entity'[e].merged_to)
      BY <1>5 DEF TwiceInv, TookMarked, TypeOK
    <2>3. \A s \in Merge : took'[s] # {} => txn'[s].pc = "over"
      BY <1>2, <1>3 DEF TwiceInv, TookMarked
    <2>4. \A s \in Merge : \A e \in took'[s] : entity'[e] # None /\ (entity'[e].item \in Text => entity'[e].merged_to)
      BY <1>2, <2>1, <2>2
    <2> QED BY <2>3, <2>4 DEF TookMarked
  <1>9. ASSUME NEW s \in Merge, s # t PROVE Shape(s)'
    <2>1. Shape(s) /\ txn'[s] = txn[s] /\ txn[s].todo \subseteq Entity
      BY <1>2, <1>9 DEF TwiceInv, TypeOK
    <2>2. \A e \in Entity : txn[s].rows[e] # None => txn[t].rows[e] = None
      BY <1>9 DEF TwiceInv, RowLocks
    <2>3. \A e \in Entity : txn[s].rows[e] # None \/ txn[s].loaded[e] # None => (entity[e] = None <=> entity'[e] = None)
      BY <1>4, <1>5, <2>1, <2>2 DEF Shape
    <2> QED BY <1>5, <2>1, <2>3 DEF Shape
  <1>10. Shape(t)'
    BY <1>3 DEF Shape
  <1>11. \A s \in Merge : \A e \in took'[s] : entity[e] # None /\ (IsText(e)' <=> IsText(e))
    <2>1. \A e \in Taken(t) : entity[e] # None
      BY <1>1 DEF Taken, Shape
    <2>2. \A s \in Merge : took[s] \subseteq Entity /\ Taken(s) \subseteq Entity
      BY DEF TwiceInv, TypeOK, Taken
    <2> QED BY <1>2, <1>5, <2>1, <2>2 DEF TwiceInv, TookMarked, IsText
  <1>12. ASSUME NEW s \in Merge, s # t, NEW e \in took[s] \cap Taken(t), NEW f \in took[s] \cap Taken(t),
                IsText(e), IsText(f)
         PROVE  e = f
    BY <1>12 DEF TwiceInv, HoldsOne, Pending
  <1>13. ASSUME NEW u \in Merge, u # t, NEW e \in Taken(t) \cap Pending(u), NEW f \in Taken(t) \cap Pending(u),
                IsText(e), IsText(f)
         PROVE  e = f
    <2>1. txn[u].rows[e] = None /\ txn[u].rows[f] = None
      BY <1>13 DEF TwiceInv, RowLocks, Taken
    <2>2. txn[u].loaded[e] # None /\ txn[u].loaded[f] # None /\ e \in Entity /\ f \in Entity
      BY <2>1 DEF Pending, Taken
    <2>3. Shape(u) /\ entity[e].item \notin Entry
      BY <1>13, EntryAssumption DEF TwiceInv, IsText
    <2>4. txn[u].todo # {}
      BY <1>13, <2>2, <2>3 DEF Shape, IsText
    <2> QED BY <2>2, <2>3, <2>4 DEF Shape
  <1>14. HoldsOne'
    <2> SUFFICES ASSUME NEW s \in Merge, NEW u \in Merge, s # u,
                        NEW e \in (took[s] \cap Pending(u))', NEW f \in (took[s] \cap Pending(u))',
                        IsText(e)', IsText(f)'
                 PROVE  e = f
      BY DEF HoldsOne
    <2>1. IsText(e) /\ IsText(f)
      BY <1>11
    <2>2. u # t
      <3>1. Pending(t)' = {}
        BY <1>3 DEF Pending, Taken
      <3> QED BY <3>1
    <2>3. e \in Pending(u) /\ f \in Pending(u)
      BY <1>2, <2>2 DEF Pending, Taken
    <2>4. CASE s = t
      BY <1>2, <1>13, <2>1, <2>2, <2>4, <2>3
    <2>5. CASE s # t
      BY <1>2, <2>1, <2>5, <2>3 DEF TwiceInv, HoldsOne
    <2> QED BY <2>4, <2>5
  <1>15. TwiceAtMostOnce'
    <2> SUFFICES ASSUME NEW s \in Merge, NEW u \in Merge, s # u,
                        NEW e \in took'[s] \cap took'[u], NEW f \in took'[s] \cap took'[u],
                        entity'[e].item \in Text, entity'[f].item \in Text
                 PROVE  e = f
      BY DEF TwiceAtMostOnce
    <2>1. IsText(e) /\ IsText(f)
      <3>1. e \in Entity /\ f \in Entity
        BY DEF TypeOK
      <3> QED BY <1>5, <1>11, <3>1 DEF IsText
    <2>2. CASE s = t
      BY <1>2, <1>12, <2>1, <2>2
    <2>3. CASE u = t
      BY <1>2, <1>12, <2>1, <2>3
    <2>4. CASE s # t /\ u # t
      BY <1>2, <2>1, <2>4 DEF TwiceInv, TwiceAtMostOnce, IsText
    <2> QED BY <2>2, <2>3, <2>4
  <1> QED BY <1>6, <1>7, <1>8, <1>9, <1>10, <1>14, <1>15 DEF TwiceInv

LEMMA EditEdited ==
  ASSUME TwiceInv,
         \/ \E x \in Entry, i \in Item, a, p \in BOOLEAN : CreateEntity(x, i, a, p)
         \/ \E e \in Entity :
              \/ \E a, p \in BOOLEAN : UpdateEntity(e, a, p)
              \/ \E i \in Text : UpdateEntityContent(e, i)
              \/ DeleteEntity(e)
         \/ \E x \in Entry : DeleteLexicalEntry(x)
  PROVE  Edited
  <1>1. entity \in Table
    BY DEF TwiceInv, TypeOK
  <1>2. ASSUME NEW x \in Entry, NEW i \in Item, NEW a \in BOOLEAN, NEW p \in BOOLEAN, CreateEntity(x, i, a, p)
        PROVE  Edited
    <2> DEFINE n == First(Free)
    <2>1. n \in Free /\ n \in Entity /\ entity[n] = None
      BY <1>2, FirstIn DEF CreateEntity, Free
    <2>2. ~Fresh(x, i, a, p).merged_to
      BY DEF Fresh
    <2>3. entity' = [entity EXCEPT ![n] = Fresh(x, i, a, p)] /\ UNCHANGED <<txn, took>>
      BY <1>2 DEF CreateEntity, Rows
    <2> HIDE DEF n
    <2>4. \A e \in Entity : entity'[e] = IF e = n THEN Fresh(x, i, a, p) ELSE entity[e]
      BY <1>1, <2>3 DEF Table
    <2> QED BY <2>1, <2>2, <2>3, <2>4 DEF Edited
  <1>3. ASSUME NEW e \in Entity, entity[e] # None,
               UNCHANGED <<txn, took>>, \A d \in Entity \ {e} : entity'[d] = entity[d],
               entity'[e] \in Row, entity'[e].item = entity[e].item,
               entity'[e].merged_to = entity[e].merged_to, entity[e].mark => entity'[e].mark
        PROVE  Edited
    BY <1>3, NoneAssumption DEF Edited
  <1>4. ASSUME NEW e \in Entity, NEW a \in BOOLEAN, NEW p \in BOOLEAN, UpdateEntity(e, a, p)
        PROVE  Edited
    <2>1. entity[e] \in Row /\ entity[e] # None
      BY <1>1, <1>4, NoneAssumption DEF UpdateEntity, Table
    <2>2. entity' = [entity EXCEPT ![e].accepted = a, ![e].published = p] /\ UNCHANGED <<txn, took>>
      BY <1>4 DEF UpdateEntity, Rows
    <2>3. entity'[e] = [entity[e] EXCEPT !.accepted = a, !.published = p] /\ \A d \in Entity \ {e} : entity'[d] = entity[d]
      BY <1>1, <2>1, <2>2 DEF Table, Row
    <2>4. /\ entity'[e] \in Row /\ entity'[e].item = entity[e].item
          /\ entity'[e].merged_to = entity[e].merged_to /\ entity'[e].mark = entity[e].mark
      BY <2>1, <2>3 DEF Row
    <2> QED BY <1>3, <2>1, <2>2, <2>3, <2>4
  <1>5. ASSUME NEW e \in Entity, NEW i \in Text, UpdateEntityContent(e, i)
        PROVE  Edited
    <2> DEFINE n == First(Free)
               new == Fresh(entity[e].parent, i, entity[e].accepted, FALSE)
    <2>1. n \in Free /\ n \in Entity /\ entity[n] = None
      BY <1>5, FirstIn DEF UpdateEntityContent, Free
    <2>2. ~new.merged_to
      BY DEF Fresh
    <2>3. entity' = [entity EXCEPT ![e].mark = TRUE, ![n] = new] /\ UNCHANGED <<txn, took>>
      BY <1>5 DEF UpdateEntityContent, Rows
    <2>4. entity[e] \in Row /\ entity[e] # None
      BY <1>1, <1>5 DEF UpdateEntityContent, Live, Table
    <2> HIDE DEF n, new
    <2>5. /\ entity'[n] = new /\ entity'[e] = [entity[e] EXCEPT !.mark = TRUE]
          /\ \A d \in Entity \ {e, n} : entity'[d] = entity[d]
      BY <1>1, <2>1, <2>3, <2>4 DEF Table, Row
    <2>6. /\ entity'[e] # None /\ entity'[e].item = entity[e].item /\ entity'[e].mark
          /\ entity'[e].merged_to = entity[e].merged_to
      BY <2>4, <2>5, NoneAssumption DEF Row
    <2> QED BY <2>1, <2>2, <2>3, <2>4, <2>5, <2>6 DEF Edited
  <1>6. ASSUME NEW e \in Entity, DeleteEntity(e) PROVE Edited
    <2>1. entity[e] \in Row /\ entity[e] # None
      BY <1>1, <1>6 DEF DeleteEntity, Live, Table
    <2>2. entity' = [entity EXCEPT ![e].mark = TRUE] /\ UNCHANGED <<txn, took>>
      BY <1>6 DEF DeleteEntity, Rows
    <2>3. entity'[e] = [entity[e] EXCEPT !.mark = TRUE] /\ \A d \in Entity \ {e} : entity'[d] = entity[d]
      BY <1>1, <2>1, <2>2 DEF Table, Row
    <2>4. /\ entity'[e] \in Row /\ entity'[e].item = entity[e].item
          /\ entity'[e].merged_to = entity[e].merged_to /\ entity'[e].mark
      BY <2>1, <2>3 DEF Row
    <2> QED BY <1>3, <2>1, <2>2, <2>3, <2>4
  <1>7. ASSUME NEW x \in Entry, DeleteLexicalEntry(x) PROVE Edited
    BY <1>7 DEF DeleteLexicalEntry, Edited
  <1> QED BY <1>2, <1>4, <1>5, <1>6, <1>7

LEMMA NextTwice == TwiceInv /\ [Next]_vars => TwiceInv'
  <1> SUFFICES ASSUME TwiceInv, [Next]_vars PROVE TwiceInv'
    OBVIOUS
  <1>1. TypeOK'
    BY NextTyped DEF TwiceInv
  <1>2. ASSUME NEW t \in Merge, MergeStep(t) PROVE TwiceInv'
    <2>1. CASE Commit(t) \/ CommitFailed(t)
      <3>1. Open(t) /\ Writes(t)
        BY <2>1 DEF Commit, CommitFailed, Open
      <3> QED BY <1>1, <3>1, WritesTwice
    <2>2. ASSUME Sound(t) PROVE TwiceInv'
      BY <1>1, <2>2, SoundTwice
    <2> QED BY <1>2, <2>1, <2>2, CheckSound, GatherSound, LoadSound, MarkSound, RetireSound, RedirectSound, AbortSound
        DEF MergeStep
  <1>3. ASSUME Edited PROVE TwiceInv'
    BY <1>1, <1>3, EditedTwice
  <1>4. CASE UNCHANGED vars
    BY <1>3, <1>4 DEF vars, Edited
  <1> QED BY <1>2, <1>3, <1>4, EditEdited DEF Next

LEMMA InitTwice == Init => TwiceInv
  <1> SUFFICES ASSUME Init PROVE TwiceInv
    OBVIOUS
  <1>1. TypeOK
    BY InitTyped
  <1>2. \A e \in Entity : entity[e] # None => ~entity[e].merged_to
    BY StartAssumption DEF Init
  <1>3. /\ \A t \in Merge : txn[t] = Idle /\ took[t] = {}
        /\ \A e \in Entity : Nothing[e] = None
    BY DEF Init, Nothing
  <1>4. \A t \in Merge : Shape(t)
    BY <1>3 DEF Shape, Idle
  <1>5. RowLocks
    BY <1>3 DEF RowLocks, Idle
  <1> QED BY <1>1, <1>2, <1>3, <1>4, <1>5 DEF TwiceInv, Marked, TookMarked, HoldsOne, TwiceAtMostOnce

(* However merges and other requests overlap, two merges that are both     *)
(* committed take at most one shared text twice.                           *)
THEOREM OverlapTakesOne == Spec => []TwiceAtMostOnce
  <1>1. Spec => []TwiceInv
    BY InitTwice, NextTwice, PTL DEF Spec
  <1>2. TwiceInv => TwiceAtMostOnce
    BY DEF TwiceInv
  <1> QED BY <1>1, <1>2, PTL

-----------------------------------------------------------------------------
(* What a redirection that goes well does to the rows of its merge. *)
LEMMA RedirectRows ==
  ASSUME TypeOK, NEW t \in Merge, Shape(t), Redirect(t), ~Goes(t, [txn[t] EXCEPT !.pc = "failed"])
  PROVE  /\ UNCHANGED entity /\ \A s \in Merge \ {t} : txn'[s] = txn[s]
         /\ txn[t].pc = "merging" /\ txn[t].todo = {}
         /\ txn'[t].todo = {} /\ txn'[t].retired = txn[t].retired /\ txn'[t].group = txn[t].group
         /\ txn'[t].pc \in {"merging", "failed"}
         /\ \E l \in Entity, n \in Entity, row \in Row, old \in Row, link \in Row :
              /\ row = txn[t].loaded[l] /\ row.parent \notin txn[t].group
              /\ n # l /\ entity[n] = None /\ txn[t].rows[n] = None
              /\ old = [row EXCEPT !.mark = TRUE, !.merged_by = TRUE]
              /\ old.parent = row.parent /\ old.item = row.item /\ old.mark
              /\ link.parent = row.parent /\ link.item = t /\ link.mark = row.mark
              /\ \A d \in Entity :
                   /\ txn'[t].rows[d] = IF d = n THEN link ELSE IF d = l THEN old ELSE txn[t].rows[d]
                   /\ txn'[t].loaded[d] = IF d = l THEN None ELSE txn[t].loaded[d]
  <1> DEFINE l == First({e \in Entity : txn[t].loaded[e] # None})
             row == txn[t].loaded[l]
             n == First(Free)
             old == [row EXCEPT !.mark = TRUE, !.merged_by = TRUE]
             link == [row EXCEPT !.item = t, !.accepted = FALSE, !.published = FALSE, !.merged_by = FALSE]
  <1>1. txn[t] \in Transaction /\ txn[t].pc = "merging" /\ txn[t].todo = {} /\ txn[t].loaded # Nothing
    BY DEF TypeOK, Transaction, Redirect
  <1>2. l \in Entity /\ row # None
    <2>1. {e \in Entity : txn[t].loaded[e] # None} # {}
      BY <1>1, SomeRow DEF Transaction
    <2> QED BY <2>1, FirstIn
  <1>3. row.parent \notin txn[t].group
    BY Zenon DEF Redirect
  <1>4. Free # {}
    BY <1>3, Zenon DEF Redirect
  <1>5. Goes(t, [txn[t] EXCEPT !.rows = [@ EXCEPT ![l] = old, ![n] = link],
                               !.loaded[l] = None,
                               !.pc = IF row.parts THEN "failed" ELSE @])
    BY <1>3, Zenon DEF Redirect
  <1>6. n \in Free /\ n \in Entity
    BY <1>4, FirstIn DEF Free
  <1>7. entity[l] # None \/ txn[t].rows[l] # None
    BY <1>1, <1>2 DEF Shape
  <1>8. n # l /\ entity[n] = None /\ txn[t].rows[n] = None
    BY <1>6, <1>7 DEF Free
  <1>9. row \in Row
    BY <1>1, <1>2 DEF Transaction, Table
  <1> HIDE DEF l, row, n
  <1>10. /\ old \in Row /\ old.parent = row.parent /\ old.item = row.item /\ old.mark
         /\ link \in Row /\ link.parent = row.parent /\ link.item = t /\ link.mark = row.mark
    BY <1>9 DEF Row, Item, Entry
  <1>11. old = [row EXCEPT !.mark = TRUE, !.merged_by = TRUE]
    OBVIOUS
  <1> HIDE DEF old, link
  <1>12. /\ txn'[t].rows = [txn[t].rows EXCEPT ![l] = old, ![n] = link]
         /\ txn'[t].loaded = [txn[t].loaded EXCEPT ![l] = None]
         /\ txn'[t].todo = {} /\ txn'[t].pc \in {"merging", "failed"}
         /\ txn'[t].retired = txn[t].retired /\ txn'[t].group = txn[t].group
         /\ UNCHANGED entity /\ \A s \in Merge \ {t} : txn'[s] = txn[s]
    BY <1>1, <1>5 DEF Goes, Transaction, TypeOK
  <1>13. \A d \in Entity :
           /\ txn'[t].rows[d] = IF d = n THEN link ELSE IF d = l THEN old ELSE txn[t].rows[d]
           /\ txn'[t].loaded[d] = IF d = l THEN None ELSE txn[t].loaded[d]
    BY <1>1, <1>2, <1>6, <1>8, <1>12 DEF Transaction, Table
  <1>14. row = txn[t].loaded[l]
    BY DEF row
  <1> DEFINE P(d, m, r, o, k) ==
           /\ r = txn[t].loaded[d] /\ r.parent \notin txn[t].group
           /\ m # d /\ entity[m] = None /\ txn[t].rows[m] = None
           /\ o = [r EXCEPT !.mark = TRUE, !.merged_by = TRUE]
           /\ o.parent = r.parent /\ o.item = r.item /\ o.mark
           /\ k.parent = r.parent /\ k.item = t /\ k.mark = r.mark
           /\ \A c \in Entity :
                /\ txn'[t].rows[c] = IF c = m THEN k ELSE IF c = d THEN o ELSE txn[t].rows[c]
                /\ txn'[t].loaded[c] = IF c = d THEN None ELSE txn[t].loaded[c]
  <1>15. P(l, n, row, old, link)
    BY <1>3, <1>8, <1>10, <1>11, <1>13, <1>14
  <1>16. \E d \in Entity, m \in Entity, r \in Row, o \in Row, k \in Row : P(d, m, r, o, k)
    <2> HIDE DEF P
    <2> QED BY <1>2, <1>6, <1>9, <1>10, <1>15
  <1> QED BY <1>1, <1>12, <1>16

-----------------------------------------------------------------------------
(* Nothing is in the entry of a merge, or leads to it, before the merge is over. *)
Foreign(row, t) == row # None => row.parent # t /\ row.item # t
NotYet ==
    \A t \in Merge : txn[t].pc # "over" =>
        \A e \in Entity :
            /\ Foreign(entity[e], t)
            /\ \A s \in Merge \ {t} : Foreign(txn[s].rows[e], t) /\ Foreign(txn[s].loaded[e], t)

LEMMA RunsNotYet ==
  ASSUME NotYet, NEW t \in Merge, UNCHANGED entity, \A s \in Merge \ {t} : txn'[s] = txn[s],
         txn'[t].pc # "over" => txn[t].pc # "over",
         \A u \in Merge \ {t} : txn[u].pc # "over" =>
            \A e \in Entity : Foreign(txn'[t].rows[e], u) /\ Foreign(txn'[t].loaded[e], u)
  PROVE  NotYet'
  BY DEF NotYet, Foreign

LEMMA IdleNotYet ==
  ASSUME NotYet, NEW t \in Merge, UNCHANGED entity, \A s \in Merge \ {t} : txn'[s] = txn[s],
         txn'[t].pc # "over" => txn[t].pc # "over",
         \A e \in Entity : /\ txn'[t].rows[e] = None \/ txn'[t].rows[e] = txn[t].rows[e]
                           /\ txn'[t].loaded[e] = None \/ txn'[t].loaded[e] = txn[t].loaded[e]
  PROVE  NotYet'
  <1>1. ASSUME NEW u \in Merge \ {t}, txn[u].pc # "over", NEW e \in Entity
        PROVE  Foreign(txn'[t].rows[e], u) /\ Foreign(txn'[t].loaded[e], u)
    BY <1>1 DEF NotYet, Foreign
  <1> QED BY <1>1, RunsNotYet

LEMMA EditNotYet ==
  ASSUME TypeOK, NotYet, UNCHANGED txn,
         \A e \in Entity : \/ entity'[e] = entity[e]
                           \/ \A t \in Merge : txn[t].pc # "over" => Foreign(entity'[e], t)
  PROVE  NotYet'
  BY DEF NotYet, Foreign

LEMMA NextNotYet ==
  ASSUME HomeInv, TwiceInv, NotYet, [Next]_vars
  PROVE  NotYet'
  <1>0. TypeOK /\ \A t \in Merge : txn[t] \in Transaction /\ Shape(t) /\ entity \in Table
    BY DEF HomeInv, TwiceInv, TypeOK, Transaction
  <1>1. ASSUME NEW t \in Merge, NEW new \in Transaction, Goes(t, new), txn[t].pc # "over",
               \A u \in Merge \ {t} : txn[u].pc # "over" =>
                  \A e \in Entity : Foreign(new.rows[e], u) /\ Foreign(new.loaded[e], u)
        PROVE  NotYet'
    <2>1. UNCHANGED entity /\ txn'[t] = new /\ \A s \in Merge \ {t} : txn'[s] = txn[s]
      BY <1>0, <1>1 DEF Goes, TypeOK
    <2> QED BY <1>1, <2>1, RunsNotYet
  <1>2. ASSUME NEW t \in Merge, NEW G \in SUBSET Entry, CheckGroup(t, G) PROVE NotYet'
    <2>1. /\ UNCHANGED entity /\ \A s \in Merge \ {t} : txn'[s] = txn[s]
          /\ txn[t].pc = "idle"
          /\ txn'[t].rows = txn[t].rows /\ txn'[t].loaded = txn[t].loaded
      BY <1>0, <1>2 DEF CheckGroup, Goes, TypeOK, Transaction
    <2> QED BY <2>1, IdleNotYet
  <1>3. ASSUME NEW t \in Merge, Gather(t) PROVE NotYet'
    <2> DEFINE S == {e \in Entity : Live(entity[e]) /\ entity[e].parent \in txn[t].group}
               Items == {entity[e].item : e \in S}
               Injective(f) == \A i, j \in DOMAIN f : f[i] = f[j] => i = j
               Draws == [Items -> Free]
               id == CHOOSE d \in Draws : Injective(d)
               new == [e \in Entity |->
                         IF \E i \in DOMAIN id : id[i] = e
                         THEN Merged(t, S, CHOOSE i \in DOMAIN id : id[i] = e) ELSE None]
    <2>1. id \in Draws /\ DOMAIN id = Items
      BY <1>3 DEF Gather
    <2>2. ASSUME NEW e \in Entity, new[e] # None
          PROVE  \E d \in Entity : entity[d] # None /\ new[e].parent = t /\ new[e].item = entity[d].item
      <3>1. PICK i \in Items : new[e] = Merged(t, S, i)
        BY <2>1, <2>2
      <3>2. Merged(t, S, i).parent = t /\ Merged(t, S, i).item = i
        BY DEF Merged, Fresh
      <3> HIDE DEF new, id
      <3> QED BY <3>1, <3>2 DEF Live
    <2>3. Goes(t, [txn[t] EXCEPT !.pc = "merging", !.todo = S, !.rows = new]) /\ txn[t].pc = "checked"
      BY <1>3 DEF Gather
    <2> HIDE DEF new, S
    <2>4. /\ UNCHANGED entity /\ \A s \in Merge \ {t} : txn'[s] = txn[s]
          /\ txn'[t].rows = new /\ txn'[t].loaded = txn[t].loaded
      BY <1>0, <2>3 DEF Goes, TypeOK, Transaction
    <2>5. ASSUME NEW u \in Merge \ {t}, txn[u].pc # "over", NEW e \in Entity
          PROVE  Foreign(txn'[t].rows[e], u) /\ Foreign(txn'[t].loaded[e], u)
      BY <2>2, <2>4, <2>5 DEF NotYet, Foreign
    <2> QED BY <2>3, <2>4, <2>5, RunsNotYet
  <1>4. ASSUME NEW t \in Merge, Load(t) PROVE NotYet'
    <2> DEFINE e == First(txn[t].todo)
    <2>1. txn[t].pc = "merging" /\ e \in Entity /\ e \in txn[t].todo
      BY <1>0, <1>4, FirstIn DEF Load, Transaction
    <2>2. \/ Goes(t, [txn[t] EXCEPT !.pc = "failed"])
          \/ Goes(t, [txn[t] EXCEPT !.loaded[e] = entity[e]])
      BY <1>4 DEF Load
    <2> HIDE DEF e
    <2>3. /\ UNCHANGED entity /\ \A s \in Merge \ {t} : txn'[s] = txn[s]
          /\ txn'[t].rows = txn[t].rows
          /\ \A d \in Entity : txn'[t].loaded[d] \in {txn[t].loaded[d], entity[d]}
      <3>1. CASE Goes(t, [txn[t] EXCEPT !.pc = "failed"])
        BY <1>0, <3>1 DEF Goes, TypeOK, Transaction
      <3>2. CASE Goes(t, [txn[t] EXCEPT !.loaded[e] = entity[e]])
        BY <1>0, <2>1, <3>2 DEF Goes, TypeOK, Transaction, Table
      <3> QED BY <2>2, <3>1, <3>2
    <2>4. ASSUME NEW u \in Merge \ {t}, txn[u].pc # "over", NEW d \in Entity
          PROVE  Foreign(txn'[t].rows[d], u) /\ Foreign(txn'[t].loaded[d], u)
      BY <2>3, <2>4 DEF NotYet, Foreign
    <2> QED BY <2>1, <2>3, <2>4, RunsNotYet
  <1>5. ASSUME NEW t \in Merge, Mark(t) PROVE NotYet'
    <2> DEFINE e == First(txn[t].todo)
               row == [txn[t].loaded[e] EXCEPT !.mark = TRUE, !.merged_to = TRUE]
    <2>1. txn[t].pc = "merging" /\ e \in Entity /\ txn[t].loaded[e] # None
      BY <1>0, <1>5, FirstIn DEF Mark, Transaction
    <2>2. Goes(t, [txn[t] EXCEPT !.rows[e] = row, !.loaded[e] = None, !.todo = @ \ {e}])
      BY <1>5 DEF Mark
    <2>3. row.parent = txn[t].loaded[e].parent /\ row.item = txn[t].loaded[e].item
      BY <1>0, <2>1 DEF Transaction, Table, Row
    <2> HIDE DEF e, row
    <2>4. /\ UNCHANGED entity /\ \A s \in Merge \ {t} : txn'[s] = txn[s]
          /\ \A d \in Entity : /\ txn'[t].rows[d] = IF d = e THEN row ELSE txn[t].rows[d]
                               /\ txn'[t].loaded[d] = IF d = e THEN None ELSE txn[t].loaded[d]
      BY <1>0, <2>1, <2>2 DEF Goes, TypeOK, Transaction, Table
    <2>5. ASSUME NEW u \in Merge \ {t}, txn[u].pc # "over", NEW d \in Entity
          PROVE  Foreign(txn'[t].rows[d], u) /\ Foreign(txn'[t].loaded[d], u)
      BY <2>1, <2>3, <2>4, <2>5 DEF NotYet, Foreign
    <2> QED BY <2>1, <2>4, <2>5, RunsNotYet
  <1>6. ASSUME NEW t \in Merge, Retire(t) PROVE NotYet'
    <2> DEFINE x == First(txn[t].group \ txn[t].retired)
               read == [l \in Entity |-> IF Live(Seen(t, l)) /\ Seen(t, l).item = x THEN Seen(t, l) ELSE None]
    <2>1. Goes(t, [txn[t] EXCEPT !.retired = @ \cup {x}, !.loaded = read]) /\ txn[t].pc = "merging"
      BY <1>6 DEF Retire
    <2>2. \A d \in Entity : read[d] \in {None, txn[t].rows[d], entity[d]}
      BY DEF Seen
    <2> HIDE DEF x, read
    <2>3. /\ UNCHANGED entity /\ \A s \in Merge \ {t} : txn'[s] = txn[s]
          /\ txn'[t].rows = txn[t].rows /\ txn'[t].loaded = read
      BY <1>0, <2>1 DEF Goes, TypeOK, Transaction
    <2>4. ASSUME NEW u \in Merge \ {t}, txn[u].pc # "over", NEW d \in Entity
          PROVE  Foreign(txn'[t].rows[d], u) /\ Foreign(txn'[t].loaded[d], u)
      BY <2>2, <2>3, <2>4 DEF NotYet, Foreign
    <2> QED BY <2>1, <2>3, <2>4, RunsNotYet
  <1>7. ASSUME NEW t \in Merge, Redirect(t) PROVE NotYet'
    <2>1. CASE Goes(t, [txn[t] EXCEPT !.pc = "failed"])
      <3>1. /\ UNCHANGED entity /\ \A s \in Merge \ {t} : txn'[s] = txn[s]
            /\ txn'[t].rows = txn[t].rows /\ txn'[t].loaded = txn[t].loaded
        BY <1>0, <2>1 DEF Goes, TypeOK, Transaction
      <3>2. txn[t].pc # "over"
        BY <1>7 DEF Redirect
      <3> QED BY <3>1, <3>2, IdleNotYet
    <2>2. CASE ~Goes(t, [txn[t] EXCEPT !.pc = "failed"])
      <3>1. PICK l \in Entity, n \in Entity, row \in Row, old \in Row, link \in Row :
               /\ row = txn[t].loaded[l] /\ row.parent \notin txn[t].group
               /\ n # l /\ entity[n] = None /\ txn[t].rows[n] = None
               /\ old = [row EXCEPT !.mark = TRUE, !.merged_by = TRUE]
               /\ old.parent = row.parent /\ old.item = row.item /\ old.mark
               /\ link.parent = row.parent /\ link.item = t /\ link.mark = row.mark
               /\ \A d \in Entity :
                    /\ txn'[t].rows[d] = IF d = n THEN link ELSE IF d = l THEN old ELSE txn[t].rows[d]
                    /\ txn'[t].loaded[d] = IF d = l THEN None ELSE txn[t].loaded[d]
        BY <1>0, <1>7, <2>2, RedirectRows, Zenon
      <3>2. /\ UNCHANGED entity /\ \A s \in Merge \ {t} : txn'[s] = txn[s]
            /\ txn[t].pc # "over"
        BY <1>0, <1>7, <2>2, RedirectRows
      <3>3. row # None
        BY NoneAssumption
      <3>4. ASSUME NEW u \in Merge \ {t}, txn[u].pc # "over", NEW d \in Entity
            PROVE  Foreign(txn'[t].rows[d], u) /\ Foreign(txn'[t].loaded[d], u)
        <4>1. /\ row.parent # u /\ row.item # u
              /\ Foreign(txn[t].rows[d], u) /\ Foreign(txn[t].loaded[d], u)
          BY <3>1, <3>3, <3>4 DEF NotYet, Foreign
        <4>2. Foreign(link, u) /\ Foreign(old, u)
          BY <3>1, <3>4, <4>1 DEF Foreign
        <4>3. Foreign(None, u)
          BY DEF Foreign
        <4> QED BY <3>1, <4>1, <4>2, <4>3
      <3> QED BY <3>2, <3>4, RunsNotYet
    <2> QED BY <2>1, <2>2
  <1>8. ASSUME NEW t \in Merge, Abort(t) PROVE NotYet'
    <2>1. /\ txn'[t] = [Idle EXCEPT !.pc = "over"] /\ UNCHANGED entity
          /\ \A s \in Merge \ {t} : txn'[s] = txn[s]
      BY <1>0, <1>8 DEF Abort, Goes, TypeOK
    <2>2. txn'[t].pc = "over" /\ \A e \in Entity : txn'[t].rows[e] = None /\ txn'[t].loaded[e] = None
      BY <2>1 DEF Idle, Nothing
    <2> QED BY <2>1, <2>2, IdleNotYet
  <1>9. ASSUME NEW t \in Merge, Open(t), Writes(t) PROVE NotYet'
    <2>1. /\ txn'[t] = [Idle EXCEPT !.pc = "over"] /\ \A s \in Merge \ {t} : txn'[s] = txn[s]
          /\ entity' = [e \in Entity |-> Written(t, e)]
      BY <1>0, <1>9 DEF Writes, TypeOK
    <2>2. txn'[t].pc = "over" /\ \A e \in Entity : txn'[t].rows[e] = None /\ txn'[t].loaded[e] = None
      BY <2>1 DEF Idle, Nothing
    <2>3. ASSUME NEW e \in Entity, NEW u \in Merge \ {t}, txn[u].pc # "over" PROVE Foreign(entity'[e], u)
      <3>1. entity'[e] = Written(t, e)
        BY <2>1
      <3>2. txn[t].rows[e] # None => Written(t, e).parent = txn[t].rows[e].parent /\ Written(t, e).item = txn[t].rows[e].item
        BY <1>0 DEF Written, Transaction, Table, Row
      <3>3. Foreign(entity[e], u) /\ Foreign(txn[t].rows[e], u)
        BY <2>3 DEF NotYet
      <3> QED BY <3>1, <3>2, <3>3 DEF Foreign, Written
    <2>4. ASSUME NEW u \in Merge, txn'[u].pc # "over", NEW e \in Entity, NEW s \in Merge \ {u}
          PROVE  Foreign(txn'[s].rows[e], u) /\ Foreign(txn'[s].loaded[e], u)
      <3>1. u # t /\ txn[u].pc # "over"
        BY <2>1, <2>2, <2>4
      <3>2. CASE s = t
        BY <2>2, <3>2 DEF Foreign
      <3>3. CASE s # t
        BY <2>1, <2>4, <3>1, <3>3 DEF NotYet
      <3> QED BY <3>2, <3>3
    <2>5. ASSUME NEW u \in Merge, txn'[u].pc # "over", NEW e \in Entity PROVE Foreign(entity'[e], u)
      BY <2>1, <2>2, <2>3, <2>5
    <2> QED BY <2>4, <2>5 DEF NotYet, Foreign
  <1>10. ASSUME NEW t \in Merge, MergeStep(t) PROVE NotYet'
    BY <1>2, <1>3, <1>4, <1>5, <1>6, <1>7, <1>8, <1>9, <1>10 DEF MergeStep, Commit, CommitFailed, Open
  <1>11. ASSUME NEW x \in Entry, NEW i \in Item, NEW a \in BOOLEAN, NEW p \in BOOLEAN, CreateEntity(x, i, a, p)
        PROVE  NotYet'
    <2> DEFINE n == First(Free)
    <2>1. UNCHANGED txn /\ entity' = [entity EXCEPT ![n] = Fresh(x, i, a, p)]
      BY <1>11 DEF CreateEntity, Rows
    <2>2. Fresh(x, i, a, p).parent = x /\ Fresh(x, i, a, p).item = i
      BY DEF Fresh
    <2>3. \A t \in Merge : txn[t].pc # "over" => x # t /\ i # t
      BY <1>11 DEF CreateEntity, HomeInv, Made, Entry
    <2>4. \A e \in Entity : entity'[e] = entity[e] \/ entity'[e] = Fresh(x, i, a, p)
      BY <1>0, <2>1 DEF TypeOK, Table
    <2> QED BY <1>0, <2>1, <2>2, <2>3, <2>4, EditNotYet DEF Foreign
  <1>12. ASSUME NEW e \in Entity, NEW a \in BOOLEAN, NEW p \in BOOLEAN, UpdateEntity(e, a, p) PROVE NotYet'
    <2>1. UNCHANGED txn /\ entity' = [entity EXCEPT ![e].accepted = a, ![e].published = p] /\ entity[e] \in Row
      BY <1>0, <1>12 DEF UpdateEntity, Rows, TypeOK, Table
    <2>2. /\ \A d \in Entity \ {e} : entity'[d] = entity[d]
          /\ entity'[e].parent = entity[e].parent /\ entity'[e].item = entity[e].item
      BY <1>0, <2>1 DEF TypeOK, Table, Row
    <2>3. entity[e] # None
      BY <2>1, NoneAssumption
    <2>4. \A t \in Merge : txn[t].pc # "over" => Foreign(entity'[e], t)
      BY <1>0, <2>1, <2>2, <2>3 DEF NotYet, Foreign, UpdateEntity
    <2> QED BY <1>0, <2>1, <2>2, <2>4, EditNotYet
  <1>13. ASSUME NEW e \in Entity, NEW i \in Text, UpdateEntityContent(e, i) PROVE NotYet'
    <2> DEFINE n == First(Free)
               new == Fresh(entity[e].parent, i, entity[e].accepted, FALSE)
    <2>1. /\ UNCHANGED txn /\ entity' = [entity EXCEPT ![e].mark = TRUE, ![n] = new]
          /\ entity[e] \in Row /\ entity[e] # None /\ Free # {}
      BY <1>0, <1>13 DEF UpdateEntityContent, Rows, TypeOK, Table, Live
    <2>2. n \in Entity /\ n # e
      BY <2>1, FirstIn DEF Free
    <2>3. new.parent = entity[e].parent /\ new.item = i
      BY DEF Fresh
    <2> HIDE DEF n, new
    <2>4. /\ \A d \in Entity \ {e, n} : entity'[d] = entity[d]
          /\ entity'[e].parent = entity[e].parent /\ entity'[e].item = entity[e].item /\ entity'[n] = new
      BY <1>0, <2>1, <2>2 DEF TypeOK, Table, Row
    <2>5. \A t \in Merge : i # t
      BY EntryAssumption DEF Entry
    <2>6. \A t \in Merge : txn[t].pc # "over" => Foreign(entity'[e], t) /\ Foreign(entity'[n], t)
      BY <1>13, <2>1, <2>3, <2>4, <2>5 DEF NotYet, Foreign, UpdateEntityContent
    <2> QED BY <1>0, <2>1, <2>4, <2>6, EditNotYet
  <1>14. ASSUME NEW e \in Entity, DeleteEntity(e) PROVE NotYet'
    <2>1. UNCHANGED txn /\ entity' = [entity EXCEPT ![e].mark = TRUE] /\ entity[e] \in Row /\ entity[e] # None
      BY <1>0, <1>14 DEF DeleteEntity, Rows, TypeOK, Table, Live
    <2>2. /\ \A d \in Entity \ {e} : entity'[d] = entity[d]
          /\ entity'[e].parent = entity[e].parent /\ entity'[e].item = entity[e].item
      BY <1>0, <2>1 DEF TypeOK, Table, Row
    <2>3. \A t \in Merge : txn[t].pc # "over" => Foreign(entity'[e], t)
      BY <1>14, <2>1, <2>2 DEF NotYet, Foreign, DeleteEntity
    <2> QED BY <1>0, <2>1, <2>2, <2>3, EditNotYet
  <1>15. CASE UNCHANGED <<entity, txn>>
    BY <1>15 DEF NotYet, Foreign
  <1> QED BY <1>10, <1>11, <1>12, <1>13, <1>14, <1>15 DEF Next, vars, DeleteLexicalEntry

-----------------------------------------------------------------------------
(* How far a merge has come that has gathered its entities: what was live in its entries,  *)
(* and the rows that it has made and not replaced.                                         *)
Old(t) == LiveIn(entity, txn[t].group)
Created(t) == {n \in Entity : entity[n] = None /\ Live(txn[t].rows[n])}

(* It has marked the old entities it is done with, and links for which there is a new one. *)
OldMarked(t) ==
    LET rows == txn[t].rows
    IN  /\ txn[t].todo \subseteq Old(t)
        /\ \A e \in Entity : entity[e] # None /\ rows[e] # None => rows[e].mark /\ e \notin txn[t].todo
        /\ \A e \in Old(t) : rows[e] # None \/ e \in txn[t].todo
        /\ \A e \in Entity \ Old(t) : entity[e] # None /\ rows[e] # None =>
             /\ Live(entity[e]) /\ entity[e].item \in txn[t].group
             /\ \E n \in Created(t) : rows[n].item = t /\ rows[n].parent = entity[e].parent

(* What it has made is a union of old entities, or leads to its entry from where a link was. *)
NewFromOld(t) ==
    LET rows == txn[t].rows
    IN  \A n \in Created(t) :
          /\ rows[n].parent \notin txn[t].group
          /\ rows[n].item # t =>
               /\ \E e \in Old(t) : entity[e].item = rows[n].item
               /\ rows[n] = Merged(t, Old(t), rows[n].item)
               /\ \A m \in Created(t) : rows[m].item = rows[n].item => m = n
          /\ rows[n].item = t /\ rows[n].parent = t => \E e \in Old(t) : entity[e].item \in txn[t].group

(* Every old entity has its successor. *)
OldInNew(t) ==
    LET rows == txn[t].rows
    IN  \A e \in Old(t) : \E n \in Created(t) :
          /\ rows[n].parent = t
          /\ \/ rows[n].item = entity[e].item
             \/ rows[n].item = t /\ entity[e].item \in txn[t].group

(* The links that it has read are those to the entries it has marked that it sees. *)
LinksRead(t) ==
    /\ txn[t].todo # {} => txn[t].retired = {}
    /\ txn[t].todo = {} => \A e \in Entity :
         /\ txn[t].loaded[e] # None => txn[t].loaded[e] = Seen(t, e) /\ Live(Seen(t, e)) /\ Seen(t, e).item \in txn[t].retired
         /\ Live(Seen(t, e)) /\ Seen(t, e).item \in txn[t].retired => txn[t].loaded[e] # None

Progress(t) ==
    /\ txn[t].pc = "checked" => txn[t].retired = {}
    /\ txn[t].pc = "merging" => OldMarked(t) /\ NewFromOld(t) /\ OldInNew(t) /\ LinksRead(t)

KeepInv == HomeInv /\ TwiceInv /\ NotYet /\ (~overlap => \A t \in Merge : Progress(t))

(* A merge that is through with its links and commits has kept everything. *)
LEMMA CommitKeeps ==
  ASSUME KeepInv, NEW t \in Merge, ~overlap, Commit(t)
  PROVE  Kept(t)
  <1> DEFINE G == txn[t].group
             T == txn[t]
  <1>1. /\ txn[t] \in Transaction /\ entity \in Table /\ Shape(t)
        /\ T.pc = "merging" /\ T.todo = {} /\ T.retired = G /\ \A e \in Entity : T.loaded[e] = None
    BY DEF KeepInv, TwiceInv, TypeOK, Transaction, Commit, Nothing
  <1>2. OldMarked(t) /\ NewFromOld(t) /\ OldInNew(t) /\ LinksRead(t)
    BY <1>1 DEF KeepInv, Progress
  <1>3. \A e \in Entity : Foreign(entity[e], t)
    BY <1>1 DEF KeepInv, NotYet
  <1>4. \A e \in Entity :
          /\ T.rows[e] = None => entity'[e] = entity[e]
          /\ T.rows[e] # None => /\ Live(entity'[e]) <=> Live(T.rows[e])
                                 /\ entity'[e].parent = T.rows[e].parent /\ entity'[e].item = T.rows[e].item
          /\ e \in Created(t) => entity'[e] = T.rows[e]
    <2> SUFFICES ASSUME NEW e \in Entity
                 PROVE  /\ T.rows[e] = None => entity'[e] = entity[e]
                        /\ T.rows[e] # None => /\ Live(entity'[e]) <=> Live(T.rows[e])
                                               /\ entity'[e].parent = T.rows[e].parent /\ entity'[e].item = T.rows[e].item
                        /\ e \in Created(t) => entity'[e] = T.rows[e]
      OBVIOUS
    <2>1. entity'[e] = Written(t, e)
      BY DEF Commit, Writes
    <2>2. CASE T.rows[e] = None \/ entity[e] = None
      BY <2>1, <2>2 DEF Written, Created, Live
    <2>3. CASE T.rows[e] # None /\ entity[e] # None
      <3> DEFINE row == T.rows[e]
                 new == [row EXCEPT !.accepted = entity[e].accepted, !.published = entity[e].published]
      <3>1. entity'[e] = new
        BY <2>1, <2>3 DEF Written
      <3>2. row \in Row /\ entity[e] \in Row
        BY <1>1, <2>3 DEF Transaction, Table
      <3> HIDE DEF row
      <3>3. new \in Row /\ new.item = row.item /\ new.parent = row.parent /\ new.mark = row.mark
        BY <3>2 DEF Row
      <3> HIDE DEF new
      <3> QED BY <2>3, <3>1, <3>3, NoneAssumption DEF row, Live, Created
    <2> QED BY <2>2, <2>3
  <1>5. \A e \in Entity : T.rows[e] # None /\ Live(T.rows[e]) <=> e \in Created(t)
    BY <1>2 DEF OldMarked, Created, Live
  <1>6. \A e \in Entity : T.rows[e] = None => ~(Live(entity[e]) /\ entity[e].item \in G)
    BY <1>1, <1>2 DEF LinksRead, Seen
  <1>7. \A n \in Created(t) : T.rows[n].item \notin G
    BY <1>1, <1>2, <1>5 DEF LinksRead, Seen, Created
  <1>8. \A e \in Old(t) : T.rows[e] # None
    BY <1>1, <1>2 DEF OldMarked
  <1>9. Old(t) = LiveIn(entity, G) /\ Old(t) \subseteq Entity /\ Created(t) \subseteq Entity
    BY DEF Old, LiveIn, Created
  <1>10. \A e \in Entity : Live(entity'[e]) => e \in Created(t) \/ (T.rows[e] = None /\ entity'[e] = entity[e])
    BY <1>4, <1>5
  <1>11. ASSUME NEW n \in LiveIn(entity', {t}) PROVE n \in Created(t) /\ T.rows[n].parent = t /\ entity'[n] = T.rows[n]
    <2>1. n \in Entity /\ Live(entity'[n]) /\ entity'[n].parent = t
      BY DEF LiveIn
    <2>2. n \in Created(t)
      BY <1>3, <1>10, <2>1 DEF Foreign, Live
    <2> QED BY <1>4, <1>9, <2>1, <2>2
  <1>12. \A n \in Created(t) : T.rows[n].parent = t => n \in LiveIn(entity', {t})
    BY <1>4, <1>9 DEF Created, LiveIn
  <1> HIDE DEF G, T
  <1> DEFINE old == LiveIn(entity, G)
             new == LiveIn(entity', {t})
             inward == {e \in Entity : Live(entity[e]) /\ entity[e].item \in G}
             Led(i) == IF i \in G THEN t ELSE i
  <1>13. {entity'[e].item : e \in new} = {Led(entity[e].item) : e \in old}
    <2>1. ASSUME NEW n \in new PROVE \E e \in old : entity'[n].item = Led(entity[e].item)
      <3>1. n \in Created(t) /\ T.rows[n].parent = t /\ entity'[n] = T.rows[n] /\ T.rows[n].item \notin G
        BY <1>7, <1>11
      <3>2. CASE T.rows[n].item = t
        BY <1>2, <1>9, <3>1, <3>2 DEF NewFromOld, G, T
      <3>3. CASE T.rows[n].item # t
        BY <1>2, <1>9, <3>1, <3>3 DEF NewFromOld, G, T
      <3> QED BY <3>2, <3>3
    <2>2. ASSUME NEW e \in old PROVE \E n \in new : entity'[n].item = Led(entity[e].item)
      <3>1. PICK n \in Created(t) : /\ T.rows[n].parent = t
                                    /\ \/ T.rows[n].item = entity[e].item
                                       \/ T.rows[n].item = t /\ entity[e].item \in G
        BY <1>2, <1>9 DEF OldInNew, G, T
      <3>2. n \in new /\ entity'[n] = T.rows[n] /\ T.rows[n].item \notin G
        BY <1>7, <1>11, <1>12, <3>1
      <3> QED BY <3>1, <3>2
    <2> HIDE DEF old, new, Led
    <2> QED BY <2>1, <2>2
  <1>14. ASSUME NEW n \in new, entity'[n].item # t
         PROVE  LET equal == {entity[e] : e \in {f \in old : entity[f].item = entity'[n].item}}
                IN  /\ \A m \in new : entity'[m].item = entity'[n].item => m = n
                    /\ entity'[n].accepted = \E row \in equal : row.accepted
                    /\ entity'[n].published = IF t \in PublishAny THEN \E row \in equal : row.published
                                                                  ELSE \A row \in equal : row.published
    <2>1. n \in Created(t) /\ entity'[n] = T.rows[n] /\ \A m \in new : m \in Created(t) /\ entity'[m] = T.rows[m]
      BY <1>11
    <2>2. entity'[n] = Merged(t, old, entity'[n].item) /\ \A m \in new : entity'[m].item = entity'[n].item => m = n
      BY <1>2, <1>9, <1>14, <2>1 DEF NewFromOld, T
    <2> DEFINE i == entity'[n].item
               equal == {entity[e] : e \in {f \in old : entity[f].item = i}}
               a == \E row \in equal : row.accepted
               p == IF t \in PublishAny THEN \E row \in equal : row.published
                                        ELSE \A row \in equal : row.published
               b == \E row \in equal : row.parts
    <2>3. entity'[n] = [Fresh(t, i, a, p) EXCEPT !.parts = b]
      BY <2>2 DEF Merged
    <2> HIDE DEF a, p, b, i
    <2>4. entity'[n].accepted = a /\ entity'[n].published = p
      BY <2>3 DEF Fresh
    <2> QED BY <2>2, <2>4 DEF a, p, i
  <1>15. LiveIn(entity', G) = {}
    <2> SUFFICES ASSUME NEW e \in Entity, Live(entity'[e]), entity'[e].parent \in G PROVE FALSE
      BY DEF LiveIn
    <2>1. CASE e \in Created(t)
      BY <1>2, <1>4, <2>1 DEF NewFromOld, G, T
    <2>2. CASE T.rows[e] = None /\ entity'[e] = entity[e]
      BY <1>8, <1>9, <2>2 DEF LiveIn
    <2> QED BY <1>10, <2>1, <2>2 DEF T
  <1>16. ~\E e \in Entity : Live(entity'[e]) /\ entity'[e].item \in G
    BY <1>4, <1>6, <1>7, <1>10 DEF T
  <1>17. ASSUME NEW l \in inward \ old
         PROVE  \E n \in Entity : Live(entity'[n]) /\ entity'[n].item = t /\ entity'[n].parent = entity[l].parent
    <2>1. T.rows[l] # None /\ l \notin Old(t) /\ entity[l] # None
      BY <1>6, <1>9 DEF Live
    <2>2. PICK n \in Created(t) : T.rows[n].item = t /\ T.rows[n].parent = entity[l].parent
      BY <1>2, <2>1 DEF OldMarked, T
    <2>3. n \in Entity /\ entity'[n] = T.rows[n] /\ Live(T.rows[n])
      BY <1>4, <2>2 DEF Created, T
    <2> QED BY <2>2, <2>3
  <1>18. ASSUME NEW e \in Entity \ (old \cup inward), entity[e] # None PROVE entity'[e] = entity[e]
    <2>1. T.rows[e] = None
      BY <1>2, <1>9, <1>18 DEF OldMarked, T, G
    <2> QED BY <1>4, <2>1 DEF T
  <1> QED BY <1>13, <1>14, <1>15, <1>16, <1>17, <1>18 DEF Kept, G

LEMMA KeepFacts ==
  ASSUME KeepInv, NEW t \in Merge, ~overlap, Open(t)
  PROVE  /\ txn[t] \in Transaction /\ txn \in [Merge -> Transaction] /\ entity \in Table /\ Shape(t)
         /\ t \notin txn[t].group /\ txn[t].retired \subseteq txn[t].group
         /\ \A e \in Entity : Foreign(entity[e], t)
         /\ Progress(t)
  <1>1. txn[t] \in Transaction /\ txn \in [Merge -> Transaction] /\ entity \in Table /\ Shape(t)
    BY DEF KeepInv, TwiceInv, TypeOK, Transaction
  <1>2. tree[t] = {} /\ txn[t].retired \subseteq txn[t].group /\ \A x \in txn[t].group : tree[x] # {}
    BY DEF KeepInv, HomeInv, Made, Alone, Open
  <1> QED BY <1>1, <1>2 DEF KeepInv, NotYet, Open

(* What a merge has made stays while it makes nothing new. *)
LEMMA MadeStays ==
  ASSUME NEW t \in Merge, UNCHANGED entity, txn'[t].group = txn[t].group,
         \A n \in Entity : entity[n] = None => txn'[t].rows[n] = txn[t].rows[n],
         NewFromOld(t), OldInNew(t)
  PROVE  Old(t)' = Old(t) /\ Created(t)' = Created(t) /\ NewFromOld(t)' /\ OldInNew(t)'
  <1>1. Old(t)' = Old(t) /\ Created(t)' = Created(t)
    BY DEF Old, Created, LiveIn, Live
  <1>2. /\ \A n \in Created(t) : txn'[t].rows[n] = txn[t].rows[n]
        /\ \A S, i : Merged(t, S, i)' = Merged(t, S, i)
    BY DEF Created, Merged
  <1>3. NewFromOld(t)'
    BY <1>1, <1>2 DEF NewFromOld
  <1>4. OldInNew(t)'
    BY <1>1, <1>2 DEF OldInNew
  <1> QED BY <1>1, <1>3, <1>4

LEMMA CheckProgress ==
  ASSUME KeepInv, NEW t \in Merge, NEW G \in SUBSET Entry, CheckGroup(t, G)
  PROVE  Progress(t)'
  <1>1. txn[t] \in Transaction /\ txn \in [Merge -> Transaction] /\ txn[t].retired = {}
    BY DEF KeepInv, HomeInv, Made, TypeOK, Transaction, CheckGroup
  <1>2. txn'[t].pc = "checked" /\ txn'[t].retired = {}
    BY <1>1 DEF CheckGroup, Goes, Transaction
  <1> QED BY <1>2 DEF Progress

LEMMA GatherProgress ==
  ASSUME KeepInv, NEW t \in Merge, ~overlap, Gather(t)
  PROVE  Progress(t)'
  <1> DEFINE S == {e \in Entity : Live(entity[e]) /\ entity[e].parent \in txn[t].group}
             Items == {entity[e].item : e \in S}
             Injective(f) == \A i, j \in DOMAIN f : f[i] = f[j] => i = j
             Draws == [Items -> Free]
             id == CHOOSE d \in Draws : Injective(d)
             new == [e \in Entity |->
                       IF \E i \in DOMAIN id : id[i] = e
                       THEN Merged(t, S, CHOOSE i \in DOMAIN id : id[i] = e) ELSE None]
  <1>1. txn[t].pc = "checked" /\ Open(t)
    BY DEF Gather, Open
  <1>2. /\ txn[t] \in Transaction /\ txn \in [Merge -> Transaction] /\ Shape(t) /\ t \notin txn[t].group
        /\ \A e \in Entity : Foreign(entity[e], t)
        /\ txn[t].retired = {} /\ txn[t].loaded = Nothing
    BY <1>1, KeepFacts DEF Progress, Shape
  <1>3. id \in Draws /\ Injective(id)
    BY DEF Gather
  <1>4. Goes(t, [txn[t] EXCEPT !.pc = "merging", !.todo = S, !.rows = new])
    BY DEF Gather
  <1>5. S = Old(t) /\ S \subseteq Entity
    BY DEF Old, LiveIn
  <1> HIDE DEF S
  <1>6. ASSUME NEW i \in Items
        PROVE  id[i] \in Entity /\ entity[id[i]] = None /\ new[id[i]] = Merged(t, S, i)
    <2>1. id[i] \in Free /\ i \in DOMAIN id
      BY <1>3
    <2>2. (CHOOSE j \in DOMAIN id : id[j] = id[i]) = i
      BY <1>3, <2>1
    <2>3. id[i] \in Entity /\ entity[id[i]] = None
      BY <2>1 DEF Free
    <2> HIDE DEF id
    <2> QED BY <2>1, <2>2, <2>3
  <1>7. \A e \in Entity : new[e] # None => \E i \in Items : e = id[i]
    BY <1>3
  <1>8. \A i : /\ Merged(t, S, i).parent = t /\ Merged(t, S, i).item = i /\ ~Merged(t, S, i).mark
    BY DEF Merged, Fresh
  <1>9. Merged(t, S, t).parent = t
    BY <1>8
  <1> HIDE DEF new, id
  <1>10. \A i \in Items : Merged(t, S, i) # None /\ i # t /\ \E e \in S : entity[e].item = i
    <2>1. \A i \in Items : \E e \in S : entity[e].item = i
      OBVIOUS
    <2>2. \A e \in S : entity[e] # None /\ entity[e].item \in Item
      BY <1>5, KeepFacts, <1>1 DEF Old, LiveIn, Live, Table, Row
    <2>3. \A i \in Items : Merged(t, S, i) \in Row
      BY <2>1, <2>2, MergedTyped
    <2> QED BY <1>2, <1>5, <2>1, <2>2, <2>3, NoneAssumption DEF Foreign
  <1>11. /\ UNCHANGED entity /\ txn'[t].pc = "merging" /\ txn'[t].todo = S /\ txn'[t].rows = new
         /\ txn'[t].group = txn[t].group /\ txn'[t].retired = {} /\ txn'[t].loaded = Nothing
    BY <1>2, <1>4 DEF Goes, Transaction
  <1>12. /\ Old(t)' = S
         /\ \A e \in S : Live(entity[e])
         /\ \A R, i : Merged(t, R, i)' = Merged(t, R, i)
    BY <1>5, <1>11 DEF Old, LiveIn, Merged
  <1>13. Created(t)' = {id[i] : i \in Items}
    <2>1. \A n \in Entity : entity[n] = None /\ Live(new[n]) => \E i \in Items : n = id[i]
      BY <1>7 DEF Live
    <2>2. \A i \in Items : id[i] \in Entity /\ entity[id[i]] = None /\ Live(new[id[i]])
      BY <1>6, <1>8, <1>10 DEF Live
    <2> QED BY <1>11, <2>1, <2>2 DEF Created
  <1>14. OldMarked(t)'
    <2>1. \A e \in Entity : entity[e] # None => new[e] = None
      BY <1>6, <1>7
    <2> QED BY <1>11, <1>12, <2>1 DEF OldMarked
  <1>15. NewFromOld(t)'
    BY <1>2, <1>6, <1>8, <1>10, <1>11, <1>12, <1>13 DEF NewFromOld
  <1>16. OldInNew(t)'
    BY <1>6, <1>8, <1>11, <1>12, <1>13 DEF OldInNew
  <1>17. LinksRead(t)'
    BY <1>11 DEF LinksRead, Nothing
  <1> QED BY <1>11, <1>14, <1>15, <1>16, <1>17 DEF Progress

LEMMA LoadProgress ==
  ASSUME KeepInv, NEW t \in Merge, ~overlap, Load(t)
  PROVE  Progress(t)'
  <1> DEFINE e == First(txn[t].todo)
  <1>1. txn[t].pc = "merging" /\ txn[t].todo # {} /\ Open(t)
    BY DEF Load, Open
  <1>2. txn[t] \in Transaction /\ txn \in [Merge -> Transaction] /\ Progress(t)
    BY <1>1, KeepFacts
  <1>3. \/ Goes(t, [txn[t] EXCEPT !.pc = "failed"])
        \/ Goes(t, [txn[t] EXCEPT !.loaded[e] = entity[e]])
    BY DEF Load
  <1> HIDE DEF e
  <1>4. CASE Goes(t, [txn[t] EXCEPT !.pc = "failed"])
    <2>1. txn'[t].pc = "failed"
      BY <1>2, <1>4 DEF Goes, Transaction
    <2> QED BY <2>1 DEF Progress
  <1>5. CASE Goes(t, [txn[t] EXCEPT !.loaded[e] = entity[e]])
    <2>1. /\ UNCHANGED entity /\ txn'[t].pc = "merging" /\ txn'[t].todo = txn[t].todo /\ txn'[t].rows = txn[t].rows
          /\ txn'[t].group = txn[t].group /\ txn'[t].retired = txn[t].retired
      BY <1>1, <1>2, <1>5 DEF Goes, Transaction
    <2>2. OldMarked(t) /\ NewFromOld(t) /\ OldInNew(t) /\ LinksRead(t)
      BY <1>1, <1>2 DEF Progress
    <2>3. Old(t)' = Old(t) /\ Created(t)' = Created(t) /\ NewFromOld(t)' /\ OldInNew(t)'
      BY <2>1, <2>2, MadeStays
    <2>4. OldMarked(t)'
      BY <2>1, <2>2, <2>3 DEF OldMarked
    <2>5. LinksRead(t)'
      BY <1>1, <2>1, <2>2 DEF LinksRead
    <2> QED BY <2>1, <2>3, <2>4, <2>5 DEF Progress
  <1> QED BY <1>3, <1>4, <1>5

LEMMA MarkProgress ==
  ASSUME KeepInv, NEW t \in Merge, ~overlap, Mark(t)
  PROVE  Progress(t)'
  <1> DEFINE e == First(txn[t].todo)
             row == [txn[t].loaded[e] EXCEPT !.mark = TRUE, !.merged_to = TRUE]
  <1>1. txn[t].pc = "merging" /\ txn[t].todo # {} /\ Open(t) /\ txn[t].loaded[e] # None
    BY DEF Mark, Open
  <1>2. txn[t] \in Transaction /\ txn \in [Merge -> Transaction] /\ Progress(t) /\ Shape(t)
    BY <1>1, KeepFacts
  <1>3. OldMarked(t) /\ NewFromOld(t) /\ OldInNew(t) /\ LinksRead(t)
    BY <1>1, <1>2 DEF Progress
  <1>4. e \in txn[t].todo /\ e \in Entity /\ e \in Old(t) /\ entity[e] # None
    BY <1>1, <1>2, <1>3, FirstIn DEF OldMarked, Old, LiveIn, Live
  <1>5. row # None /\ row.mark
    <2>1. txn[t].loaded[e] \in Row
      BY <1>1, <1>2, <1>4 DEF Transaction, Table
    <2>2. row \in Row /\ row.mark
      BY <2>1 DEF Row
    <2> QED BY <2>2, NoneAssumption
  <1>6. \A d \in Entity : txn[t].loaded[d] # None => d = e
    BY <1>1, <1>2 DEF Shape
  <1>7. Goes(t, [txn[t] EXCEPT !.rows[e] = row, !.loaded[e] = None, !.todo = @ \ {e}])
    BY DEF Mark
  <1> HIDE DEF e, row
  <1>8. /\ UNCHANGED entity /\ txn'[t].pc = "merging" /\ txn'[t].todo = txn[t].todo \ {e}
        /\ txn'[t].group = txn[t].group /\ txn'[t].retired = {}
        /\ \A d \in Entity : /\ txn'[t].rows[d] = IF d = e THEN row ELSE txn[t].rows[d]
                             /\ txn'[t].loaded[d] = None
    <2>1. txn[t].retired = {}
      BY <1>1, <1>3 DEF LinksRead
    <2> QED BY <1>1, <1>2, <1>4, <1>6, <1>7, <2>1 DEF Goes, Transaction, Table
  <1>9. Old(t)' = Old(t) /\ Created(t)' = Created(t) /\ NewFromOld(t)' /\ OldInNew(t)'
    BY <1>3, <1>4, <1>8, MadeStays
  <1>10. OldMarked(t)'
    <2>1. \A n \in Created(t) : n # e /\ n \in Entity
      BY <1>4 DEF Created
    <2>2. \A d \in Entity : entity[d] # None /\ txn'[t].rows[d] # None => txn'[t].rows[d].mark /\ d \notin txn'[t].todo
      BY <1>3, <1>5, <1>8 DEF OldMarked
    <2>3. \A d \in Old(t) : txn'[t].rows[d] # None \/ d \in txn'[t].todo
      BY <1>3, <1>5, <1>8 DEF OldMarked, Old, LiveIn
    <2>4. ASSUME NEW d \in Entity \ Old(t), entity[d] # None, txn'[t].rows[d] # None
          PROVE  /\ Live(entity[d]) /\ entity[d].item \in txn[t].group
                 /\ \E n \in Created(t) : txn'[t].rows[n].item = t /\ txn'[t].rows[n].parent = entity[d].parent
      <3>1. d # e /\ txn[t].rows[d] # None
        BY <1>4, <1>8, <2>4
      <3> QED BY <1>3, <1>8, <2>1, <2>4, <3>1 DEF OldMarked
    <2>5. txn'[t].todo \subseteq Old(t)
      BY <1>3, <1>8 DEF OldMarked
    <2> QED BY <1>8, <1>9, <2>2, <2>3, <2>4, <2>5 DEF OldMarked
  <1>11. LinksRead(t)'
    BY <1>8 DEF LinksRead
  <1> QED BY <1>8, <1>9, <1>10, <1>11 DEF Progress

LEMMA RetireProgress ==
  ASSUME KeepInv, NEW t \in Merge, ~overlap, Retire(t)
  PROVE  Progress(t)'
  <1> DEFINE x == First(txn[t].group \ txn[t].retired)
             read == [l \in Entity |-> IF Live(Seen(t, l)) /\ Seen(t, l).item = x THEN Seen(t, l) ELSE None]
  <1>1. txn[t].pc = "merging" /\ txn[t].todo = {} /\ Open(t) /\ \A e \in Entity : txn[t].loaded[e] = None
    BY DEF Retire, Open, Nothing
  <1>2. txn[t] \in Transaction /\ txn \in [Merge -> Transaction] /\ Progress(t)
    BY <1>1, KeepFacts
  <1>3. OldMarked(t) /\ NewFromOld(t) /\ OldInNew(t) /\ LinksRead(t)
    BY <1>1, <1>2 DEF Progress
  <1>4. Goes(t, [txn[t] EXCEPT !.retired = @ \cup {x}, !.loaded = read])
    BY DEF Retire
  <1>5. \A l \in Entity : /\ Live(Seen(t, l)) /\ Seen(t, l).item = x => read[l] = Seen(t, l) /\ read[l] # None
                          /\ read[l] # None => read[l] = Seen(t, l) /\ Live(Seen(t, l)) /\ Seen(t, l).item = x
    BY DEF Live
  <1> HIDE DEF x, read
  <1>6. /\ UNCHANGED entity /\ txn'[t].pc = "merging" /\ txn'[t].todo = {} /\ txn'[t].rows = txn[t].rows
        /\ txn'[t].group = txn[t].group /\ txn'[t].retired = txn[t].retired \cup {x} /\ txn'[t].loaded = read
    BY <1>1, <1>2, <1>4 DEF Goes, Transaction
  <1>7. Old(t)' = Old(t) /\ Created(t)' = Created(t) /\ NewFromOld(t)' /\ OldInNew(t)'
    BY <1>3, <1>6, MadeStays
  <1>8. OldMarked(t)'
    BY <1>1, <1>3, <1>6, <1>7 DEF OldMarked
  <1>9. LinksRead(t)'
    <2>1. \A l \in Entity : Seen(t, l)' = Seen(t, l)
      BY <1>6 DEF Seen
    <2>2. \A l \in Entity : Live(Seen(t, l)) => Seen(t, l).item \notin txn[t].retired
      BY <1>1, <1>3 DEF LinksRead
    <2>3. \A l \in Entity : Live(Seen(t, l))' = Live(Seen(t, l))
      BY <2>1 DEF Live
    <2> QED BY <1>5, <1>6, <2>1, <2>2, <2>3 DEF LinksRead
  <1> QED BY <1>6, <1>7, <1>8, <1>9 DEF Progress

LEMMA RedirectProgress ==
  ASSUME KeepInv, NEW t \in Merge, ~overlap, Redirect(t)
  PROVE  Progress(t)'
  <1>1. txn[t].pc = "merging" /\ txn[t].todo = {} /\ Open(t)
    BY DEF Redirect, Open
  <1>2. /\ txn[t] \in Transaction /\ txn \in [Merge -> Transaction] /\ Progress(t) /\ TypeOK /\ Shape(t)
        /\ \A e \in Entity : Foreign(entity[e], t)
        /\ t \notin txn[t].group /\ txn[t].retired \subseteq txn[t].group
    BY <1>1, KeepFacts DEF KeepInv, HomeInv
  <1>3. CASE Goes(t, [txn[t] EXCEPT !.pc = "failed"])
    <2>1. txn'[t].pc = "failed"
      BY <1>2, <1>3 DEF Goes, Transaction
    <2> QED BY <2>1 DEF Progress
  <1>4. CASE ~Goes(t, [txn[t] EXCEPT !.pc = "failed"])
    <2>1. PICK l \in Entity, n \in Entity, row \in Row, old \in Row, link \in Row :
             /\ row = txn[t].loaded[l] /\ row.parent \notin txn[t].group
             /\ n # l /\ entity[n] = None /\ txn[t].rows[n] = None
             /\ old = [row EXCEPT !.mark = TRUE, !.merged_by = TRUE]
             /\ old.parent = row.parent /\ old.item = row.item /\ old.mark
             /\ link.parent = row.parent /\ link.item = t /\ link.mark = row.mark
             /\ \A d \in Entity :
                  /\ txn'[t].rows[d] = IF d = n THEN link ELSE IF d = l THEN old ELSE txn[t].rows[d]
                  /\ txn'[t].loaded[d] = IF d = l THEN None ELSE txn[t].loaded[d]
      BY <1>2, <1>4, RedirectRows, Zenon
    <2>2. /\ UNCHANGED entity /\ txn'[t].todo = {} /\ txn'[t].group = txn[t].group
          /\ txn'[t].retired = txn[t].retired /\ txn'[t].pc \in {"merging", "failed"}
      BY <1>2, <1>4, RedirectRows
    <2>3. OldMarked(t) /\ NewFromOld(t) /\ OldInNew(t) /\ LinksRead(t)
      BY <1>1, <1>2 DEF Progress
    <2>4. /\ row = Seen(t, l) /\ Live(row) /\ row.item \in txn[t].retired /\ row.item \in txn[t].group /\ row.item # t
          /\ old # None /\ link # None /\ Live(link) /\ ~Live(old) /\ row # None
      <3>1. row # None /\ old # None /\ link # None
        BY NoneAssumption
      <3> QED BY <1>1, <1>2, <2>1, <2>3, <3>1 DEF LinksRead, Live
    <2>5. /\ txn[t].rows[l] = None => row = entity[l]
          /\ txn[t].rows[l] # None => row = txn[t].rows[l] /\ l \in Created(t)
      BY <2>3, <2>4 DEF OldMarked, Seen, Created, Live
    <2>6. /\ Old(t)' = Old(t) /\ Old(t) \subseteq Entity
          /\ \A S, i : Merged(t, S, i)' = Merged(t, S, i)
      BY <2>2 DEF Old, LiveIn, Merged
    <2>7. Created(t)' = (Created(t) \ {l}) \cup {n}
      <3>1. ASSUME NEW d \in Entity PROVE d \in Created(t)' <=> d \in (Created(t) \ {l}) \cup {n}
        BY <2>1, <2>2, <2>4 DEF Created
      <3> QED BY <2>1, <3>1 DEF Created
    <2>8. \A m \in Created(t) : m # n /\ m \in Entity /\ (m # l => txn'[t].rows[m] = txn[t].rows[m])
      BY <2>1 DEF Created, Live
    <2>9. txn'[t].rows[n] = link /\ txn'[t].rows[l] = old
      BY <2>1
    <2>10. OldMarked(t)'
      <3>1. \A e \in Entity : entity[e] # None /\ txn'[t].rows[e] # None => txn'[t].rows[e].mark
        <4> SUFFICES ASSUME NEW e \in Entity, entity[e] # None, txn'[t].rows[e] # None PROVE txn'[t].rows[e].mark
          OBVIOUS
        <4>1. CASE e = l
          BY <2>1, <2>9, <4>1
        <4>2. CASE e # l
          <5>1. txn'[t].rows[e] = txn[t].rows[e]
            BY <2>1, <4>2
          <5> QED BY <2>3, <5>1 DEF OldMarked
        <4> QED BY <4>1, <4>2
      <3>2. \A e \in Old(t) : txn'[t].rows[e] # None
        BY <1>1, <2>1, <2>3, <2>4, <2>6 DEF OldMarked
      <3>3. ASSUME NEW e \in Entity \ Old(t), entity[e] # None, txn'[t].rows[e] # None
            PROVE  /\ Live(entity[e]) /\ entity[e].item \in txn[t].group
                   /\ \E m \in Created(t)' : txn'[t].rows[m].item = t /\ txn'[t].rows[m].parent = entity[e].parent
        <4>1. CASE e = l
          <5>1. row = entity[l]
            BY <2>5, <3>3, <4>1 DEF Created
          <5> QED BY <2>1, <2>4, <2>7, <2>9, <4>1, <5>1
        <4>2. CASE e # l
          <5>1. txn[t].rows[e] # None
            BY <2>1, <3>3, <4>2
          <5>2. /\ Live(entity[e]) /\ entity[e].item \in txn[t].group
                /\ \E m \in Created(t) : txn[t].rows[m].item = t /\ txn[t].rows[m].parent = entity[e].parent
            BY <2>3, <3>3, <5>1 DEF OldMarked
          <5>3. PICK m \in Created(t) : txn[t].rows[m].item = t /\ txn[t].rows[m].parent = entity[e].parent
            BY <5>2
          <5>4. m # l
            BY <2>4, <2>5, <5>3 DEF Created, Live
          <5> QED BY <2>7, <2>8, <5>2, <5>3, <5>4
        <4> QED BY <4>1, <4>2
      <3> QED BY <2>2, <2>6, <3>1, <3>2, <3>3 DEF OldMarked
    <2>11. NewFromOld(t)'
      <3>1. ASSUME NEW m \in Created(t), m # l
            PROVE  /\ txn'[t].rows[m].parent \notin txn[t].group
                   /\ txn'[t].rows[m].item # t =>
                        /\ \E e \in Old(t) : entity[e].item = txn'[t].rows[m].item
                        /\ txn'[t].rows[m] = Merged(t, Old(t), txn'[t].rows[m].item)
                        /\ \A k \in Created(t)' : txn'[t].rows[k].item = txn'[t].rows[m].item => k = m
                   /\ txn'[t].rows[m].item = t /\ txn'[t].rows[m].parent = t =>
                        \E e \in Old(t) : entity[e].item \in txn[t].group
        BY <2>1, <2>3, <2>7, <2>8, <2>9, <3>1 DEF NewFromOld
      <3>2. txn'[t].rows[n].parent = t => \E e \in Old(t) : entity[e].item \in txn[t].group
        <4>1. SUFFICES ASSUME row.parent = t PROVE \E e \in Old(t) : entity[e].item \in txn[t].group
          BY <2>1, <2>9
        <4>2. l \in Created(t) /\ row = txn[t].rows[l]
          BY <1>2, <2>4, <2>5, <4>1 DEF Foreign
        <4> QED BY <2>3, <2>4, <4>2 DEF NewFromOld
      <3> QED BY <2>1, <2>2, <2>6, <2>7, <2>9, <3>1, <3>2 DEF NewFromOld
    <2>12. OldInNew(t)'
      <3>1. ASSUME NEW e \in Old(t)
            PROVE  \E m \in Created(t)' :
                     /\ txn'[t].rows[m].parent = t
                     /\ \/ txn'[t].rows[m].item = entity[e].item
                        \/ txn'[t].rows[m].item = t /\ entity[e].item \in txn[t].group
        <4>1. PICK m \in Created(t) :
                /\ txn[t].rows[m].parent = t
                /\ \/ txn[t].rows[m].item = entity[e].item
                   \/ txn[t].rows[m].item = t /\ entity[e].item \in txn[t].group
          BY <2>3 DEF OldInNew
        <4>2. CASE m = l
          <5>1. row = txn[t].rows[l]
            BY <2>5, <4>1, <4>2 DEF Created, Live
          <5> QED BY <2>1, <2>4, <2>7, <2>9, <4>1, <4>2, <5>1
        <4>3. CASE m # l
          BY <2>7, <2>8, <4>1, <4>3
        <4> QED BY <4>2, <4>3
      <3> QED BY <2>2, <2>6, <3>1 DEF OldInNew
    <2>13. LinksRead(t)'
      <3>1. \A e \in Entity \ {l, n} : Seen(t, e)' = Seen(t, e) /\ Live(Seen(t, e))' = Live(Seen(t, e))
        BY <2>1, <2>2 DEF Seen, Live
      <3>2. Seen(t, l)' = old /\ Seen(t, n)' = link /\ ~Live(Seen(t, l))' /\ link.item \notin txn[t].retired
        BY <1>2, <2>1, <2>4, <2>9 DEF Seen, Live
      <3>3. txn[t].loaded[n] = None
        BY <1>1, <2>1, <2>3 DEF LinksRead, Seen, Live
      <3> QED BY <1>1, <2>1, <2>2, <2>3, <3>1, <3>2, <3>3 DEF LinksRead
    <2> QED BY <2>2, <2>10, <2>11, <2>12, <2>13 DEF Progress
  <1> QED BY <1>3, <1>4

LEMMA NextKeep == KeepInv /\ [Next]_vars => KeepInv'
  <1> SUFFICES ASSUME KeepInv, [Next]_vars PROVE KeepInv'
    OBVIOUS
  <1>1. HomeInv' /\ TwiceInv' /\ NotYet'
    BY NextHome, NextTwice, NextNotYet DEF KeepInv
  <1>2. txn \in [Merge -> Transaction]
    BY DEF KeepInv, TwiceInv, TypeOK, Transaction
  <1>3. ASSUME NEW t \in Merge, MergeStep(t), ~overlap, NEW s \in Merge PROVE Progress(s)'
    <2>1. CASE s = t
      <3>1. CASE Commit(t) \/ CommitFailed(t) \/ Abort(t)
        <4>1. txn'[t] = [Idle EXCEPT !.pc = "over"]
          BY <1>2, <3>1 DEF Commit, CommitFailed, Abort, Writes, Goes
        <4>2. txn'[t].pc = "over"
          BY <4>1 DEF Idle
        <4> QED BY <2>1, <4>2 DEF Progress
      <3> QED BY <1>3, <2>1, <3>1, CheckProgress, GatherProgress, LoadProgress, MarkProgress, RetireProgress, RedirectProgress
            DEF MergeStep
    <2>2. CASE s # t
      <3>1. txn'[s] = txn[s]
        BY <1>2, <1>3, <2>2
            DEF MergeStep, CheckGroup, Gather, Load, Mark, Retire, Redirect, Commit, CommitFailed, Abort, Writes, Goes
      <3>2. ~Open(s)
        <4>1. Open(t) \/ Calm
          BY <1>3 DEF MergeStep, CheckGroup, Gather, Load, Mark, Retire, Redirect, Commit, CommitFailed, Abort, Open
        <4> QED BY <1>3, <2>2, <4>1 DEF KeepInv, HomeInv, Alone, Calm
      <3> QED BY <3>1, <3>2 DEF Progress, Open
    <2> QED BY <2>1, <2>2
  <1>4. ASSUME UNCHANGED txn, Calm, ~overlap, NEW s \in Merge PROVE Progress(s)'
    BY <1>4 DEF Progress, Calm, Open
  <1>5. ASSUME UNCHANGED <<txn, entity>>, ~overlap, NEW s \in Merge PROVE Progress(s)'
    <2>1. CASE txn[s].pc = "merging"
      <3>1. OldMarked(s) /\ NewFromOld(s) /\ OldInNew(s) /\ LinksRead(s)
        BY <1>5, <2>1 DEF KeepInv, Progress
      <3>2. Old(s)' = Old(s) /\ Created(s)' = Created(s) /\ NewFromOld(s)' /\ OldInNew(s)'
        BY <1>5, <3>1, MadeStays
      <3>3. OldMarked(s)'
        BY <1>5, <3>1, <3>2 DEF OldMarked, Live
      <3>4. \A e \in Entity : Seen(s, e)' = Seen(s, e) /\ Live(Seen(s, e))' = Live(Seen(s, e))
        BY <1>5 DEF Seen, Live
      <3>5. LinksRead(s)'
        BY <1>5, <3>1, <3>4 DEF LinksRead
      <3> QED BY <1>5, <2>1, <3>2, <3>3, <3>5 DEF Progress
    <2>2. CASE txn[s].pc # "merging"
      BY <1>5, <2>2 DEF KeepInv, Progress
    <2> QED BY <2>1, <2>2
  <1>6. overlap' = overlap
    BY DEF Next, vars, MergeStep, CheckGroup, Gather, Load, Mark, Retire, Redirect, Commit, CommitFailed, Abort, Writes, Goes,
           CreateEntity, UpdateEntity, UpdateEntityContent, DeleteEntity, DeleteLexicalEntry, Rows
  <1>7. ASSUME ~overlap, NEW s \in Merge PROVE Progress(s)'
    <2>1. CASE \E t \in Merge : MergeStep(t)
      BY <1>3, <1>7, <2>1
    <2>2. CASE UNCHANGED vars
      BY <1>5, <1>7, <2>2 DEF vars
    <2>3. CASE UNCHANGED txn /\ Calm
      BY <1>4, <1>7, <2>3
    <2> QED BY <2>1, <2>2, <2>3
          DEF Next, CreateEntity, UpdateEntity, UpdateEntityContent, DeleteEntity, DeleteLexicalEntry, MayEdit, Rows
  <1> QED BY <1>1, <1>6, <1>7 DEF KeepInv

LEMMA InitKeep == Init => KeepInv
  <1> SUFFICES ASSUME Init PROVE KeepInv
    OBVIOUS
  <1>1. \A t \in Merge : txn[t] = Idle /\ txn[t].pc = "idle" /\ \A e \in Entity : Idle.rows[e] = None /\ Idle.loaded[e] = None
    BY DEF Init, Idle, Nothing
  <1>2. \A e \in Entity : entity[e] # None =>
          entity[e].parent \in Original /\ entity[e].item \in Text \cup Original
    BY StartAssumption DEF Init
  <1>3. NotYet
    BY <1>1, <1>2, EntryAssumption DEF NotYet, Foreign, Entry
  <1>4. \A t \in Merge : Progress(t)
    BY <1>1 DEF Progress
  <1> QED BY <1>3, <1>4, InitHome, InitTwice DEF KeepInv

(* With requests one after another, a merge that commits has lost nothing  *)
(* and made nothing up: its entry holds what its entries held, each text   *)
(* once and accepted and published as they were together, nothing live is  *)
(* left in them, and who led to one of them leads to the new entry.        *)
THEOREM SerialMergeKeeps == Spec => MergeKeeps
  <1>1. KeepInv /\ [Next]_vars => [\A t \in Merge : ~overlap /\ Commit(t) => Kept(t)]_vars
    BY CommitKeeps
  <1> QED BY <1>1, InitKeep, NextKeep, PTL DEF Spec, MergeKeeps
=============================================================================
