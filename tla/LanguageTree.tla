---------------------------- MODULE LanguageTree ----------------------------
(***************************************************************************)
(* The tree of languages and the dictionaries in it (schema/gql_language.py*)
(* and gql_dictionary.py, utils/creation.py).  A language row has its      *)
(* parent and, in its metadata, 'younger_siblings': the list of the        *)
(* siblings that come before it.  Nothing else keeps the order, so to put  *)
(* a language somewhere is to rewrite the lists of its siblings.           *)
(*                                                                         *)
(* A mutation is one transaction at READ COMMITTED: Begin is what it reads *)
(* and decides, Commit writes the rows that it changed, each list whole.   *)
(***************************************************************************)
EXTENDS Sequences, Integers, FiniteSets
CONSTANTS
    Language,
    Dictionary,
    Top,            \* the parent of a top language; the place of a dictionary not yet made
    Txn,            \* transactions that may be open together
    OwnPrevious     \* may a request put a language after itself?

ASSUME TreeAssumption == Top \notin Language /\ OwnPrevious \in BOOLEAN

VARIABLES
    row,                \* the languages that have been created
    live,               \* those not marked for deletion
    parent,
    younger_siblings,   \* younger_siblings[l]: the siblings before l, in order
    home,               \* the language of each dictionary
    live_dictionary,    \* live_dictionary[d]: d is made and not marked for deletion
    txn

languages == <<row, live, parent, younger_siblings>>
dictionaries == <<home, live_dictionary>>
vars == <<row, live, parent, younger_siblings, home, live_dictionary, txn>>

Parent == Language \cup {Top}

(* The rows a transaction is about to write: the languages it creates and deletes, and *)
(* as functions on what they change the new parents, lists, homes and marks.           *)
None == [x \in {} |-> x]
Nothing == [pc |-> "open", new |-> {}, dead |-> {}, parents |-> None, lists |-> None,
            homes |-> None, marks |-> None]
Idle == [pc |-> "idle"]

IsOpen(r) ==
    /\ DOMAIN r = DOMAIN Nothing /\ r.pc = "open"
    /\ r.new \in SUBSET Language /\ r.dead \in SUBSET row
    /\ DOMAIN r.parents \subseteq row \cup r.new /\ DOMAIN r.lists \subseteq row \cup r.new
    /\ \A l \in DOMAIN r.parents : r.parents[l] \in row \cup {Top}
    /\ \A l \in DOMAIN r.lists : r.lists[l] \in Seq(row)
    /\ \A d \in DOMAIN r.homes : r.homes[d] \in row
    /\ \A d \in DOMAIN r.marks : r.marks[d] \in BOOLEAN

TypeOK ==
    /\ row \in SUBSET Language /\ live \in SUBSET row
    /\ parent \in [Language -> row \cup {Top}]
    /\ \A l \in Language \ row : parent[l] = Top
    /\ younger_siblings \in [Language -> Seq(row)]
    /\ home \in [Dictionary -> row \cup {Top}]
    /\ live_dictionary \in [Dictionary -> BOOLEAN]
    /\ \A t \in Txn : txn[t] = Idle \/ IsOpen(txn[t])

Init ==
    /\ row = {} /\ live = {}
    /\ parent = [l \in Language |-> Top]
    /\ younger_siblings = [l \in Language |-> <<>>]
    /\ home = [d \in Dictionary |-> Top]
    /\ live_dictionary = [d \in Dictionary |-> FALSE]
    /\ txn = [t \in Txn |-> Idle]

-----------------------------------------------------------------------------
Child(p) == {l \in live : parent[l] = p}

Listed(l, s) == \E i \in DOMAIN s : s[i] = l

FirstAt(s, l) == CHOOSE i \in DOMAIN s : s[i] = l /\ \A j \in 1 .. i - 1 : s[j] # l

(* The list s without the first l in it. *)
Removed(s, l) ==
    IF Listed(l, s) THEN SubSeq(s, 1, FirstAt(s, l) - 1) \o SubSeq(s, FirstAt(s, l) + 1, Len(s))
                    ELSE s
(* The list s with l right after the first m in it; a slip puts it right before. *)
InsertedAfter_Before(s, l, m) ==
    SubSeq(s, 1, FirstAt(s, m) - 1) \o <<l>> \o SubSeq(s, FirstAt(s, m), Len(s))

InsertedAfter(s, l, m) ==
    SubSeq(s, 1, FirstAt(s, m)) \o <<l>> \o SubSeq(s, FirstAt(s, m) + 1, Len(s))

Begins(t, writes) ==
    /\ txn[t] = Idle
    /\ txn' = [txn EXCEPT ![t] = writes]
    /\ UNCHANGED <<languages, dictionaries>>

(* A slip: the parent is not looked up. *)
create_dblanguage_AnyParent(t, l, p) ==
    /\ l \notin row
    /\ \E list \in {<<>>} \cup {Append(younger_siblings[m], m) : m \in Child(p)} :
          /\ list = <<>> => Child(p) = {}
          /\ \A m \in Child(p) : Len(younger_siblings[m]) < Len(list)
          /\ Begins(t, [Nothing EXCEPT !.new = {l}, !.parents = [x \in {l} |-> p],
                                        !.lists = [x \in {l} |-> list]])

(* A new language comes after the sibling with the longest list. *)
create_dblanguage(t, l, p) ==
    /\ l \notin row
    /\ p \in live \cup {Top}
    /\ \E list \in {<<>>} \cup {Append(younger_siblings[m], m) : m \in Child(p)} :
          /\ list = <<>> => Child(p) = {}
          /\ \A m \in Child(p) : Len(younger_siblings[m]) < Len(list)
          /\ Begins(t, [Nothing EXCEPT !.new = {l}, !.parents = [x \in {l} |-> p],
                                        !.lists = [x \in {l} |-> list]])

(* The languages above p and p itself: the least set that holds with a language its parent. *)
Above(p) ==
    {a \in Language : \A A \in SUBSET Language :
        p \in A \cup {Top} /\ (\A x \in A : parent[x] \in A \cup {Top}) => a \in A}

(* A slip: only the parent itself, not the languages above it, is compared. *)
NoCycleAbove_Parent(l, p) == l # p

(* 'cannot cycle parent-child in tree' *)
NoCycleAbove(l, p) == l \notin Above(p)

(* The siblings whose lists l leaves, and the lists after that; a slip keeps it in them. *)
Leaving(l) == {x \in Child(parent[l]) : Listed(l, younger_siblings[x])}
Left_Kept(l) == younger_siblings
Left(l) == [x \in Language |-> IF x \in Leaving(l) THEN Removed(younger_siblings[x], l)
                                                   ELSE younger_siblings[x]]

(* The siblings below p that come after l when it is put after m, or first (m = Top). *)
After(l, p, m) == {x \in Child(p) \ {l} : m = Top \/ Listed(m, Left(l)[x])}

move_language(t, l, p, m) ==
    /\ l \in live
    /\ p \in row \cup {Top}
    /\ m \in Child(p) \cup {Top}
    /\ m # l \/ OwnPrevious
    /\ NoCycleAbove(l, p)
    /\ Begins(t, [Nothing EXCEPT
          !.parents = [x \in {l} |-> p],
          !.lists = [x \in {l} \cup Leaving(l) \cup After(l, p, m) |->
              IF x = l THEN IF m = Top THEN <<>> ELSE Append(Left(l)[m], m)
              ELSE IF x \notin After(l, p, m) THEN Left(l)[x]
              ELSE IF m = Top THEN <<l>> \o Left(l)[x] ELSE InsertedAfter(Left(l)[x], l, m)]])

(* A slip: the children are not looked for. *)
DeleteLanguage_Parent(t, l) ==
    /\ l \in live
    /\ ~\E d \in Dictionary : live_dictionary[d] /\ home[d] = l
    /\ Begins(t, [Nothing EXCEPT !.dead = {l}, !.lists = [x \in Leaving(l) |-> Left(l)[x]]])

DeleteLanguage(t, l) ==
    /\ l \in live
    /\ ~\E d \in Dictionary : live_dictionary[d] /\ home[d] = l
    /\ Child(l) = {}
    /\ Begins(t, [Nothing EXCEPT !.dead = {l}, !.lists = [x \in Leaving(l) |-> Left(l)[x]]])

create_dbdictionary(t, d, l) ==
    /\ home[d] = Top
    /\ l \in row
    /\ Begins(t, [Nothing EXCEPT !.homes = [x \in {d} |-> l], !.marks = [x \in {d} |-> TRUE]])

UpdateDictionary(t, d, l) ==
    /\ live_dictionary[d]
    /\ l \in row
    /\ Begins(t, [Nothing EXCEPT !.homes = [x \in {d} |-> l]])

DeleteDictionary(t, d) ==
    /\ live_dictionary[d]
    /\ Begins(t, [Nothing EXCEPT !.marks = [x \in {d} |-> FALSE]])

UndeleteDictionary(t, d) ==
    /\ home[d] # Top /\ ~live_dictionary[d]
    /\ Begins(t, [Nothing EXCEPT !.marks = [x \in {d} |-> TRUE]])

(* f with the values of the changes in their domain. *)
Changed(f, changes) == [x \in DOMAIN f |-> IF x \in DOMAIN changes THEN changes[x] ELSE f[x]]

(* An id is given once: two transactions never create the same language. *)
Commit(t) ==
    /\ txn[t].pc = "open"
    /\ txn[t].new \cap row = {}
    /\ row' = row \cup txn[t].new
    /\ live' = (live \cup txn[t].new) \ txn[t].dead
    /\ parent' = Changed(parent, txn[t].parents)
    /\ younger_siblings' = Changed(younger_siblings, txn[t].lists)
    /\ home' = Changed(home, txn[t].homes)
    /\ live_dictionary' = Changed(live_dictionary, txn[t].marks)
    /\ txn' = [txn EXCEPT ![t] = Idle]

Next ==
    \E t \in Txn :
        \/ \E l \in Language, p \in Parent : create_dblanguage(t, l, p)
        \/ \E l \in Language, p, m \in Parent : move_language(t, l, p, m)
        \/ \E l \in Language : DeleteLanguage(t, l)
        \/ \E d \in Dictionary, l \in Language : \/ create_dbdictionary(t, d, l)
                                                \/ UpdateDictionary(t, d, l)
        \/ \E d \in Dictionary : DeleteDictionary(t, d) \/ UndeleteDictionary(t, d)
        \/ Commit(t)

Spec == Init /\ [][Next]_vars

-----------------------------------------------------------------------------
(***************************************************************************)
(* 'cannot cycle parent-child in tree': no set of languages holds the      *)
(* parents of all of its members, so every language hangs from the top.    *)
(***************************************************************************)
Acyclic(f) == \A S \in SUBSET Language : S # {} => \E x \in S : f[x] \notin S
NoCycle == Acyclic(parent)

(***************************************************************************)
(* The lists agree with one another: what a live language lists are live   *)
(* siblings, each of which lists those listed before it, and two siblings  *)
(* have different lists.  This is what the readers that order languages by *)
(* their lists (recursive_sort, and the queries that sort by the metadata) *)
(* rely on.                                                                *)
(***************************************************************************)
SiblingsOrdered ==
    /\ \A l \in live : \A i \in DOMAIN younger_siblings[l] :
          LET m == younger_siblings[l][i]
          IN  /\ m \in live /\ parent[m] = parent[l]
              /\ younger_siblings[m] = SubSeq(younger_siblings[l], 1, i - 1)
    /\ \A l, m \in live : parent[l] = parent[m] /\ younger_siblings[l] = younger_siblings[m] => l = m

(***************************************************************************)
(* The lists implement an order of the children of every language: the     *)
(* list of the last child, and that child.  Whatever a step moves, creates *)
(* or deletes, the other languages stay in their order.                    *)
(***************************************************************************)
IsLast(l) == \A m \in Child(parent[l]) : Len(younger_siblings[m]) <= Len(younger_siblings[l])

Children(p) ==
    IF Child(p) = {} THEN <<>>
    ELSE LET l == CHOOSE l \in Child(p) : IsLast(l) IN Append(younger_siblings[l], l)

Order == INSTANCE SiblingOrder WITH children <- [p \in Parent |-> Children(p)]
ImplementsOrder == Order!Spec

(***************************************************************************)
(* A language is deleted only when nothing is below it: when transactions  *)
(* do not overlap, no step leaves a live language or a live dictionary in  *)
(* a language that it deletes.                                             *)
(***************************************************************************)
DeletedBare ==
    [][\A l \in live \ live' :
        /\ \A m \in live' : parent'[m] # l
        /\ \A d \in Dictionary : live_dictionary'[d] => home'[d] # l]_vars
=============================================================================
