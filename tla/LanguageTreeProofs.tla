------------------------- MODULE LanguageTreeProofs -------------------------
(***************************************************************************)
(* The tree of languages: the types of its rows however transactions       *)
(* overlap, and, when they do not, that it stays a tree, that the lists of *)
(* the siblings implement one order of the children of every language, and *)
(* that a deleted language is bare.                                        *)
(*                                                                         *)
(* The serial invariants say of an open transaction what it has decided:   *)
(* the tables that it read stay what they are until it commits, so what it *)
(* decided is told by them.                                                *)
(***************************************************************************)
EXTENDS LanguageTree, SequenceTheorems, WellFoundedInduction, TLAPS

-----------------------------------------------------------------------------
(* Every set of natural numbers that is not empty has a least one. *)
LEMMA LeastNatural ==
  ASSUME NEW S \in SUBSET Nat, S # {}
  PROVE  \E n \in S : \A m \in S : n <= m
<1> DEFINE R == OpToRel(<, Nat)
<1>1. IsWellFoundedOn(R, Nat)
  BY NatLessThanWellFounded
<1> HIDE DEF R
<1>2. PICK n \in S : \A m \in S : <<m, n>> \notin R
  BY <1>1, WFMin
<1>3. \A m \in S : ~(m < n)
  BY <1>2 DEF OpToRel, R
<1> QED
  BY <1>3

(* FirstAt is a place where the list holds l. *)
LEMMA FirstAtFound ==
  ASSUME NEW S, NEW s \in Seq(S), NEW l, Listed(l, s)
  PROVE  FirstAt(s, l) \in 1 .. Len(s) /\ s[FirstAt(s, l)] = l
<1> DEFINE P == {i \in DOMAIN s : s[i] = l}
<1>1. DOMAIN s = 1 .. Len(s) /\ Len(s) \in Nat
  OBVIOUS
<1>2. P \in SUBSET Nat /\ P # {}
  BY <1>1 DEF Listed
<1>3. PICK n \in P : \A m \in P : n <= m
  BY <1>2, LeastNatural
<1>4. \A j \in 1 .. n - 1 : s[j] # l
  BY <1>1, <1>3
<1>5. \E i \in DOMAIN s : s[i] = l /\ \A j \in 1 .. i - 1 : s[j] # l
  BY <1>3, <1>4
<1> QED
  BY <1>1, <1>5 DEF FirstAt

LEMMA CutSeq ==
  ASSUME NEW S, NEW s \in Seq(S), NEW k \in 1 .. Len(s)
  PROVE  /\ Order!Cut(s, k) \in Seq(S)
         /\ Len(Order!Cut(s, k)) = Len(s) - 1
         /\ \A i \in 1 .. Len(s) - 1 : Order!Cut(s, k)[i] = IF i < k THEN s[i] ELSE s[i + 1]
<1> DEFINE a == SubSeq(s, 1, k - 1)
           b == SubSeq(s, k + 1, Len(s))
           n == Len(s)
<1>0. n \in Nat
  OBVIOUS
<1>1. a \in Seq(S) /\ Len(a) = k - 1 /\ \A i \in 1 .. k - 1 : a[i] = s[i]
  BY SubSeqProperties
<1>2. b \in Seq(S) /\ Len(b) = n - k /\ \A i \in 1 .. n - k : b[i] = s[k + i]
  BY SubSeqProperties
<1> HIDE DEF a, b
<1>3. /\ a \o b \in Seq(S) /\ Len(a \o b) = Len(a) + Len(b)
      /\ \A i \in 1 .. Len(a) + Len(b) :
            (a \o b)[i] = IF i <= Len(a) THEN a[i] ELSE b[i - Len(a)]
  BY <1>1, <1>2, ConcatProperties, Zenon
<1>4. k \in 1 .. n
  OBVIOUS
<1> HIDE DEF n
<1>5. Len(a \o b) = n - 1
  BY <1>0, <1>1, <1>2, <1>3, <1>4
<1>6. ASSUME NEW i \in 1 .. n - 1 PROVE (a \o b)[i] = IF i < k THEN s[i] ELSE s[i + 1]
  <2>1. (a \o b)[i] = IF i <= k - 1 THEN a[i] ELSE b[i - (k - 1)]
    BY <1>0, <1>1, <1>2, <1>3, <1>4
  <2>2. CASE i < k
    BY <1>0, <1>1, <1>4, <2>1, <2>2
  <2>3. CASE ~(i < k)
    <3>1. i - (k - 1) \in 1 .. n - k /\ k + (i - (k - 1)) = i + 1
      BY <1>0, <1>4, <2>3
    <3>2. b[i - (k - 1)] = s[i + 1]
      BY <1>2, <3>1
    <3> QED
      BY <1>0, <1>4, <2>1, <2>3, <3>2
  <2> QED
    BY <2>2, <2>3
<1> QED
  BY <1>3, <1>5, <1>6 DEF Order!Cut, a, b, n

LEMMA InsertedSeq ==
  ASSUME NEW S, NEW s \in Seq(S), NEW l \in S, NEW k \in 0 .. Len(s)
  PROVE  /\ Order!Inserted(s, l, k) \in Seq(S)
         /\ Len(Order!Inserted(s, l, k)) = Len(s) + 1
         /\ \A i \in 1 .. Len(s) + 1 :
               Order!Inserted(s, l, k)[i] = IF i <= k THEN s[i]
                                            ELSE IF i = k + 1 THEN l ELSE s[i - 1]
<1> DEFINE a == SubSeq(s, 1, k)
           b == SubSeq(s, k + 1, Len(s))
           c == a \o <<l>>
           n == Len(s)
<1>0. n \in Nat /\ k \in 0 .. n
  OBVIOUS
<1>1. a \in Seq(S) /\ Len(a) = k /\ \A i \in 1 .. k : a[i] = s[i]
  BY SubSeqProperties
<1>2. b \in Seq(S) /\ Len(b) = n - k /\ \A i \in 1 .. n - k : b[i] = s[k + i]
  BY SubSeqProperties
<1> HIDE DEF a, b
<1>3. c \in Seq(S) /\ Len(c) = k + 1 /\ \A i \in 1 .. k + 1 : c[i] = IF i <= k THEN a[i] ELSE l
  BY <1>1, ConcatProperties
<1> HIDE DEF c
<1>4. /\ c \o b \in Seq(S) /\ Len(c \o b) = Len(c) + Len(b)
      /\ \A i \in 1 .. Len(c) + Len(b) :
            (c \o b)[i] = IF i <= Len(c) THEN c[i] ELSE b[i - Len(c)]
  BY <1>2, <1>3, ConcatProperties, Zenon
<1> HIDE DEF n
<1>5. Len(c \o b) = n + 1
  BY <1>0, <1>2, <1>3, <1>4
<1>6. ASSUME NEW i \in 1 .. n + 1
      PROVE  (c \o b)[i] = IF i <= k THEN s[i] ELSE IF i = k + 1 THEN l ELSE s[i - 1]
  <2>1. (c \o b)[i] = IF i <= k + 1 THEN c[i] ELSE b[i - (k + 1)]
    BY <1>0, <1>2, <1>3, <1>4
  <2>2. CASE i <= k + 1
    BY <1>0, <1>1, <1>3, <2>1, <2>2
  <2>3. CASE ~(i <= k + 1)
    <3>1. i - (k + 1) \in 1 .. n - k /\ k + (i - (k + 1)) = i - 1
      BY <1>0, <2>3
    <3>2. b[i - (k + 1)] = s[i - 1]
      BY <1>2, <3>1
    <3> QED
      BY <1>0, <2>1, <2>3, <3>2
  <2> QED
    BY <2>2, <2>3
<1> QED
  BY <1>4, <1>5, <1>6 DEF Order!Inserted, a, b, c, n

LEMMA SeqWider ==
  ASSUME NEW S, NEW T, S \subseteq T, NEW s \in Seq(S)
  PROVE  s \in Seq(T)
<1>1. Len(s) \in Nat /\ s = [i \in 1 .. Len(s) |-> s[i]] /\ \A i \in 1 .. Len(s) : s[i] \in S
  BY SeqDef, LenProperties
<1>2. s \in [1 .. Len(s) -> T]
  BY <1>1
<1> QED
  BY <1>1, <1>2, SeqDef

LEMMA RemovedSeq ==
  ASSUME NEW S, NEW s \in Seq(S), NEW l
  PROVE  Removed(s, l) \in Seq(S)
<1>1. CASE Listed(l, s)
  <2>1. Removed(s, l) = Order!Cut(s, FirstAt(s, l))
    BY <1>1 DEF Removed, Order!Cut
  <2> QED
    BY <1>1, <2>1, FirstAtFound, CutSeq
<1> QED
  BY <1>1 DEF Removed

LEMMA InsertedAfterSeq ==
  ASSUME NEW S, NEW s \in Seq(S), NEW l \in S, NEW m, Listed(m, s)
  PROVE  InsertedAfter(s, l, m) \in Seq(S)
<1>1. InsertedAfter(s, l, m) = Order!Inserted(s, l, FirstAt(s, m))
  BY DEF InsertedAfter, Order!Inserted
<1>2. FirstAt(s, m) \in 0 .. Len(s)
  BY FirstAtFound
<1> QED
  BY <1>1, <1>2, InsertedSeq

-----------------------------------------------------------------------------
TypeInv == TypeOK /\ txn = [t \in Txn |-> txn[t]]

LEMMA LeftTypes ==
  ASSUME TypeOK, NEW l \in Language
  PROVE  \A x \in Language : Left(l)[x] \in Seq(row)
<1>1. \A x \in Language : Removed(younger_siblings[x], l) \in Seq(row)
  BY RemovedSeq DEF TypeOK
<1> QED
  BY <1>1 DEF Left, TypeOK

LEMMA ChildTypes ==
  ASSUME TypeOK, NEW p
  PROVE  Child(p) \subseteq row /\ Child(p) \subseteq Language
BY DEF Child, TypeOK

LEMMA TypesBegun ==
  ASSUME TypeInv, NEW t \in Txn, NEW r, IsOpen(r), Begins(t, r)
  PROVE  TypeInv'
<1>1. txn' = [txn EXCEPT ![t] = r] /\ UNCHANGED <<row, live, parent, younger_siblings, home, live_dictionary>>
  BY DEF Begins, languages, dictionaries
<1>2. \A s \in Txn : txn'[s] = Idle \/ IsOpen(txn'[s])
  BY <1>1 DEF TypeInv, TypeOK
<1>3. \A s \in Txn : IsOpen(txn'[s]) => IsOpen(txn[s])'
  BY <1>1 DEF IsOpen
<1> QED
  BY <1>1, <1>2, <1>3 DEF TypeInv, TypeOK

LEMMA TypesCreated ==
  ASSUME TypeInv, NEW t \in Txn, NEW l \in Language, NEW p \in Parent,
         create_dblanguage(t, l, p)
  PROVE  TypeInv'
<1>1. PICK list \in {<<>>} \cup {Append(younger_siblings[m], m) : m \in Child(p)} :
         Begins(t, [Nothing EXCEPT !.new = {l}, !.parents = [x \in {l} |-> p],
                                   !.lists = [x \in {l} |-> list]])
  BY DEF create_dblanguage
<1> DEFINE r == [Nothing EXCEPT !.new = {l}, !.parents = [x \in {l} |-> p],
                                !.lists = [x \in {l} |-> list]]
<1>2. \A m \in Child(p) : Append(younger_siblings[m], m) \in Seq(row)
  BY ChildTypes DEF TypeInv, TypeOK
<1>3. p \in row \cup {Top} /\ list \in Seq(row)
  <2>1. p \in row \cup {Top}
    BY DEF create_dblanguage, TypeInv, TypeOK
  <2>2. <<>> \in Seq(row)
    OBVIOUS
  <2>3. list = <<>> \/ \E m \in Child(p) : list = Append(younger_siblings[m], m)
    OBVIOUS
  <2> QED
    BY <1>2, <2>1, <2>2, <2>3
<1>4. IsOpen(r)
  BY <1>3 DEF IsOpen, Nothing, None
<1> QED
  BY <1>1, <1>4, TypesBegun

LEMMA TypesMoved ==
  ASSUME TypeInv, NEW t \in Txn, NEW l \in Language, NEW p \in Parent, NEW m \in Parent,
         move_language(t, l, p, m)
  PROVE  TypeInv'
<1> DEFINE new == [x \in {l} \cup Leaving(l) \cup After(l, p, m) |->
              IF x = l THEN IF m = Top THEN <<>> ELSE Append(Left(l)[m], m)
              ELSE IF x \notin After(l, p, m) THEN Left(l)[x]
              ELSE IF m = Top THEN <<l>> \o Left(l)[x] ELSE InsertedAfter(Left(l)[x], l, m)]
           r == [Nothing EXCEPT !.parents = [x \in {l} |-> p], !.lists = new]
<1>1. Begins(t, r)
  BY DEF move_language
<1>2. l \in row /\ p \in row \cup {Top} /\ (m # Top => m \in row /\ m \in Language)
  BY ChildTypes DEF move_language, TypeInv, TypeOK
<1>3. \A x \in Language : Left(l)[x] \in Seq(row)
  BY LeftTypes DEF TypeInv
<1>4. Leaving(l) \subseteq row /\ After(l, p, m) \subseteq row /\ row \subseteq Language
  BY ChildTypes DEF Leaving, After, TypeInv, TypeOK
<1>5. ASSUME NEW x \in {l} \cup Leaving(l) \cup After(l, p, m) PROVE new[x] \in Seq(row)
  <2>1. x \in row /\ x \in Language /\ Left(l)[x] \in Seq(row)
    BY <1>2, <1>3, <1>4
  <2>2. CASE x = l
    BY <1>2, <1>3, <2>2
  <2>3. CASE x # l /\ x \notin After(l, p, m)
    BY <2>1, <2>3
  <2>4. CASE x # l /\ x \in After(l, p, m) /\ m = Top
    BY <1>2, <2>1, <2>4
  <2>5. CASE x # l /\ x \in After(l, p, m) /\ m # Top
    <3>1. Listed(m, Left(l)[x])
      BY <2>5 DEF After
    <3>2. InsertedAfter(Left(l)[x], l, m) \in Seq(row)
      BY <1>2, <2>1, <3>1, InsertedAfterSeq
    <3> QED
      BY <2>5, <3>2
  <2> QED
    BY <2>2, <2>3, <2>4, <2>5
<1>6. DOMAIN new \subseteq row
  BY <1>2, <1>4
<1> HIDE DEF new
<1>7. IsOpen(r)
  BY <1>2, <1>5, <1>6 DEF IsOpen, Nothing, None, new
<1> QED
  BY <1>1, <1>7, TypesBegun

LEMMA TypesDeleted ==
  ASSUME TypeInv, NEW t \in Txn, NEW l \in Language, DeleteLanguage(t, l)
  PROVE  TypeInv'
<1> DEFINE r == [Nothing EXCEPT !.dead = {l}, !.lists = [x \in Leaving(l) |-> Left(l)[x]]]
<1>1. Begins(t, r)
  BY DEF DeleteLanguage
<1>2. l \in row /\ Leaving(l) \subseteq row /\ row \subseteq Language
  BY ChildTypes DEF DeleteLanguage, Leaving, TypeInv, TypeOK
<1>3. \A x \in Language : Left(l)[x] \in Seq(row)
  BY LeftTypes DEF TypeInv
<1>4. IsOpen(r)
  BY <1>2, <1>3 DEF IsOpen, Nothing, None
<1> QED
  BY <1>1, <1>4, TypesBegun

LEMMA TypesDictionary ==
  ASSUME TypeInv, NEW t \in Txn, NEW d \in Dictionary, NEW l \in Language,
         create_dbdictionary(t, d, l) \/ UpdateDictionary(t, d, l)
  PROVE  TypeInv'
<1>1. CASE create_dbdictionary(t, d, l)
  <2> DEFINE r == [Nothing EXCEPT !.homes = [x \in {d} |-> l], !.marks = [x \in {d} |-> TRUE]]
  <2>1. IsOpen(r) /\ Begins(t, r)
    BY <1>1 DEF IsOpen, Nothing, None, create_dbdictionary
  <2> QED
    BY <2>1, TypesBegun
<1>2. CASE UpdateDictionary(t, d, l)
  <2> DEFINE r == [Nothing EXCEPT !.homes = [x \in {d} |-> l]]
  <2>1. IsOpen(r) /\ Begins(t, r)
    BY <1>2 DEF IsOpen, Nothing, None, UpdateDictionary
  <2> QED
    BY <2>1, TypesBegun
<1> QED
  BY <1>1, <1>2

LEMMA TypesMarked ==
  ASSUME TypeInv, NEW t \in Txn, NEW d \in Dictionary,
         DeleteDictionary(t, d) \/ UndeleteDictionary(t, d)
  PROVE  TypeInv'
<1>1. ASSUME NEW b \in BOOLEAN, Begins(t, [Nothing EXCEPT !.marks = [x \in {d} |-> b]])
      PROVE  TypeInv'
  <2>1. IsOpen([Nothing EXCEPT !.marks = [x \in {d} |-> b]])
    BY DEF IsOpen, Nothing, None
  <2> QED
    BY <1>1, <2>1, TypesBegun
<1> QED
  BY <1>1 DEF DeleteDictionary, UndeleteDictionary

LEMMA TypesCommitted ==
  ASSUME TypeInv, NEW t \in Txn, Commit(t)
  PROVE  TypeInv'
<1> DEFINE r == txn[t]
<1>1. IsOpen(r)
  BY DEF TypeInv, TypeOK, Commit, Idle
<1>2. /\ row' = row \cup r.new /\ live' = (live \cup r.new) \ r.dead
      /\ parent' = Changed(parent, r.parents)
      /\ younger_siblings' = Changed(younger_siblings, r.lists)
      /\ home' = Changed(home, r.homes)
      /\ live_dictionary' = Changed(live_dictionary, r.marks)
      /\ txn' = [txn EXCEPT ![t] = Idle]
  BY DEF Commit
<1> HIDE DEF r
<1>3. row \subseteq row' /\ row' \in SUBSET Language /\ live' \in SUBSET row'
  BY <1>1, <1>2 DEF IsOpen, TypeInv, TypeOK
<1>4. parent' \in [Language -> row' \cup {Top}] /\ \A l \in Language \ row' : parent'[l] = Top
  BY <1>1, <1>2 DEF IsOpen, TypeInv, TypeOK, Changed
<1>5. \A s \in Seq(row) : s \in Seq(row')
  BY <1>3, SeqWider
<1>6. younger_siblings' \in [Language -> Seq(row')]
  <2>1. \A l \in Language : younger_siblings'[l] \in Seq(row)
    BY <1>1, <1>2 DEF IsOpen, TypeInv, TypeOK, Changed
  <2>2. younger_siblings' = [l \in Language |-> younger_siblings'[l]]
    BY <1>2 DEF TypeInv, TypeOK, Changed
  <2> HIDE DEF r
  <2>3. \A l \in Language : younger_siblings'[l] \in Seq(row')
    BY <1>5, <2>1
  <2> QED
    BY <2>2, <2>3
<1>7. home' \in [Dictionary -> row' \cup {Top}] /\ live_dictionary' \in [Dictionary -> BOOLEAN]
  BY <1>1, <1>2 DEF IsOpen, TypeInv, TypeOK, Changed
<1>8. ASSUME NEW s \in Txn PROVE (txn[s] = Idle \/ IsOpen(txn[s]))'
  <2>1. CASE s = t
    BY <1>2, <2>1 DEF TypeInv, Idle
  <2>2. CASE s # t
    <3>1. txn'[s] = txn[s] /\ (txn[s] = Idle \/ IsOpen(txn[s]))
      BY <1>2, <2>2 DEF TypeInv, TypeOK
    <3>2. CASE IsOpen(txn[s])
      <4> DEFINE q == txn[s]
      <4>1. IsOpen(q) /\ txn'[s] = q
        BY <3>1, <3>2
      <4> HIDE DEF q
      <4>2. \A x \in DOMAIN q.lists : q.lists[x] \in Seq(row')
        BY <1>5, <4>1 DEF IsOpen
      <4> QED
        BY <1>3, <4>1, <4>2 DEF IsOpen
    <3> QED
      BY <3>1, <3>2 DEF Idle
  <2> QED
    BY <2>1, <2>2
<1>9. txn' = [s \in Txn |-> txn'[s]]
  BY <1>2 DEF TypeInv
<1> QED
  BY <1>3, <1>4, <1>6, <1>7, <1>8, <1>9 DEF TypeInv, TypeOK

LEMMA TypeInit == Init => TypeInv
<1> SUFFICES ASSUME Init PROVE TypeInv
  OBVIOUS
<1>1. younger_siblings \in [Language -> Seq(row)]
  BY DEF Init
<1> QED
  BY <1>1 DEF Init, TypeInv, TypeOK

LEMMA TypeStep == TypeInv /\ [Next]_vars => TypeInv'
<1> SUFFICES ASSUME TypeInv, [Next]_vars PROVE TypeInv'
  OBVIOUS
<1>1. CASE UNCHANGED vars
  BY <1>1 DEF vars, TypeInv, TypeOK, IsOpen
<1> QED
  BY <1>1, TypesCreated, TypesMoved, TypesDeleted, TypesDictionary, TypesMarked,
     TypesCommitted DEF Next

(***************************************************************************)
(* Whatever transactions overlap, the rows stay well-typed: the lists name *)
(* only languages that have been created, a parent is a language or the    *)
(* top, and a row that is not there has no parent.                         *)
(***************************************************************************)
THEOREM TypeCorrect == Spec => []TypeOK
<1>1. Init => TypeInv
  BY TypeInit
<1>2. TypeInv /\ [Next]_vars => TypeInv'
  BY TypeStep
<1>3. TypeInv => TypeOK
  BY DEF TypeInv
<1> QED
  BY <1>1, <1>2, <1>3, PTL DEF Spec

-----------------------------------------------------------------------------
(* The list s holds the languages of S in the order that f tells: f of each of them is the *)
(* part of s before it.                                                                    *)
Lists(s, S, f) ==
    /\ s \in Seq(Language)
    /\ \A i \in 1 .. Len(s) : s[i] \in S /\ f[s[i]] = SubSeq(s, 1, i - 1)
    /\ \A x \in S : \E i \in 1 .. Len(s) : s[i] = x

(* The part of a list before a place of it. *)
LEMMA Part ==
  ASSUME NEW s \in Seq(Language), NEW i \in 0 .. Len(s)
  PROVE  /\ SubSeq(s, 1, i) \in Seq(Language) /\ Len(SubSeq(s, 1, i)) = i
         /\ \A j \in 1 .. i : SubSeq(s, 1, i)[j] = s[j]
BY SubSeqProperties

LEMMA ListsPart ==
  ASSUME NEW S, NEW f, NEW s, Lists(s, S, f), NEW i \in 1 .. Len(s)
  PROVE  /\ f[s[i]] \in Seq(Language) /\ Len(f[s[i]]) = i - 1
         /\ \A j \in 1 .. i - 1 : f[s[i]][j] = s[j]
<1>1. s \in Seq(Language) /\ i - 1 \in 0 .. Len(s) /\ f[s[i]] = SubSeq(s, 1, i - 1)
  BY DEF Lists
<1> QED
  BY <1>1, Part

(* No language is twice in such a list. *)
LEMMA ListsOnce ==
  ASSUME NEW S, NEW f, NEW s, Lists(s, S, f),
         NEW i \in 1 .. Len(s), NEW j \in 1 .. Len(s), s[i] = s[j]
  PROVE  i = j
<1>1. Len(f[s[i]]) = i - 1 /\ Len(f[s[j]]) = j - 1
  BY ListsPart
<1> QED
  BY <1>1

LEMMA ListsSame ==
  ASSUME NEW S, NEW f, NEW g, NEW s, Lists(s, S, f), \A x \in S : f[x] = g[x]
  PROVE  Lists(s, S, g)
BY DEF Lists

(* What a member of such a list lists, and where. *)
LEMMA ListedAt ==
  ASSUME NEW S, NEW f, NEW s, Lists(s, S, f),
         NEW i \in 1 .. Len(s), NEW k \in 1 .. Len(s)
  PROVE  /\ Listed(s[k], f[s[i]]) <=> k < i
         /\ k < i => FirstAt(f[s[i]], s[k]) = k
<1> DEFINE q == f[s[i]]
<1>1. q \in Seq(Language) /\ Len(q) = i - 1 /\ \A j \in 1 .. i - 1 : q[j] = s[j]
  BY ListsPart
<1> HIDE DEF q
<1>2. DOMAIN q = 1 .. i - 1
  BY <1>1
<1>3. ASSUME k < i PROVE Listed(s[k], q)
  BY <1>1, <1>2, <1>3 DEF Listed
<1>4. ASSUME NEW j \in 1 .. i - 1, q[j] = s[k] PROVE j = k
  <2>1. j \in 1 .. Len(s) /\ s[j] = s[k]
    BY <1>1, <1>4
  <2> QED
    BY <2>1, ListsOnce
<1>5. ASSUME Listed(s[k], q) PROVE k < i
  BY <1>2, <1>4, <1>5 DEF Listed
<1>6. ASSUME k < i PROVE FirstAt(q, s[k]) = k
  BY <1>1, <1>3, <1>4, <1>6, FirstAtFound
<1> QED
  BY <1>3, <1>5, <1>6 DEF q

(* A list that one language leaves. *)
LEMMA ListsCut ==
  ASSUME NEW S, NEW f, NEW g, NEW s, Lists(s, S, f), NEW k \in 1 .. Len(s),
         \A x \in S \ {s[k]} : g[x] = IF Listed(s[k], f[x]) THEN Removed(f[x], s[k]) ELSE f[x]
  PROVE  Lists(Order!Cut(s, k), S \ {s[k]}, g)
<1> DEFINE c == Order!Cut(s, k)
           n == Len(s)
           at(i) == IF i < k THEN i ELSE i + 1
<1>1. s \in Seq(Language) /\ n \in Nat /\ k \in 1 .. n
  BY DEF Lists
<1>2. /\ c \in Seq(Language) /\ Len(c) = n - 1
      /\ \A i \in 1 .. n - 1 : c[i] = s[at(i)]
  BY <1>1, CutSeq
<1> HIDE DEF c
<1>3. ASSUME NEW i \in 1 .. Len(c) PROVE c[i] \in S \ {s[k]} /\ g[c[i]] = SubSeq(c, 1, i - 1)
  <2> DEFINE x == c[i]
             p == SubSeq(c, 1, i - 1)
  <2>0. i \in 1 .. n - 1 /\ at(i) \in 1 .. Len(s) /\ at(i) # k /\ x = s[at(i)]
    BY <1>1, <1>2
  <2>1. PICK h \in 1 .. Len(s) : h = at(i) /\ i \in 1 .. n - 1 /\ h # k /\ x = s[h]
    BY <2>0
  <2>2. x \in S \ {s[k]}
    <3> HIDE DEF x
    <3>1. s[h] # s[k]
      BY <2>1, ListsOnce
    <3> QED
      BY <2>1, <3>1 DEF Lists
  <2>3. p \in Seq(Language) /\ Len(p) = i - 1 /\ \A j \in 1 .. i - 1 : p[j] = s[at(j)]
    <3>1. i - 1 \in 0 .. Len(c) /\ 1 .. i - 1 \subseteq 1 .. n - 1
      BY <1>1, <1>2, <2>1
    <3> QED
      BY <1>2, <3>1, Part
  <2>4. /\ f[x] \in Seq(Language) /\ Len(f[x]) = h - 1
        /\ \A j \in 1 .. h - 1 : f[x][j] = s[j]
    <3> HIDE DEF x, at, n, p
    <3>1. /\ f[s[h]] \in Seq(Language) /\ Len(f[s[h]]) = h - 1
          /\ \A j \in 1 .. h - 1 : f[s[h]][j] = s[j]
      BY ListsPart
    <3> QED
      BY <2>1, <3>1
  <2>5. Listed(s[k], f[x]) <=> k < h
    BY <1>1, <2>1, ListedAt
  <2> HIDE DEF p, x
  <2>6. CASE i < k
    <3>1. h = i /\ g[x] = f[x]
      BY <1>1, <2>1, <2>2, <2>5, <2>6
    <3>2. \A j \in 1 .. i - 1 : p[j] = f[x][j]
      BY <1>1, <2>1, <2>3, <2>4, <2>6, <3>1
    <3>3. p = f[x]
      BY <2>3, <2>4, <3>1, <3>2, SeqEqual
    <3> QED
      BY <2>2, <3>1, <3>3 DEF p, x
  <2>7. CASE ~(i < k)
    <3>1. h = i + 1 /\ k < h
      BY <1>1, <2>1, <2>7
    <3>2. g[x] = Removed(f[x], s[k]) /\ FirstAt(f[x], s[k]) = k
      BY <1>1, <2>1, <2>2, <2>5, <3>1, ListedAt
    <3>3. Removed(f[x], s[k]) = Order!Cut(f[x], k)
      BY <2>5, <3>1, <3>2 DEF Removed, Order!Cut
    <3>4. k \in 1 .. Len(f[x]) /\ Len(f[x]) = i
      BY <1>1, <2>1, <2>4, <3>1
    <3>5. /\ Order!Cut(f[x], k) \in Seq(Language) /\ Len(Order!Cut(f[x], k)) = i - 1
          /\ \A j \in 1 .. i - 1 : Order!Cut(f[x], k)[j] = IF j < k THEN f[x][j] ELSE f[x][j + 1]
      BY <2>4, <3>4, CutSeq
    <3>6. \A j \in 1 .. i - 1 : Order!Cut(f[x], k)[j] = p[j]
      <4> TAKE j \in 1 .. i - 1
      <4>1. CASE j < k
        <5>1. p[j] = s[j]
          BY <2>3, <4>1
        <5>2. j \in 1 .. h - 1
          BY <1>1, <2>1, <3>1
        <5> QED
          BY <2>4, <3>5, <4>1, <5>1, <5>2
      <4>2. CASE ~(j < k)
        <5>1. j + 1 \in 1 .. h - 1
          BY <1>1, <2>1, <3>1
        <5> QED
          BY <1>1, <2>1, <2>3, <2>4, <3>5, <4>2, <5>1
      <4> QED
        BY <4>1, <4>2
    <3>7. Order!Cut(f[x], k) = p
      BY <2>3, <3>5, <3>6, SeqEqual
    <3> QED
      BY <2>2, <3>2, <3>3, <3>7 DEF p, x
  <2> QED
    BY <2>6, <2>7
<1>4. ASSUME NEW x \in S \ {s[k]} PROVE \E i \in 1 .. Len(c) : c[i] = x
  <2>1. PICK h \in 1 .. n : s[h] = x
    BY DEF Lists
  <2>2. CASE h < k
    BY <1>1, <1>2, <2>1, <2>2
  <2>3. CASE h > k
    <3>1. h - 1 \in 1 .. n - 1 /\ at(h - 1) = h
      BY <1>1, <2>1, <2>3
    <3> QED
      BY <1>2, <2>1, <3>1
  <2> QED
    BY <1>1, <2>1, <2>2, <2>3
<1> QED
  BY <1>2, <1>3, <1>4 DEF Lists, c

(* InsertedSeq for lists of languages. *)
LEMMA InsertedList ==
  \A s \in Seq(Language) : \A l \in Language : \A k \in 0 .. Len(s) :
      /\ Order!Inserted(s, l, k) \in Seq(Language)
      /\ Len(Order!Inserted(s, l, k)) = Len(s) + 1
      /\ \A i \in 1 .. Len(s) + 1 :
            Order!Inserted(s, l, k)[i] = IF i <= k THEN s[i]
                                         ELSE IF i = k + 1 THEN l ELSE s[i - 1]
BY InsertedSeq

(* A list into which one language is put after the first k. *)
LEMMA ListsInserted ==
  ASSUME NEW S, NEW f, NEW g, NEW s, Lists(s, S, f), NEW l \in Language, l \notin S,
         NEW k \in 0 .. Len(s),
         g[l] = SubSeq(s, 1, k),
         \A i \in 1 .. k : g[s[i]] = f[s[i]],
         \A i \in k + 1 .. Len(s) : g[s[i]] = Order!Inserted(f[s[i]], l, k)
  PROVE  Lists(Order!Inserted(s, l, k), S \cup {l}, g)
<1> DEFINE c == Order!Inserted(s, l, k)
           n == Len(s)
<1>1. s \in Seq(Language) /\ n \in Nat /\ k \in 0 .. n
  BY DEF Lists
<1>2. /\ c \in Seq(Language) /\ Len(c) = n + 1
      /\ \A i \in 1 .. n + 1 : c[i] = IF i <= k THEN s[i] ELSE IF i = k + 1 THEN l ELSE s[i - 1]
  BY <1>1, InsertedList, l \in Language
<1> HIDE DEF c
<1>3. ASSUME NEW i \in 1 .. Len(c) PROVE c[i] \in S \cup {l} /\ g[c[i]] = SubSeq(c, 1, i - 1)
  <2> DEFINE p == SubSeq(c, 1, i - 1)
  <2>1. i \in 1 .. n + 1
    BY <1>2
  <2>2. /\ p \in Seq(Language) /\ Len(p) = i - 1
        /\ \A j \in 1 .. i - 1 : p[j] = IF j <= k THEN s[j] ELSE IF j = k + 1 THEN l ELSE s[j - 1]
    <3>1. i - 1 \in 0 .. Len(c) /\ 1 .. i - 1 \subseteq 1 .. n + 1
      BY <1>1, <1>2, <2>1
    <3> QED
      BY <1>2, <3>1, Part
  <2> HIDE DEF p
  <2>3. CASE i <= k
    <3>1. c[i] = s[i] /\ i \in 1 .. n /\ g[c[i]] = f[s[i]]
      BY <1>1, <1>2, <2>1, <2>3
    <3>2. /\ f[s[i]] \in Seq(Language) /\ Len(f[s[i]]) = i - 1
          /\ \A j \in 1 .. i - 1 : f[s[i]][j] = s[j]
      BY <3>1, ListsPart
    <3>3. \A j \in 1 .. i - 1 : p[j] = f[s[i]][j]
      BY <1>1, <2>1, <2>2, <2>3, <3>2
    <3>4. p = f[s[i]]
      BY <2>2, <3>2, <3>3, SeqEqual
    <3> QED
      BY <3>1, <3>4 DEF Lists, p
  <2>4. CASE i = k + 1
    <3>1. c[i] = l /\ g[c[i]] = SubSeq(s, 1, k)
      BY <1>1, <1>2, <2>1, <2>4
    <3>2. /\ SubSeq(s, 1, k) \in Seq(Language) /\ Len(SubSeq(s, 1, k)) = k
          /\ \A j \in 1 .. k : SubSeq(s, 1, k)[j] = s[j]
      BY <1>1, Part
    <3>3. \A j \in 1 .. k : p[j] = SubSeq(s, 1, k)[j]
      BY <1>1, <2>2, <2>4, <3>2
    <3>4. p = SubSeq(s, 1, k)
      BY <1>1, <2>2, <2>4, <3>2, <3>3, SeqEqual
    <3> QED
      BY <3>1, <3>4 DEF p
  <2>5. CASE i > k + 1
    <3>1. c[i] = s[i - 1] /\ i - 1 \in 1 .. n /\ i - 1 \in k + 1 .. n
      BY <1>1, <1>2, <2>1, <2>5
    <3> DEFINE q == f[s[i - 1]]
    <3>2. g[c[i]] = Order!Inserted(q, l, k)
      BY <3>1
    <3>3a. PICK e \in 1 .. Len(s) : e = i - 1
      BY <3>1
    <3>3b. /\ f[s[e]] \in Seq(Language) /\ Len(f[s[e]]) = e - 1
           /\ \A j \in 1 .. e - 1 : f[s[e]][j] = s[j]
      BY ListsPart
    <3>3. q \in Seq(Language) /\ Len(q) = (i - 1) - 1 /\ \A j \in 1 .. (i - 1) - 1 : q[j] = s[j]
      BY <3>3a, <3>3b
    <3> HIDE DEF q
    <3>4. k \in 0 .. Len(q)
      BY <1>1, <2>1, <2>5, <3>3
    <3>5. /\ Order!Inserted(q, l, k) \in Seq(Language)
          /\ Len(Order!Inserted(q, l, k)) = Len(q) + 1
          /\ \A j \in 1 .. Len(q) + 1 :
                Order!Inserted(q, l, k)[j] = IF j <= k THEN q[j]
                                             ELSE IF j = k + 1 THEN l ELSE q[j - 1]
      BY <3>3, <3>4, InsertedList, l \in Language
    <3>6. Len(q) + 1 = i - 1
      BY <1>1, <2>1, <3>3
    <3>7. \A j \in 1 .. i - 1 : Order!Inserted(q, l, k)[j] = p[j]
      <4> TAKE j \in 1 .. i - 1
      <4>1. CASE j <= k
        BY <1>1, <2>1, <2>2, <2>5, <3>3, <3>5, <3>6, <4>1
      <4>2. CASE j = k + 1
        <5>1. j \in 1 .. Len(q) + 1 /\ ~(j <= k)
          BY <1>1, <3>6, <4>2
        <5>2. Order!Inserted(q, l, k)[j] = l
          BY <3>5, <4>2, <5>1
        <5>3. p[j] = l
          BY <2>2, <4>2, <5>1
        <5> QED
          BY <5>2, <5>3
      <4>3. CASE j > k + 1
        <5>1. j - 1 \in 1 .. (i - 1) - 1
          BY <1>1, <2>1, <4>3
        <5> QED
          BY <1>1, <2>1, <2>2, <2>5, <3>3, <3>5, <3>6, <4>3, <5>1
      <4> QED
        BY <1>1, <2>1, <4>1, <4>2, <4>3
    <3>8. Order!Inserted(q, l, k) = p
      BY <2>2, <3>5, <3>6, <3>7, SeqEqual
    <3> QED
      BY <3>1, <3>2, <3>8 DEF Lists, p
  <2> QED
    BY <1>1, <2>1, <2>3, <2>4, <2>5
<1>4. ASSUME NEW x \in S \cup {l} PROVE \E i \in 1 .. Len(c) : c[i] = x
  <2>1. CASE x = l
    <3>1. k + 1 \in 1 .. Len(c) /\ c[k + 1] = l
      BY <1>1, <1>2
    <3> QED
      BY <2>1, <3>1
  <2>2. CASE x \in S
    <3>1. PICK h \in 1 .. n : s[h] = x
      BY <2>2 DEF Lists
    <3>2. CASE h <= k
      BY <1>1, <1>2, <3>1, <3>2
    <3>3. CASE h > k
      <4>1. h + 1 \in 1 .. Len(c) /\ ~(h + 1 <= k) /\ h + 1 # k + 1 /\ (h + 1) - 1 = h
        BY <1>1, <1>2, <3>3
      <4>2. c[h + 1] = x
        BY <1>2, <3>1, <4>1
      <4> QED
        BY <4>1, <4>2
    <3> QED
      BY <1>1, <3>2, <3>3
  <2> QED
    BY <2>1, <2>2
<1> QED
  BY <1>2, <1>3, <1>4 DEF Lists, c

-----------------------------------------------------------------------------
LEMMA PartAppend ==
  ASSUME NEW s \in Seq(Language), NEW i \in 1 .. Len(s)
  PROVE  Append(SubSeq(s, 1, i - 1), s[i]) = SubSeq(s, 1, i)
<1> DEFINE a == SubSeq(s, 1, i - 1)
           b == SubSeq(s, 1, i)
<1>1. /\ a \in Seq(Language) /\ Len(a) = i - 1
      /\ \A j \in 1 .. i - 1 : a[j] = s[j]
  <2>1. i - 1 \in 0 .. Len(s)
    OBVIOUS
  <2> QED
    BY <2>1, Part
<1>2. /\ b \in Seq(Language) /\ Len(b) = i
      /\ \A j \in 1 .. i : b[j] = s[j]
  BY Part
<1> HIDE DEF a, b
<1>3. s[i] \in Language
  OBVIOUS
<1>4. /\ Append(a, s[i]) \in Seq(Language) /\ Len(Append(a, s[i])) = i
      /\ \A j \in 1 .. i - 1 : Append(a, s[i])[j] = s[j]
      /\ Append(a, s[i])[i] = s[i]
  BY <1>1, <1>3, AppendProperties
<1>5. \A j \in 1 .. i : Append(a, s[i])[j] = b[j]
  BY <1>2, <1>4
<1>6. Append(a, s[i]) = b
  BY <1>2, <1>4, <1>5, SeqEqual
<1> QED
  BY <1>6 DEF a, b

LEMMA WholePart ==
  ASSUME NEW s \in Seq(Language)
  PROVE  SubSeq(s, 1, Len(s)) = s
<1>1. Len(s) \in 0 .. Len(s)
  OBVIOUS
<1> QED
  BY <1>1, Part, SeqEqual

(* The list of the last sibling, and that sibling, is the list of all of them. *)
LEMMA ChildrenAre ==
  \A p \in Parent : \A s : Lists(s, Child(p), younger_siblings) => Children(p) = s
<1> SUFFICES ASSUME NEW p \in Parent, NEW s, Lists(s, Child(p), younger_siblings)
             PROVE  Children(p) = s
  OBVIOUS
<1> DEFINE n == Len(s)
<1>1. s \in Seq(Language) /\ n \in Nat
  BY DEF Lists
<1>2. CASE n = 0
  <2>1. s = <<>> /\ Child(p) = {}
    BY <1>1, <1>2 DEF Lists
  <2> QED
    BY <2>1 DEF Children
<1>3. CASE n # 0
  <2>1. n \in 1 .. Len(s)
    BY <1>1, <1>3
  <2>2. \A i \in 1 .. Len(s) : Len(younger_siblings[s[i]]) = i - 1
    BY ListsPart
  <2>3. s[n] \in Child(p) /\ IsLast(s[n])
    <3>1. s[n] \in Child(p) /\ parent[s[n]] = p
      BY <2>1 DEF Lists, Child
    <3>2. ASSUME NEW x \in Child(p)
          PROVE  Len(younger_siblings[x]) <= Len(younger_siblings[s[n]])
      <4>1. PICK i \in 1 .. Len(s) : s[i] = x
        BY DEF Lists
      <4>2. Len(younger_siblings[x]) = i - 1 /\ Len(younger_siblings[s[n]]) = n - 1
        BY <2>1, <2>2, <4>1
      <4> QED
        BY <1>1, <4>2
    <3> QED
      BY <3>1, <3>2 DEF IsLast
  <2> DEFINE l == CHOOSE l \in Child(p) : IsLast(l)
  <2>4. l \in Child(p) /\ IsLast(l)
    BY <2>3
  <2> HIDE DEF l
  <2>5. PICK i \in 1 .. Len(s) : s[i] = l
    BY <2>4 DEF Lists
  <2>6. Len(younger_siblings[s[n]]) <= Len(younger_siblings[l])
    BY <2>3, <2>4 DEF IsLast, Child
  <2>7. i = n
    <3>1. Len(younger_siblings[s[n]]) = n - 1 /\ Len(younger_siblings[l]) = i - 1
      BY <2>1, <2>2, <2>5
    <3>2. n - 1 <= i - 1
      BY <2>6, <3>1
    <3> QED
      BY <1>1, <3>2
  <2>8. younger_siblings[l] = SubSeq(s, 1, n - 1) /\ s[n] = l
    BY <2>1, <2>5, <2>7 DEF Lists
  <2>9. Children(p) = Append(younger_siblings[l], l)
    BY <2>3 DEF Children, l
  <2>10. Append(SubSeq(s, 1, n - 1), s[n]) = s
    BY <1>1, <2>1, PartAppend, WholePart
  <2> QED
    BY <2>8, <2>9, <2>10
<1> QED
  BY <1>2, <1>3

-----------------------------------------------------------------------------
(* What an open transaction has decided, told by the tables: nobody else writes them until *)
(* it commits.                                                                             *)
Writes(r, new, dead, parents, lists) ==
    r.new = new /\ r.dead = dead /\ r.parents = parents /\ r.lists = lists

Creates(r) ==
    \E l \in Language, p \in Parent :
        /\ l \notin row
        /\ Writes(r, {l}, {}, [x \in {l} |-> p], [x \in {l} |-> Children(p)])

MovedLists(l, p, m) ==
    [x \in {l} \cup Leaving(l) \cup After(l, p, m) |->
        IF x = l THEN IF m = Top THEN <<>> ELSE Append(Left(l)[m], m)
        ELSE IF x \notin After(l, p, m) THEN Left(l)[x]
        ELSE IF m = Top THEN <<l>> \o Left(l)[x] ELSE InsertedAfter(Left(l)[x], l, m)]

Moves(r) ==
    \E l \in Language, p, m \in Parent :
        /\ l \in live /\ m \in Child(p) \cup {Top} /\ m # l
        /\ Writes(r, {}, {}, [x \in {l} |-> p], MovedLists(l, p, m))

Deletes(r) ==
    \E l \in Language :
        /\ l \in live /\ Child(l) = {}
        /\ \A d \in Dictionary : ~(live_dictionary[d] /\ home[d] = l)
        /\ Writes(r, {}, {l}, None, [x \in Leaving(l) |-> Left(l)[x]])
        /\ r.homes = None /\ r.marks = None

Rehomes(r) == Writes(r, {}, {}, None, None)

Decided(r) == Creates(r) \/ Moves(r) \/ Deletes(r) \/ Rehomes(r)

OrderInv == \A p \in Parent : Lists(Children(p), Child(p), younger_siblings)

SerialInv ==
    /\ TypeInv
    /\ OrderInv
    /\ \A t \in Txn : txn[t] = Idle \/ Decided(txn[t])

-----------------------------------------------------------------------------
(* The lists that a language leaves. *)
LEMMA RestLists ==
  ASSUME TypeOK, OrderInv, NEW l \in live
  PROVE  /\ parent[l] \in Parent
         /\ \E k \in 1 .. Len(Children(parent[l])) :
              /\ Children(parent[l])[k] = l
              /\ \A q \in Parent :
                    Lists(IF q = parent[l] THEN Order!Cut(Children(q), k) ELSE Children(q),
                          Child(q) \ {l}, Left(l))
<1> DEFINE f == younger_siblings
           g == Left(l)
<1>1. parent[l] \in Parent /\ l \in Child(parent[l]) /\ live \subseteq Language
  BY DEF TypeOK, Parent, Child
<1>2. PICK k \in 1 .. Len(Children(parent[l])) : Children(parent[l])[k] = l
  BY <1>1 DEF OrderInv, Lists
<1>3. ASSUME NEW q \in Parent
      PROVE  Lists(IF q = parent[l] THEN Order!Cut(Children(q), k) ELSE Children(q),
                   Child(q) \ {l}, g)
  <2>1. Lists(Children(q), Child(q), f)
    BY DEF OrderInv
  <2>2. CASE q = parent[l]
    <3>1. \A x \in Child(q) \ {l} : g[x] = IF Listed(l, f[x]) THEN Removed(f[x], l) ELSE f[x]
      BY <1>1, <2>2 DEF Left, Leaving, Child
    <3> DEFINE s == Children(q)
    <3>2. k \in 1 .. Len(s) /\ s[k] = l
      BY <1>2, <2>2
    <3> HIDE DEF s, f, g
    <3>3. Lists(Order!Cut(s, k), Child(q) \ {s[k]}, g)
      BY <2>1, <3>1, <3>2, ListsCut DEF s
    <3> QED
      BY <2>2, <3>2, <3>3 DEF s
  <2>3. CASE q # parent[l]
    <3>1. Child(q) \ {l} = Child(q) /\ \A x \in Child(q) : f[x] = g[x]
      BY <1>1, <2>3 DEF Left, Leaving, Child
    <3> HIDE DEF f, g
    <3> QED
      BY <2>1, <2>3, <3>1, ListsSame
  <2> QED
    BY <2>2, <2>3
<1> QED
  BY <1>1, <1>2, <1>3

(* Lists that agree with the tables after a step are the order of the children then. *)
LEMMA NextLists ==
  ASSUME NEW new, \A q \in Parent : Lists(new[q], Child(q)', younger_siblings')
  PROVE  OrderInv' /\ \A q \in Parent : Children(q)' = new[q]
<1>1. (\A p \in Parent : \A s : Lists(s, Child(p), younger_siblings) => Children(p) = s)'
  BY ChildrenAre, PTL
<1>2. \A q \in Parent : Lists(new[q], Child(q), younger_siblings)'
  BY DEF Lists
<1>3. \A q \in Parent : Children(q)' = new[q]
  BY <1>1, <1>2
<1> QED
  BY <1>2, <1>3 DEF OrderInv

(* What the commit of a delete does to the lists. *)
LEMMA DeleteCommits ==
  ASSUME SerialInv, NEW t \in Txn, Commit(t), Deletes(txn[t])
  PROVE  OrderInv' /\ \E l \in Language : Order!Remove(l)
<1> DEFINE r == txn[t]
<1>1. PICK l \in Language :
         /\ l \in live /\ Child(l) = {}
         /\ Writes(r, {}, {l}, None, [x \in Leaving(l) |-> Left(l)[x]])
  BY DEF Deletes
<1> DEFINE q0 == parent[l]
<1>2. PICK k \in 1 .. Len(Children(q0)) :
         /\ Children(q0)[k] = l
         /\ \A q \in Parent : Lists(IF q = q0 THEN Order!Cut(Children(q), k) ELSE Children(q),
                                     Child(q) \ {l}, Left(l))
  BY <1>1, RestLists DEF SerialInv, TypeInv
<1>3. q0 \in Parent
  BY <1>1, RestLists DEF SerialInv, TypeInv
<1>4. live' = live \ {l} /\ parent' = parent
  BY <1>1 DEF Commit, Writes, Changed, None, SerialInv, TypeInv, TypeOK
<1>5. \A x \in Language : younger_siblings'[x] = Left(l)[x]
  <2>1. younger_siblings' = Changed(younger_siblings, [x \in Leaving(l) |-> Left(l)[x]])
    BY <1>1 DEF Commit, Writes
  <2>2. \A x \in Language : x \notin Leaving(l) => Left(l)[x] = younger_siblings[x]
    BY DEF Left
  <2> QED
    BY <2>1, <2>2 DEF Changed, SerialInv, TypeInv, TypeOK
<1>6. \A q \in Parent : Child(q)' = Child(q) \ {l} /\ Child(q) \subseteq Language
  BY <1>4 DEF Child, SerialInv, TypeInv, TypeOK
<1> DEFINE new == [q \in Parent |-> IF q = q0 THEN Order!Cut(Children(q), k) ELSE Children(q)]
<1>7. ASSUME NEW q \in Parent PROVE Lists(new[q], Child(q)', younger_siblings')
  <2>1. Lists(new[q], Child(q) \ {l}, Left(l))
    BY <1>2
  <2> HIDE DEF new
  <2>2. Lists(new[q], Child(q) \ {l}, younger_siblings')
    BY <1>5, <1>6, <2>1, ListsSame
  <2> QED
    BY <1>6, <2>2
<1>8. OrderInv' /\ \A q \in Parent : Children(q)' = new[q]
  <2> HIDE DEF new
  <2> QED
    BY <1>7, NextLists
<1>9. [p \in Parent |-> Children(p)]' = new
  BY <1>8
<1>10. k \in DOMAIN Children(q0)
  BY <1>2, <1>3 DEF OrderInv, SerialInv, Lists
<1>11. Order!Remove(l)
  <2>1. new = Order!Without(q0, k)
    BY DEF Order!Without, Order!Parent, Parent
  <2> HIDE DEF new, q0
  <2> QED
    BY <1>2, <1>3, <1>9, <1>10, <2>1 DEF Order!Remove, Order!Parent, Parent
<1> QED
  BY <1>8, <1>11

LEMMA CreateCommits ==
  ASSUME SerialInv, NEW t \in Txn, Commit(t), Creates(txn[t])
  PROVE  OrderInv' /\ \E l \in Language, p \in Parent : Order!Add(l, p)
<1> DEFINE r == txn[t]
<1>1. PICK l \in Language, p \in Parent :
         l \notin row /\ Writes(r, {l}, {}, [x \in {l} |-> p], [x \in {l} |-> Children(p)])
  BY DEF Creates
<1> DEFINE s == Children(p)
           n == Len(s)
<1>2. Lists(s, Child(p), younger_siblings) /\ s \in Seq(Language) /\ n \in 0 .. Len(s)
  BY DEF SerialInv, OrderInv, Lists
<1>3. live' = live \cup {l} /\ parent' = [parent EXCEPT ![l] = p]
  BY <1>1 DEF Commit, Writes, Changed, SerialInv, TypeInv, TypeOK
<1>4. /\ younger_siblings'[l] = s
      /\ \A x \in Language : x # l => younger_siblings'[x] = younger_siblings[x]
  BY <1>1 DEF Commit, Writes, Changed, SerialInv, TypeInv, TypeOK
<1>5. \A q \in Parent : l \notin Child(q) /\ Child(q) \subseteq Language
  BY <1>1 DEF Child, SerialInv, TypeInv, TypeOK
<1>6. \A q \in Parent : Child(q)' = IF q = p THEN Child(q) \cup {l} ELSE Child(q)
  BY <1>3, <1>5 DEF Child, SerialInv, TypeInv, TypeOK
<1> DEFINE new == [q \in Parent |-> IF q = p THEN Order!Inserted(s, l, n) ELSE Children(q)]
<1>7. ASSUME NEW q \in Parent PROVE Lists(new[q], Child(q)', younger_siblings')
  <2>1. CASE q = p
    <3> DEFINE g == younger_siblings'
    <3>1. l \notin Child(p) /\ g[l] = SubSeq(s, 1, n)
      BY <1>2, <1>4, <1>5, WholePart
    <3>2. \A i \in 1 .. n : g[s[i]] = younger_siblings[s[i]]
      BY <1>2, <1>4, <1>5 DEF Lists
    <3>3. n + 1 .. Len(s) = {}
      BY <1>2
    <3> HIDE DEF s, n, g
    <3>4. Lists(Order!Inserted(s, l, n), Child(p) \cup {l}, g)
      BY <1>2, <3>1, <3>2, <3>3, ListsInserted
    <3> QED
      BY <1>6, <2>1, <3>4 DEF g
  <2>2. CASE q # p
    <3>1. Lists(Children(q), Child(q), younger_siblings)
      BY DEF SerialInv, OrderInv
    <3>2. Lists(Children(q), Child(q), younger_siblings')
      BY <1>4, <1>5, <3>1, ListsSame
    <3> QED
      BY <1>6, <2>2, <3>2
  <2> QED
    BY <2>1, <2>2
<1>8. OrderInv' /\ \A q \in Parent : Children(q)' = new[q]
  <2> HIDE DEF new
  <2> QED
    BY <1>7, NextLists
<1>9. [q \in Parent |-> Children(q)]' = new
  BY <1>8
<1>10. Order!Inserted(s, l, n) = Append(s, l)
  <2> DEFINE c == Order!Inserted(s, l, n)
  <2>1. /\ c \in Seq(Language) /\ Len(c) = n + 1
        /\ \A i \in 1 .. n + 1 : c[i] = IF i <= n THEN s[i] ELSE IF i = n + 1 THEN l ELSE s[i - 1]
    <3> HIDE DEF s
    <3> QED
      BY <1>2, InsertedList, l \in Language
  <2>2. /\ Append(s, l) \in Seq(Language) /\ Len(Append(s, l)) = n + 1
        /\ \A i \in 1 .. n : Append(s, l)[i] = s[i]
        /\ Append(s, l)[n + 1] = l
    BY <1>2, AppendProperties
  <2>3. \A i \in 1 .. n + 1 : c[i] = Append(s, l)[i]
    BY <1>2, <2>1, <2>2
  <2> HIDE DEF c
  <2>4. c = Append(s, l)
    BY <2>1, <2>2, <2>3, SeqEqual
  <2> QED
    BY <2>4 DEF c
<1>11. \A q \in Parent : ~Order!Among(l, q)
  <2>1. ASSUME NEW q \in Parent, NEW i \in DOMAIN Children(q), Children(q)[i] = l PROVE FALSE
    BY <1>5, <2>1 DEF SerialInv, OrderInv, Lists
  <2> QED
    BY <2>1 DEF Order!Among
<1>12. Order!Add(l, p)
  <2>1. new = [[q \in Parent |-> Children(q)] EXCEPT ![p] = Append(s, l)]
    BY <1>10
  <2>2. new = [[q \in Parent |-> Children(q)] EXCEPT
                 ![p] = Append([q \in Parent |-> Children(q)][p], l)]
    BY <2>1
  <2> HIDE DEF new, s, n
  <2> QED
    BY <1>9, <1>11, <2>2 DEF Order!Add, Order!Parent, Parent
<1> QED
  BY <1>8, <1>12

(* What the commit of a move does to the lists. *)
LEMMA MoveCommits ==
  ASSUME SerialInv, NEW t \in Txn, Commit(t), Moves(txn[t])
  PROVE  OrderInv' /\ \E l \in Language, p \in Parent : Order!Move(l, p)
<1> DEFINE r == txn[t]
<1>1. PICK l \in Language, p, m \in Parent :
         /\ l \in live /\ m \in Child(p) \cup {Top} /\ m # l
         /\ Writes(r, {}, {}, [x \in {l} |-> p], MovedLists(l, p, m))
  BY DEF Moves
<1> DEFINE q0 == parent[l]
           g == younger_siblings'
           after == After(l, p, m)
<1>2. PICK k \in 1 .. Len(Children(q0)) :
         /\ Children(q0)[k] = l
         /\ \A q \in Parent : Lists(IF q = q0 THEN Order!Cut(Children(q), k) ELSE Children(q),
                                     Child(q) \ {l}, Left(l))
  BY <1>1, RestLists DEF SerialInv, TypeInv
<1>3. q0 \in Parent
  BY <1>1, RestLists DEF SerialInv, TypeInv
<1> DEFINE rest == [q \in Parent |-> IF q = q0 THEN Order!Cut(Children(q), k) ELSE Children(q)]
           s == rest[p]
           n == Len(s)
<1>4. \A q \in Parent : Lists(rest[q], Child(q) \ {l}, Left(l))
  BY <1>2
<1>5. live' = live /\ parent' = [parent EXCEPT ![l] = p]
  BY <1>1 DEF Commit, Writes, Changed, SerialInv, TypeInv, TypeOK
<1>6. /\ \A q \in Parent : Child(q) \subseteq Language
      /\ \A q \in Parent : Child(q)' = IF q = p THEN (Child(q) \ {l}) \cup {l} ELSE Child(q) \ {l}
      /\ after \subseteq Child(p) \ {l}
      /\ \A q \in Parent : q # p => Child(q) \cap Child(p) = {}
  BY <1>1, <1>5 DEF Child, After, SerialInv, TypeInv, TypeOK
<1>7. /\ g[l] = IF m = Top THEN <<>> ELSE Append(Left(l)[m], m)
      /\ \A x \in Language : x # l /\ x \notin after => g[x] = Left(l)[x]
      /\ \A x \in after :
            g[x] = IF m = Top THEN <<l>> \o Left(l)[x] ELSE InsertedAfter(Left(l)[x], l, m)
  <2>1. younger_siblings' = Changed(younger_siblings, MovedLists(l, p, m))
    BY <1>1 DEF Commit, Writes
  <2>2. \A x \in Language : x \notin Leaving(l) => Left(l)[x] = younger_siblings[x]
    BY DEF Left
  <2>3. DOMAIN younger_siblings = Language
    BY DEF SerialInv, TypeInv, TypeOK
  <2>4. after \subseteq Language /\ l \notin after
    BY <1>6
  <2> HIDE DEF after
  <2>5. \A x \in Language : g[x] =
          IF x = l THEN IF m = Top THEN <<>> ELSE Append(Left(l)[m], m)
          ELSE IF x \notin after THEN Left(l)[x]
          ELSE IF m = Top THEN <<l>> \o Left(l)[x] ELSE InsertedAfter(Left(l)[x], l, m)
    BY <2>1, <2>2, <2>3 DEF Changed, MovedLists, after
  <2> QED
    BY <2>4, <2>5
<1>8. Lists(s, Child(p) \ {l}, Left(l)) /\ s \in Seq(Language) /\ n \in Nat
  BY <1>4 DEF Lists
<1>9. \E i \in 0 .. n : (m = Top /\ i = 0) \/ (m # Top /\ i \in 1 .. n /\ s[i] = m)
  <2>1. CASE m = Top
    BY <1>8, <2>1
  <2>2. CASE m # Top
    <3>1. m \in Child(p) \ {l}
      BY <1>1, <2>2
    <3> HIDE DEF s
    <3> QED
      BY <1>8, <2>2, <3>1 DEF Lists
  <2> QED
    BY <2>1, <2>2
<1>10. PICK i \in 0 .. n : (m = Top /\ i = 0) \/ (m # Top /\ i \in 1 .. n /\ s[i] = m)
  BY <1>9
<1> HIDE DEF q0, rest, s, n, g, after
<1>11. \A j \in 1 .. n : s[j] \in Child(p) \ {l} /\ Left(l)[s[j]] = SubSeq(s, 1, j - 1)
  BY <1>8 DEF Lists, n
<1>12. \A j \in 1 .. n : s[j] \in after <=> j > i
  <2> TAKE j \in 1 .. n
  <2>1. CASE m = Top
    BY <1>8, <1>10, <1>11, <2>1 DEF after, After
  <2>2. CASE m # Top
    <3>1. Listed(s[i], Left(l)[s[j]]) <=> i < j
      BY <1>8, <1>10, <2>2, ListedAt DEF n
    <3> QED
      BY <1>8, <1>10, <1>11, <2>2, <3>1 DEF after, After
  <2> QED
    BY <2>1, <2>2
<1>13. g[l] = SubSeq(s, 1, i)
  <2>1. CASE m = Top
    <3>1. SubSeq(s, 1, 0) = <<>>
      BY <1>8, SubSeqEmpty
    <3> QED
      BY <1>7, <1>10, <2>1, <3>1
  <2>2. CASE m # Top
    <3>1. i \in 1 .. Len(s) /\ s[i] = m
      BY <1>10, <2>2 DEF n
    <3>2. Left(l)[m] = SubSeq(s, 1, i - 1)
      BY <1>11, <3>1 DEF n
    <3>3. Append(SubSeq(s, 1, i - 1), s[i]) = SubSeq(s, 1, i)
      BY <1>8, <3>1, PartAppend
    <3> QED
      BY <1>7, <2>2, <3>1, <3>2, <3>3
  <2> QED
    BY <2>1, <2>2
<1>14. \A j \in 1 .. i : g[s[j]] = Left(l)[s[j]]
  <2> TAKE j \in 1 .. i
  <2>1. j \in 1 .. n /\ ~(j > i)
    BY <1>8, <1>10
  <2>2. s[j] \in Language /\ s[j] # l /\ s[j] \notin after
    BY <1>6, <1>11, <1>12, <2>1
  <2> QED
    BY <1>7, <2>2
<1>15. \A j \in i + 1 .. n : g[s[j]] = Order!Inserted(Left(l)[s[j]], l, i)
  <2> TAKE j \in i + 1 .. n
  <2>1. j \in 1 .. n /\ j > i
    BY <1>8, <1>10
  <2> DEFINE a == Left(l)[s[j]]
  <2>2. s[j] \in after
    BY <1>12, <2>1
  <2>3. CASE m = Top
    <3>1. a \in Seq(Language)
      <4>1. j \in 1 .. Len(s)
        BY <2>1 DEF n
      <4> QED
        BY <1>8, <4>1, ListsPart
    <3>2. g[s[j]] = <<l>> \o a
      BY <1>7, <2>2, <2>3
    <3> HIDE DEF a
    <3>3. SubSeq(a, 1, 0) = <<>> /\ SubSeq(a, 1, Len(a)) = a
      BY <3>1, SubSeqEmpty, WholePart
    <3>4. <<>> \o <<l>> = <<l>>
      BY l \in Language, ConcatEmptySeq
    <3>5. Order!Inserted(a, l, 0) = <<l>> \o a
      BY <3>3, <3>4 DEF Order!Inserted
    <3> QED
      BY <1>10, <2>3, <3>2, <3>5 DEF a
  <2>4. CASE m # Top
    <3>1. i \in 1 .. Len(s) /\ j \in 1 .. Len(s) /\ i < j /\ s[i] = m
      BY <1>8, <1>10, <2>1, <2>4 DEF n
    <3>2. FirstAt(a, m) = i
      BY <1>8, <3>1, ListedAt
    <3>3. g[s[j]] = InsertedAfter(a, l, m)
      BY <1>7, <2>2, <2>4
    <3> QED
      BY <3>2, <3>3 DEF InsertedAfter, Order!Inserted
  <2> QED
    BY <2>3, <2>4
<1> DEFINE new == [rest EXCEPT ![p] = Order!Inserted(s, l, i)]
<1>16. /\ new[p] = Order!Inserted(s, l, i)
       /\ \A q \in Parent : q # p => new[q] = rest[q]
       /\ new = [q \in Parent |-> new[q]]
  BY DEF rest
<1> HIDE DEF new
<1>17. ASSUME NEW q \in Parent PROVE Lists(new[q], Child(q)', g)
  <2>1. CASE q = p
    <3>1. i \in 0 .. Len(s) /\ l \notin Child(p) \ {l}
      BY DEF n
    <3>2. Lists(Order!Inserted(s, l, i), (Child(p) \ {l}) \cup {l}, g)
      BY <1>8, <1>13, <1>14, <1>15, <3>1, l \in Language, ListsInserted DEF n
    <3> QED
      BY <1>6, <1>16, <2>1, <3>2
  <2>2. CASE q # p
    <3>1. \A x \in Child(q) \ {l} : Left(l)[x] = g[x]
      BY <1>6, <1>7, <2>2
    <3>2. Lists(rest[q], Child(q) \ {l}, g)
      BY <1>4, <3>1, ListsSame
    <3> QED
      BY <1>6, <1>16, <2>2, <3>2
  <2> QED
    BY <2>1, <2>2
<1>18. OrderInv' /\ \A q \in Parent : Children(q)' = new[q]
  BY <1>17, NextLists DEF g
<1>19. [q \in Parent |-> Children(q)]' = new
  BY <1>16, <1>18
<1>20. k \in DOMAIN Children(q0) /\ Children(q0)[k] = l
  BY <1>2, <1>3 DEF OrderInv, SerialInv, Lists
<1>21. Order!Move(l, p)
  <2>1. rest = Order!Without(q0, k)
    BY DEF rest, Order!Without, Order!Parent, Parent
  <2>2. i \in 0 .. Len(rest[p])
    BY DEF n, s
  <2> QED
    BY <1>3, <1>19, <1>20, <2>1, <2>2 DEF Order!Move, Order!Parent, Parent, new, s
<1> QED
  BY <1>18, <1>21

-----------------------------------------------------------------------------
(* What is decided depends on the tables only. *)
LEMMA StillDeletes ==
  ASSUME UNCHANGED <<row, live, parent, younger_siblings, home, live_dictionary>>, NEW r
  PROVE  Deletes(r) <=> Deletes(r)'
<1>1. \A l : Left(l)' = Left(l) /\ Leaving(l)' = Leaving(l) /\ Child(l)' = Child(l)
  BY DEF Child, Left, Leaving
<1>2. ASSUME NEW l PROVE [x \in Leaving(l) |-> Left(l)[x]]' = [x \in Leaving(l) |-> Left(l)[x]]
  BY <1>1
<1> QED
  BY <1>1, <1>2 DEF Deletes, Writes

LEMMA StillDecided ==
  ASSUME UNCHANGED <<row, live, parent, younger_siblings, home, live_dictionary>>, NEW r
  PROVE  /\ Decided(r) <=> Decided(r)'
         /\ OrderInv <=> OrderInv'
<1>1. /\ \A p : Child(p)' = Child(p) /\ Children(p)' = Children(p)
      /\ \A l : Left(l)' = Left(l) /\ Leaving(l)' = Leaving(l)
      /\ \A l, p, m : After(l, p, m)' = After(l, p, m)
  BY DEF Child, Children, IsLast, Left, Leaving, After
<1>2. ASSUME NEW l, NEW p
      PROVE  [x \in {l} |-> Children(p)]' = [x \in {l} |-> Children(p)]
  BY <1>1
<1>4. \A l, p, m : MovedLists(l, p, m)' = MovedLists(l, p, m)
  BY <1>1 DEF MovedLists
<1>5. Creates(r) <=> Creates(r)'
  <2>1. ASSUME NEW l, NEW p
        PROVE  Writes(r, {l}, {}, [x \in {l} |-> p], [x \in {l} |-> Children(p)])
                 <=> Writes(r, {l}, {}, [x \in {l} |-> p], [x \in {l} |-> Children(p)])'
    BY <1>2 DEF Writes
  <2> QED
    BY <2>1 DEF Creates
<1>6. Moves(r) <=> Moves(r)'
  BY <1>1, <1>4 DEF Moves, Writes
<1>7. Deletes(r) <=> Deletes(r)'
  BY StillDeletes
<1>8. Rehomes(r) <=> Rehomes(r)'
  BY DEF Rehomes, Writes
<1>9. OrderInv <=> OrderInv'
  BY <1>1 DEF OrderInv
<1> QED
  BY <1>5, <1>6, <1>7, <1>8, <1>9 DEF Decided

LEMMA OrderBegun ==
  ASSUME SerialInv, NEW t \in Txn, NEW r, Begins(t, r), Decided(r), TypeInv'
  PROVE  SerialInv'
<1>1. txn' = [txn EXCEPT ![t] = r]
      /\ UNCHANGED <<row, live, parent, younger_siblings, home, live_dictionary>>
  BY DEF Begins, languages, dictionaries
<1>2. ASSUME NEW s \in Txn PROVE (txn[s] = Idle \/ Decided(txn[s]))'
  <2>1. PICK q : q = txn'[s] /\ (q = Idle \/ Decided(q))
    BY <1>1 DEF SerialInv, TypeInv
  <2>2. q = Idle \/ Decided(q)'
    BY <1>1, <2>1, StillDecided
  <2> QED
    BY <2>1, <2>2 DEF Idle
<1>3. OrderInv'
  BY <1>1, StillDecided DEF SerialInv
<1> QED
  BY <1>2, <1>3 DEF SerialInv

(* The new language is decided to come after all the others. *)
LEMMA OrderCreated ==
  ASSUME SerialInv, NEW t \in Txn, NEW l \in Language, NEW p \in Parent,
         create_dblanguage(t, l, p)
  PROVE  SerialInv'
<1>1. PICK list \in {<<>>} \cup {Append(younger_siblings[m], m) : m \in Child(p)} :
         /\ list = <<>> => Child(p) = {}
         /\ \A m \in Child(p) : Len(younger_siblings[m]) < Len(list)
         /\ Begins(t, [Nothing EXCEPT !.new = {l}, !.parents = [x \in {l} |-> p],
                                      !.lists = [x \in {l} |-> list]])
  BY DEF create_dblanguage
<1> DEFINE r == [Nothing EXCEPT !.new = {l}, !.parents = [x \in {l} |-> p],
                                !.lists = [x \in {l} |-> list]]
           s == Children(p)
           n == Len(s)
<1>2. Lists(s, Child(p), younger_siblings) /\ s \in Seq(Language) /\ n \in Nat
  BY DEF SerialInv, OrderInv, Lists
<1>3. list = s
  <2>1. CASE list = <<>>
    BY <1>1, <2>1 DEF Children
  <2>2. CASE list # <<>>
    <3>1. PICK m \in Child(p) : list = Append(younger_siblings[m], m)
      BY <2>2
    <3> HIDE DEF s, n
    <3>2. PICK i \in 1 .. Len(s) : s[i] = m
      BY <1>2 DEF Lists
    <3>3. younger_siblings[m] = SubSeq(s, 1, i - 1)
      BY <1>2, <3>2 DEF Lists
    <3>4. list = SubSeq(s, 1, i) /\ Len(list) = i
      BY <1>2, <3>1, <3>2, <3>3, PartAppend, Part
    <3>5. n \in 1 .. Len(s)
      BY <1>2, <3>2 DEF n
    <3>6. s[n] \in Child(p) /\ Len(younger_siblings[s[n]]) = n - 1
      <4>1. s[n] \in Child(p)
        BY <1>2, <3>5 DEF Lists
      <4>2. Len(younger_siblings[s[n]]) = n - 1
        BY <1>2, <3>5, ListsPart
      <4> QED
        BY <4>1, <4>2
    <3>7. n - 1 < i
      BY <1>1, <3>4, <3>6
    <3>8. i = n
      BY <1>2, <3>2, <3>5, <3>7 DEF n
    <3> QED
      BY <1>2, <3>4, <3>8, WholePart DEF n
  <2> QED
    BY <2>1, <2>2
<1>4. Writes(r, {l}, {}, [x \in {l} |-> p], [x \in {l} |-> s])
  BY <1>3 DEF Writes, Nothing
<1>5. l \notin row
  BY DEF create_dblanguage
<1>6. Decided(r)
  <2> HIDE DEF r
  <2> QED
    BY <1>4, <1>5 DEF Decided, Creates
<1>7. TypeInv'
  BY TypesCreated DEF SerialInv
<1> QED
  BY <1>1, <1>6, <1>7, OrderBegun

LEMMA OrderMoved ==
  ASSUME SerialInv, ~OwnPrevious, NEW t \in Txn, NEW l \in Language, NEW p \in Parent,
         NEW m \in Parent, move_language(t, l, p, m)
  PROVE  SerialInv'
<1> DEFINE r == [Nothing EXCEPT !.parents = [x \in {l} |-> p], !.lists = MovedLists(l, p, m)]
<1>1. Begins(t, r)
  BY DEF move_language, MovedLists
<1>2. Writes(r, {}, {}, [x \in {l} |-> p], MovedLists(l, p, m))
  BY DEF Writes, Nothing
<1>3. l \in live /\ m \in Child(p) \cup {Top} /\ m # l
  BY DEF move_language
<1>4. Decided(r)
  <2> HIDE DEF r
  <2> QED
    BY <1>2, <1>3 DEF Decided, Moves
<1>5. TypeInv'
  BY TypesMoved DEF SerialInv
<1> QED
  BY <1>1, <1>4, <1>5, OrderBegun

LEMMA OrderDeleted ==
  ASSUME SerialInv, NEW t \in Txn, NEW l \in Language, DeleteLanguage(t, l)
  PROVE  SerialInv'
<1> DEFINE r == [Nothing EXCEPT !.dead = {l}, !.lists = [x \in Leaving(l) |-> Left(l)[x]]]
<1>1. Begins(t, r)
  BY DEF DeleteLanguage
<1>2. /\ Writes(r, {}, {l}, None, [x \in Leaving(l) |-> Left(l)[x]])
      /\ r.homes = None /\ r.marks = None
  BY DEF Writes, Nothing
<1>3. /\ l \in live /\ Child(l) = {}
      /\ \A d \in Dictionary : ~(live_dictionary[d] /\ home[d] = l)
  BY DEF DeleteLanguage
<1>4. Decided(r)
  <2> HIDE DEF r
  <2> QED
    BY <1>2, <1>3 DEF Decided, Deletes
<1>5. TypeInv'
  BY TypesDeleted DEF SerialInv
<1> QED
  BY <1>1, <1>4, <1>5, OrderBegun

LEMMA OrderDictionary ==
  ASSUME SerialInv, NEW t \in Txn, NEW r, Begins(t, r), TypeInv',
         r.new = {}, r.dead = {}, r.parents = None, r.lists = None
  PROVE  SerialInv'
BY OrderBegun DEF Decided, Rehomes, Writes

(* A commit leaves an order of the children of every language, and is one step of it. *)
LEMMA OrderCommitted ==
  ASSUME \A s, t \in Txn : s = t, SerialInv, NEW t \in Txn, Commit(t)
  PROVE  SerialInv' /\ (Order!Next \/ UNCHANGED [p \in Parent |-> Children(p)])
<1>1. Decided(txn[t])
  BY DEF SerialInv, Commit, Idle
<1>2. TypeInv'
  BY TypesCommitted DEF SerialInv
<1>3. \A s \in Txn : (txn[s] = Idle)'
  BY DEF Commit, SerialInv, TypeInv, Idle
<1>4. OrderInv' /\ (Order!Next \/ UNCHANGED [p \in Parent |-> Children(p)])
  <2>1. CASE Creates(txn[t])
    BY <2>1, CreateCommits DEF Order!Next, Order!Parent, Parent
  <2>2. CASE Moves(txn[t])
    BY <2>2, MoveCommits DEF Order!Next, Order!Parent, Parent
  <2>3. CASE Deletes(txn[t])
    BY <2>3, DeleteCommits DEF Order!Next
  <2>4. CASE Rehomes(txn[t])
    <3>1. live' = live /\ parent' = parent /\ younger_siblings' = younger_siblings
      BY <2>4 DEF Rehomes, Writes, Commit, Changed, None, SerialInv, TypeInv, TypeOK
    <3>2. \A p : Child(p)' = Child(p) /\ Children(p)' = Children(p)
      BY <3>1 DEF Child, Children, IsLast
    <3> QED
      BY <3>1, <3>2 DEF SerialInv, OrderInv
  <2> QED
    BY <1>1, <2>1, <2>2, <2>3, <2>4 DEF Decided
<1> QED
  BY <1>2, <1>3, <1>4 DEF SerialInv

LEMMA SerialInit == Init => SerialInv /\ Order!Init
<1> SUFFICES ASSUME Init PROVE SerialInv /\ Order!Init
  OBVIOUS
<1>1. TypeInv
  BY TypeInit
<1>2. \A p \in Parent : Child(p) = {} /\ Children(p) = <<>>
  BY DEF Init, Child, Children
<1>3. OrderInv
  <2>1. Lists(<<>>, {}, younger_siblings)
    BY DEF Lists
  <2> QED
    BY <1>2, <2>1 DEF OrderInv
<1> QED
  BY <1>1, <1>2, <1>3 DEF Init, SerialInv, Order!Init, Order!Parent, Parent

LEMMA SerialStep ==
  ASSUME \A s, t \in Txn : s = t, ~OwnPrevious
  PROVE  SerialInv /\ [Next]_vars
           => SerialInv' /\ (Order!Next \/ UNCHANGED [p \in Parent |-> Children(p)])
<1> SUFFICES ASSUME SerialInv, [Next]_vars
             PROVE  SerialInv' /\ (Order!Next \/ UNCHANGED [p \in Parent |-> Children(p)])
  OBVIOUS
<1>1. ASSUME NEW t \in Txn, NEW r, Begins(t, r)
      PROVE  UNCHANGED [p \in Parent |-> Children(p)]
  BY <1>1 DEF Begins, languages, Child, Children, IsLast
<1>2. CASE UNCHANGED vars
  <2>1. UNCHANGED <<row, live, parent, younger_siblings, home, live_dictionary, txn>>
    BY <1>2 DEF vars
  <2>2. ASSUME NEW s \in Txn PROVE (txn[s] = Idle \/ Decided(txn[s]))'
    <3>1. PICK q : q = txn'[s] /\ (q = Idle \/ Decided(q))
      BY <2>1 DEF SerialInv
    <3>2. q = Idle \/ Decided(q)'
      BY <2>1, <3>1, StillDecided
    <3> QED
      BY <2>1, <3>1, <3>2 DEF Idle
  <2>3. OrderInv'
    BY <2>1, StillDecided DEF SerialInv
  <2>4. TypeInv'
    BY <2>1 DEF SerialInv, TypeInv, TypeOK, IsOpen
  <2>5. UNCHANGED [p \in Parent |-> Children(p)]
    BY <2>1 DEF Child, Children, IsLast
  <2> QED
    BY <2>2, <2>3, <2>4, <2>5 DEF SerialInv
<1>3. ASSUME NEW t \in Txn, NEW l \in Language, NEW p \in Parent, create_dblanguage(t, l, p)
      PROVE  SerialInv' /\ UNCHANGED [q \in Parent |-> Children(q)]
  BY <1>1, <1>3, OrderCreated DEF create_dblanguage
<1>4. ASSUME NEW t \in Txn, NEW l \in Language, NEW p \in Parent, NEW m \in Parent,
             move_language(t, l, p, m)
      PROVE  SerialInv' /\ UNCHANGED [q \in Parent |-> Children(q)]
  BY <1>1, <1>4, OrderMoved DEF move_language
<1>5. ASSUME NEW t \in Txn, NEW l \in Language, DeleteLanguage(t, l)
      PROVE  SerialInv' /\ UNCHANGED [q \in Parent |-> Children(q)]
  BY <1>1, <1>5, OrderDeleted DEF DeleteLanguage
<1>6. ASSUME NEW t \in Txn, NEW d \in Dictionary, NEW l \in Language,
             create_dbdictionary(t, d, l) \/ UpdateDictionary(t, d, l)
      PROVE  SerialInv' /\ UNCHANGED [q \in Parent |-> Children(q)]
  <2> DEFINE r == [Nothing EXCEPT !.homes = [x \in {d} |-> l], !.marks = [x \in {d} |-> TRUE]]
             u == [Nothing EXCEPT !.homes = [x \in {d} |-> l]]
  <2>1. Begins(t, r) \/ Begins(t, u)
    BY <1>6 DEF create_dbdictionary, UpdateDictionary
  <2>2. /\ r.new = {} /\ r.dead = {} /\ r.parents = None /\ r.lists = None
        /\ u.new = {} /\ u.dead = {} /\ u.parents = None /\ u.lists = None
    BY DEF Nothing
  <2>3. TypeInv'
    BY <1>6, TypesDictionary DEF SerialInv
  <2> HIDE DEF r, u
  <2> QED
    BY <1>1, <2>1, <2>2, <2>3, OrderDictionary
<1>7. ASSUME NEW t \in Txn, NEW d \in Dictionary,
             DeleteDictionary(t, d) \/ UndeleteDictionary(t, d)
      PROVE  SerialInv' /\ UNCHANGED [q \in Parent |-> Children(q)]
  <2> DEFINE r == [Nothing EXCEPT !.marks = [x \in {d} |-> FALSE]]
             u == [Nothing EXCEPT !.marks = [x \in {d} |-> TRUE]]
  <2>1. Begins(t, r) \/ Begins(t, u)
    BY <1>7 DEF DeleteDictionary, UndeleteDictionary
  <2>2. /\ r.new = {} /\ r.dead = {} /\ r.parents = None /\ r.lists = None
        /\ u.new = {} /\ u.dead = {} /\ u.parents = None /\ u.lists = None
    BY DEF Nothing
  <2>3. TypeInv'
    BY <1>7, TypesMarked DEF SerialInv
  <2> HIDE DEF r, u
  <2> QED
    BY <1>1, <2>1, <2>2, <2>3, OrderDictionary
<1> QED
  BY <1>2, <1>3, <1>4, <1>5, <1>6, <1>7, OrderCommitted DEF Next

LEMMA OrderedSiblings == SerialInv => SiblingsOrdered
<1> SUFFICES ASSUME SerialInv PROVE SiblingsOrdered
  OBVIOUS
<1> DEFINE f == younger_siblings
<1>1. ASSUME NEW l \in live
      PROVE  /\ parent[l] \in Parent /\ Lists(Children(parent[l]), Child(parent[l]), f)
             /\ \E k \in 1 .. Len(Children(parent[l])) : Children(parent[l])[k] = l
  <2>1. parent[l] \in Parent /\ l \in Child(parent[l])
    BY DEF SerialInv, TypeInv, TypeOK, Parent, Child
  <2> QED
    BY <2>1 DEF SerialInv, OrderInv, Lists
<1>2. ASSUME NEW l \in live, NEW i \in DOMAIN f[l]
      PROVE  f[l][i] \in live /\ parent[f[l][i]] = parent[l] /\ f[f[l][i]] = SubSeq(f[l], 1, i - 1)
  <2> DEFINE p == parent[l]
             s == Children(p)
  <2>1. Lists(s, Child(p), f) /\ s \in Seq(Language)
    BY <1>1 DEF Lists
  <2>2. PICK k \in 1 .. Len(s) : s[k] = l
    BY <1>1
  <2> HIDE DEF s, p
  <2>3. /\ f[s[k]] \in Seq(Language) /\ Len(f[s[k]]) = k - 1
        /\ \A j \in 1 .. k - 1 : f[s[k]][j] = s[j]
    BY <2>1, ListsPart
  <2>4. i \in 1 .. k - 1 /\ i \in 1 .. Len(s) /\ f[l][i] = s[i]
    BY <2>1, <2>2, <2>3
  <2>5. s[i] \in Child(p) /\ f[s[i]] = SubSeq(s, 1, i - 1)
    BY <2>1, <2>4 DEF Lists
  <2>6. SubSeq(f[l], 1, i - 1) = SubSeq(s, 1, i - 1)
    <3> DEFINE a == SubSeq(f[l], 1, i - 1)
               b == SubSeq(s, 1, i - 1)
    <3>1. i - 1 \in 0 .. Len(s) /\ i - 1 \in 0 .. Len(f[l]) /\ f[l] \in Seq(Language)
      BY <2>1, <2>2, <2>3, <2>4
    <3>2. /\ a \in Seq(Language) /\ Len(a) = i - 1 /\ \A j \in 1 .. i - 1 : a[j] = f[l][j]
          /\ b \in Seq(Language) /\ Len(b) = i - 1 /\ \A j \in 1 .. i - 1 : b[j] = s[j]
      BY <2>1, <3>1, Part
    <3> HIDE DEF a, b
    <3>3. \A j \in 1 .. i - 1 : a[j] = b[j]
      <4> TAKE j \in 1 .. i - 1
      <4>1. j \in 1 .. k - 1
        BY <2>4
      <4>2. f[l][j] = s[j]
        BY <2>2, <2>3, <4>1
      <4> QED
        BY <3>2, <4>2
    <3>4. a = b
      BY <3>2, <3>3, SeqEqual
    <3> QED
      BY <3>4 DEF a, b
  <2> QED
    BY <2>4, <2>5, <2>6 DEF Child, p
<1>3. ASSUME NEW l \in live, NEW m \in live, parent[l] = parent[m], f[l] = f[m] PROVE l = m
  <2> DEFINE s == Children(parent[l])
  <2>1. Lists(s, Child(parent[l]), f)
    BY <1>1
  <2>2. PICK k \in 1 .. Len(s) : s[k] = l
    BY <1>1
  <2>3. PICK h \in 1 .. Len(s) : s[h] = m
    BY <1>1, <1>3
  <2> HIDE DEF s
  <2>4. Len(f[s[k]]) = k - 1 /\ Len(f[s[h]]) = h - 1
    BY <2>1, ListsPart
  <2> QED
    BY <1>3, <2>2, <2>3, <2>4
<1> QED
  BY <1>2, <1>3 DEF SiblingsOrdered

(***************************************************************************)
(* When transactions do not overlap, and none puts a language after        *)
(* itself, the lists of the siblings agree: however languages are created, *)
(* moved and deleted, each list is the part before a language of one order *)
(* of the children of its parent.                                          *)
(***************************************************************************)
THEOREM SerialSiblingsOrdered ==
  ASSUME \A s, t \in Txn : s = t, ~OwnPrevious
  PROVE  Spec => []SiblingsOrdered
<1>1. Init => SerialInv
  BY SerialInit
<1>2. SerialInv /\ [Next]_vars => SerialInv'
  BY SerialStep
<1> QED
  BY <1>1, <1>2, OrderedSiblings, PTL DEF Spec

(***************************************************************************)
(* The refinement: what a commit does to the lists of all the siblings is  *)
(* one step of the order - a language added as the last, moved to a place, *)
(* or removed - or nothing.                                                *)
(***************************************************************************)
THEOREM SerialImplementsOrder ==
  ASSUME \A s, t \in Txn : s = t, ~OwnPrevious
  PROVE  Spec => ImplementsOrder
<1>1. Init => SerialInv /\ Order!Init
  BY SerialInit
<1>2. SerialInv /\ [Next]_vars
        => SerialInv' /\ [Order!Next]_([p \in Parent |-> Children(p)])
  BY SerialStep
<1> QED
  BY <1>1, <1>2, PTL DEF Spec, ImplementsOrder, Order!Spec

-----------------------------------------------------------------------------
(* An open transaction that deletes a language has found it bare. *)
BareInv ==
    /\ TypeInv
    /\ \A t \in Txn : txn[t] = Idle \/ txn[t].dead = {} \/ Deletes(txn[t])

LEMMA BareBegun ==
  ASSUME BareInv, NEW t \in Txn, NEW r, Begins(t, r), r.dead = {} \/ Deletes(r), TypeInv'
  PROVE  BareInv'
<1>1. txn' = [txn EXCEPT ![t] = r]
      /\ UNCHANGED <<row, live, parent, younger_siblings, home, live_dictionary>>
  BY DEF Begins, languages, dictionaries
<1>2. ASSUME NEW s \in Txn PROVE (txn[s] = Idle \/ txn[s].dead = {} \/ Deletes(txn[s]))'
  <2>1. PICK q : q = txn'[s] /\ (q = Idle \/ q.dead = {} \/ Deletes(q))
    BY <1>1 DEF BareInv, TypeInv
  <2>2. Deletes(q) => Deletes(q)'
    BY <1>1, StillDeletes
  <2> QED
    BY <2>1, <2>2 DEF Idle
<1> QED
  BY <1>2 DEF BareInv

LEMMA BareStep ==
  ASSUME \A s, t \in Txn : s = t
  PROVE  BareInv /\ [Next]_vars => BareInv'
<1> SUFFICES ASSUME BareInv, [Next]_vars PROVE BareInv'
  OBVIOUS
<1>1. TypeInv'
  BY TypeStep DEF BareInv
<1>2. CASE UNCHANGED vars
  <2>1. UNCHANGED <<row, live, parent, younger_siblings, home, live_dictionary, txn>>
    BY <1>2 DEF vars
  <2>2. ASSUME NEW s \in Txn PROVE (txn[s] = Idle \/ txn[s].dead = {} \/ Deletes(txn[s]))'
    <3>1. PICK q : q = txn'[s] /\ (q = Idle \/ q.dead = {} \/ Deletes(q))
      BY <2>1 DEF BareInv
    <3>2. Deletes(q) => Deletes(q)'
      BY <2>1, StillDeletes
    <3> QED
      BY <3>1, <3>2 DEF Idle
  <2> QED
    BY <1>1, <2>2 DEF BareInv
<1>3. ASSUME NEW t \in Txn, Commit(t) PROVE BareInv'
  <2>1. \A s \in Txn : txn'[s] = Idle
    BY <1>3 DEF Commit, BareInv, TypeInv
  <2> QED
    BY <1>1, <2>1 DEF BareInv, Idle
<1>4. ASSUME NEW t \in Txn, NEW l \in Language, NEW p \in Parent, create_dblanguage(t, l, p)
      PROVE  BareInv'
  <2>1. PICK list : Begins(t, [Nothing EXCEPT !.new = {l}, !.parents = [x \in {l} |-> p],
                                              !.lists = [x \in {l} |-> list]])
    BY <1>4 DEF create_dblanguage
  <2>2. [Nothing EXCEPT !.new = {l}, !.parents = [x \in {l} |-> p],
                        !.lists = [x \in {l} |-> list]].dead = {}
    BY DEF Nothing
  <2> QED
    BY <1>1, <2>1, <2>2, BareBegun
<1>5. ASSUME NEW t \in Txn, NEW l \in Language, NEW p \in Parent, NEW m \in Parent,
             move_language(t, l, p, m)
      PROVE  BareInv'
  <2> DEFINE r == [Nothing EXCEPT !.parents = [x \in {l} |-> p], !.lists = MovedLists(l, p, m)]
  <2>1. Begins(t, r)
    BY <1>5 DEF move_language, MovedLists
  <2>2. r.dead = {}
    BY DEF Nothing
  <2> HIDE DEF r
  <2> QED
    BY <1>1, <2>1, <2>2, BareBegun
<1>6. ASSUME NEW t \in Txn, NEW l \in Language, DeleteLanguage(t, l) PROVE BareInv'
  <2> DEFINE r == [Nothing EXCEPT !.dead = {l}, !.lists = [x \in Leaving(l) |-> Left(l)[x]]]
  <2>1. Begins(t, r)
    BY <1>6 DEF DeleteLanguage
  <2>2. /\ Writes(r, {}, {l}, None, [x \in Leaving(l) |-> Left(l)[x]])
        /\ r.homes = None /\ r.marks = None
    BY DEF Writes, Nothing
  <2>3. /\ l \in live /\ Child(l) = {}
        /\ \A d \in Dictionary : ~(live_dictionary[d] /\ home[d] = l)
    BY <1>6 DEF DeleteLanguage
  <2> HIDE DEF r
  <2>4. Deletes(r)
    BY <2>2, <2>3 DEF Deletes
  <2> QED
    BY <1>1, <2>1, <2>4, BareBegun
<1>7. ASSUME NEW t \in Txn, NEW d \in Dictionary, NEW l \in Language,
             create_dbdictionary(t, d, l) \/ UpdateDictionary(t, d, l)
      PROVE  BareInv'
  <2> DEFINE r == [Nothing EXCEPT !.homes = [x \in {d} |-> l], !.marks = [x \in {d} |-> TRUE]]
             u == [Nothing EXCEPT !.homes = [x \in {d} |-> l]]
  <2>1. Begins(t, r) \/ Begins(t, u)
    BY <1>7 DEF create_dbdictionary, UpdateDictionary
  <2>2. r.dead = {} /\ u.dead = {}
    BY DEF Nothing
  <2> HIDE DEF r, u
  <2> QED
    BY <1>1, <2>1, <2>2, BareBegun
<1>8. ASSUME NEW t \in Txn, NEW d \in Dictionary,
             DeleteDictionary(t, d) \/ UndeleteDictionary(t, d)
      PROVE  BareInv'
  <2> DEFINE r == [Nothing EXCEPT !.marks = [x \in {d} |-> FALSE]]
             u == [Nothing EXCEPT !.marks = [x \in {d} |-> TRUE]]
  <2>1. Begins(t, r) \/ Begins(t, u)
    BY <1>8 DEF DeleteDictionary, UndeleteDictionary
  <2>2. r.dead = {} /\ u.dead = {}
    BY DEF Nothing
  <2> HIDE DEF r, u
  <2> QED
    BY <1>1, <2>1, <2>2, BareBegun
<1> QED
  BY <1>2, <1>3, <1>4, <1>5, <1>6, <1>7, <1>8 DEF Next

(***************************************************************************)
(* A commit that deletes a language leaves nothing below it: DeleteLanguage*)
(* has looked at its children and its dictionaries, and when transactions  *)
(* do not overlap they are still the same.                                 *)
(***************************************************************************)
THEOREM SerialDeletedBare ==
  ASSUME \A s, t \in Txn : s = t
  PROVE  Spec => DeletedBare
<1> DEFINE Bare == \A l \in live \ live' :
              /\ \A m \in live' : parent'[m] # l
              /\ \A d \in Dictionary : live_dictionary'[d] => home'[d] # l
<1>1. Init => BareInv
  BY TypeInit DEF BareInv, Init
<1>2. BareInv /\ [Next]_vars => BareInv'
  BY BareStep
<1>3. BareInv /\ [Next]_vars => [Bare]_vars
  <2> SUFFICES ASSUME BareInv, Next PROVE Bare
    OBVIOUS
  <2>1. ASSUME NEW t \in Txn, Commit(t) PROVE Bare
    <3>1. txn[t].dead = {} \/ Deletes(txn[t])
      BY <2>1 DEF BareInv, Commit, Idle
    <3>2. CASE Deletes(txn[t])
      <4>1. PICK l \in Language :
               /\ l \in live /\ Child(l) = {}
               /\ \A d \in Dictionary : ~(live_dictionary[d] /\ home[d] = l)
               /\ txn[t].new = {} /\ txn[t].dead = {l} /\ txn[t].parents = None
               /\ txn[t].homes = None /\ txn[t].marks = None
        BY <3>2 DEF Deletes, Writes
      <4>2. /\ live' = live \ {l} /\ parent' = parent /\ home' = home
            /\ live_dictionary' = live_dictionary
        BY <2>1, <4>1 DEF Commit, Changed, None, BareInv, TypeInv, TypeOK
      <4> QED
        BY <4>1, <4>2 DEF Child
    <3>3. CASE txn[t].dead = {}
      BY <2>1, <3>3 DEF Commit
    <3> QED
      BY <3>1, <3>2, <3>3
  <2>2. ASSUME NEW t \in Txn, NEW r, Begins(t, r) PROVE Bare
    BY <2>2 DEF Begins, languages
  <2> QED
    BY <2>1, <2>2 DEF Next, create_dblanguage, move_language, DeleteLanguage,
       create_dbdictionary, UpdateDictionary, DeleteDictionary, UndeleteDictionary
<1> QED
  BY <1>1, <1>2, <1>3, PTL DEF Spec, DeletedBare

-----------------------------------------------------------------------------
(* 'cannot cycle parent-child in tree': the invariant follows the parents an open          *)
(* transaction is about to leave, not only those of the table.  They are acyclic because a *)
(* language is put below one that it is not above.                                         *)

(* The parents after a transaction that writes r. *)
ParentsAfter(r) == Changed(parent, r.parents)

OpenInv(r) ==
    /\ r.new \in SUBSET Language
    /\ ParentsAfter(r) \in [Language -> row \cup r.new \cup {Top}]
    /\ \A l \in Language \ (row \cup r.new) : ParentsAfter(r)[l] = Top
    /\ Acyclic(ParentsAfter(r))

TreeInv ==
    /\ row \in SUBSET Language /\ live \in SUBSET row
    /\ parent \in [Language -> row \cup {Top}]
    /\ \A l \in Language \ row : parent[l] = Top
    /\ NoCycle
    /\ txn = [t \in Txn |-> txn[t]]
    /\ \A t \in Txn : txn[t] = Idle \/ OpenInv(txn[t])

-----------------------------------------------------------------------------
(* Putting a language below one that it is not above makes no cycle. *)
LEMMA MoveAcyclic ==
  ASSUME NEW f \in [Language -> Parent], NEW g \in [Language -> Parent], Acyclic(f),
         NEW l \in Language, NEW p \in Parent,
         g = [f EXCEPT ![l] = p],
         NEW A \in SUBSET Language, p \in A \cup {Top}, \A x \in A : f[x] \in A \cup {Top},
         l \notin A
  PROVE  Acyclic(g)
<1> SUFFICES ASSUME NEW S \in SUBSET Language, S # {}, \A x \in S : g[x] \in S PROVE FALSE
  BY DEF Acyclic
<1>1. \A x \in S : x # l => f[x] = g[x]
  OBVIOUS
<1>2. Top \notin S
  BY TreeAssumption
<1>3. CASE l \notin S
  BY <1>1, <1>3 DEF Acyclic
<1>4. CASE l \in S
  <2>1. p \in S \cap A
    BY <1>2, <1>4
  <2>2. ASSUME NEW x \in S \cap A PROVE f[x] \in S \cap A
    <3>1. f[x] = g[x] /\ f[x] \in S
      BY <1>1
    <3> QED
      BY <1>2, <3>1
  <2> QED
    BY <2>1, <2>2 DEF Acyclic
<1> QED
  BY <1>3, <1>4

(* So does a new language, which nothing is below yet. *)
LEMMA NewAcyclic ==
  ASSUME NEW f \in [Language -> Parent], Acyclic(f), NEW l \in Language,
         \A x \in Language : f[x] # l, NEW p \in Parent, p # l
  PROVE  Acyclic([f EXCEPT ![l] = p])
<1> DEFINE A == Language \ {l}
<1>1. p \in A \cup {Top} /\ \A x \in A : f[x] \in A \cup {Top}
  BY DEF Parent
<1>2. A \in SUBSET Language /\ l \notin A
  OBVIOUS
<1> DEFINE g == [f EXCEPT ![l] = p]
<1>3. g \in [Language -> Parent] /\ g = [f EXCEPT ![l] = p]
  OBVIOUS
<1> HIDE DEF A, g
<1>4. Acyclic(g)
  BY <1>1, <1>2, <1>3, MoveAcyclic
<1> QED
  BY <1>4 DEF g

-----------------------------------------------------------------------------
LEMMA NothingKept ==
  ASSUME TreeInv, NEW r, r.parents = None, r.new = {}
  PROVE  OpenInv(r)
<1>1. ParentsAfter(r) = parent
  BY DEF ParentsAfter, Changed, None, TreeInv
<1> QED
  BY <1>1 DEF OpenInv, TreeInv, NoCycle

LEMMA TreeBegun ==
  ASSUME TreeInv, NEW t \in Txn, NEW r, OpenInv(r), Begins(t, r)
  PROVE  TreeInv'
<1>1. txn' = [txn EXCEPT ![t] = r] /\ UNCHANGED <<row, live, parent>>
  BY DEF Begins, languages
<1>2. \A s \in Txn : txn'[s] = Idle \/ OpenInv(txn'[s])
  BY <1>1 DEF TreeInv
<1>3. \A s \in Txn : OpenInv(txn'[s]) => OpenInv(txn[s])'
  BY <1>1 DEF OpenInv, ParentsAfter
<1> QED
  BY <1>1, <1>2, <1>3 DEF TreeInv, NoCycle

LEMMA TreeCreated ==
  ASSUME TreeInv, NEW t \in Txn, NEW l \in Language, NEW p \in Parent,
         create_dblanguage(t, l, p)
  PROVE  TreeInv'
<1>1. PICK list : Begins(t, [Nothing EXCEPT !.new = {l}, !.parents = [x \in {l} |-> p],
                                            !.lists = [x \in {l} |-> list]])
  BY DEF create_dblanguage
<1> DEFINE r == [Nothing EXCEPT !.new = {l}, !.parents = [x \in {l} |-> p],
                                !.lists = [x \in {l} |-> list]]
<1>2. r.new = {l} /\ r.parents = [x \in {l} |-> p]
  BY DEF Nothing
<1>3. l \notin row /\ p \in row \cup {Top} /\ p # l
  BY TreeAssumption DEF create_dblanguage, TreeInv
<1>4. ParentsAfter(r) = [parent EXCEPT ![l] = p]
  BY <1>2 DEF ParentsAfter, Changed, TreeInv
<1> HIDE DEF r
<1>5. parent \in [Language -> Parent] /\ Acyclic(parent) /\ \A x \in Language : parent[x] # l
  BY <1>3, TreeAssumption DEF TreeInv, NoCycle, Parent
<1>6a. Acyclic([parent EXCEPT ![l] = p])
  BY <1>3, <1>5, NewAcyclic
<1>6. Acyclic(ParentsAfter(r))
  BY <1>4, <1>6a
<1>7. OpenInv(r)
  BY <1>2, <1>3, <1>4, <1>6 DEF OpenInv, TreeInv
<1> QED
  BY <1>1, <1>7, TreeBegun DEF r

LEMMA TreeMoved ==
  ASSUME TreeInv, NEW t \in Txn, NEW l \in Language, NEW p \in Parent, NEW m \in Parent,
         move_language(t, l, p, m)
  PROVE  TreeInv'
<1> DEFINE lists == [x \in {l} \cup Leaving(l) \cup After(l, p, m) |->
              IF x = l THEN IF m = Top THEN <<>> ELSE Append(Left(l)[m], m)
              ELSE IF x \notin After(l, p, m) THEN Left(l)[x]
              ELSE IF m = Top THEN <<l>> \o Left(l)[x] ELSE InsertedAfter(Left(l)[x], l, m)]
           r == [Nothing EXCEPT !.parents = [x \in {l} |-> p], !.lists = lists]
<1>1. Begins(t, r)
  BY DEF move_language
<1>2. r.new = {} /\ r.parents = [x \in {l} |-> p]
  BY DEF Nothing
<1>3. l \in row /\ p \in row \cup {Top} /\ l \notin Above(p)
  BY DEF move_language, TreeInv, NoCycleAbove
<1>4. ParentsAfter(r) = [parent EXCEPT ![l] = p]
  BY <1>2 DEF ParentsAfter, Changed, TreeInv
<1> HIDE DEF r
<1>5. PICK A \in SUBSET Language :
         l \notin A /\ p \in A \cup {Top} /\ \A x \in A : parent[x] \in A \cup {Top}
  BY <1>3 DEF Above
<1>6. parent \in [Language -> Parent] /\ Acyclic(parent)
  BY DEF TreeInv, NoCycle, Parent
<1>7. [parent EXCEPT ![l] = p] \in [Language -> Parent]
  BY <1>6
<1>8. Acyclic(ParentsAfter(r))
  BY <1>4, <1>5, <1>6, <1>7, MoveAcyclic
<1>9. OpenInv(r)
  BY <1>2, <1>3, <1>4, <1>8 DEF OpenInv, TreeInv
<1> QED
  BY <1>1, <1>9, TreeBegun

LEMMA TreeCommitted ==
  ASSUME \A s, t \in Txn : s = t, TreeInv, NEW t \in Txn, Commit(t)
  PROVE  TreeInv'
<1>1. OpenInv(txn[t])
  BY DEF TreeInv, Commit, Idle
<1>2. /\ row' = row \cup txn[t].new /\ live' = (live \cup txn[t].new) \ txn[t].dead
      /\ parent' = ParentsAfter(txn[t]) /\ txn' = [txn EXCEPT ![t] = Idle]
  BY DEF Commit, ParentsAfter
<1>3. \A s \in Txn : txn'[s] = Idle
  BY <1>2 DEF TreeInv
<1>4. NoCycle'
  BY <1>1, <1>2 DEF OpenInv, NoCycle, Acyclic
<1>5. /\ row' \in SUBSET Language /\ live' \in SUBSET row'
      /\ parent' \in [Language -> row' \cup {Top}]
      /\ \A l \in Language \ row' : parent'[l] = Top
  BY <1>1, <1>2 DEF OpenInv, TreeInv
<1> QED
  BY <1>2, <1>3, <1>4, <1>5 DEF TreeInv

LEMMA TreeInit == Init => TreeInv
<1> SUFFICES ASSUME Init PROVE TreeInv
  OBVIOUS
<1>1. parent = [l \in Language |-> Top] /\ row = {} /\ live = {}
  BY DEF Init
<1>2. NoCycle
  BY <1>1, TreeAssumption DEF NoCycle, Acyclic
<1>3. txn = [t \in Txn |-> Idle]
  BY DEF Init
<1> QED
  BY <1>1, <1>2, <1>3 DEF TreeInv

(***************************************************************************)
(* However languages are created, moved and deleted by transactions that   *)
(* do not overlap, each hangs from the top: the walk up from the new       *)
(* parent that MoveLanguage makes is enough to keep the tree a tree.       *)
(***************************************************************************)
THEOREM SerialAcyclic ==
  ASSUME \A s, t \in Txn : s = t
  PROVE  Spec => []NoCycle
<1>1. TreeInv /\ [Next]_vars => TreeInv'
  <2> SUFFICES ASSUME TreeInv, [Next]_vars PROVE TreeInv'
    OBVIOUS
  <2>1. CASE UNCHANGED vars
    BY <2>1 DEF vars, TreeInv, OpenInv, ParentsAfter, NoCycle
  <2>2. ASSUME NEW t \in Txn, NEW l \in Language, DeleteLanguage(t, l) PROVE TreeInv'
    <3> DEFINE r == [Nothing EXCEPT !.dead = {l}, !.lists = [x \in Leaving(l) |-> Left(l)[x]]]
    <3>1. Begins(t, r)
      BY <2>2 DEF DeleteLanguage
    <3>2. r.parents = None /\ r.new = {}
      BY DEF Nothing
    <3> HIDE DEF r
    <3> QED
      BY <3>1, <3>2, NothingKept, TreeBegun
  <2>3. ASSUME NEW t \in Txn, NEW r, Begins(t, r), r.parents = None, r.new = {} PROVE TreeInv'
    BY <2>3, NothingKept, TreeBegun
  <2>4. ASSUME NEW t \in Txn, NEW d \in Dictionary, NEW l \in Language,
               create_dbdictionary(t, d, l) \/ UpdateDictionary(t, d, l)
        PROVE  TreeInv'
    <3> DEFINE r == [Nothing EXCEPT !.homes = [x \in {d} |-> l],
                                    !.marks = [x \in {d} |-> TRUE]]
               u == [Nothing EXCEPT !.homes = [x \in {d} |-> l]]
    <3>1. Begins(t, r) \/ Begins(t, u)
      BY <2>4 DEF create_dbdictionary, UpdateDictionary
    <3>2. r.parents = None /\ r.new = {} /\ u.parents = None /\ u.new = {}
      BY DEF Nothing
    <3> HIDE DEF r, u
    <3> QED
      BY <2>3, <3>1, <3>2
  <2>5. ASSUME NEW t \in Txn, NEW d \in Dictionary,
               DeleteDictionary(t, d) \/ UndeleteDictionary(t, d)
        PROVE  TreeInv'
    <3> DEFINE r == [Nothing EXCEPT !.marks = [x \in {d} |-> FALSE]]
               u == [Nothing EXCEPT !.marks = [x \in {d} |-> TRUE]]
    <3>1. Begins(t, r) \/ Begins(t, u)
      BY <2>5 DEF DeleteDictionary, UndeleteDictionary
    <3>2. r.parents = None /\ r.new = {} /\ u.parents = None /\ u.new = {}
      BY DEF Nothing
    <3> HIDE DEF r, u
    <3> QED
      BY <2>3, <3>1, <3>2
  <2> QED
    BY <2>1, <2>2, <2>4, <2>5, TreeCreated, TreeMoved, TreeCommitted DEF Next
<1>2. TreeInv => NoCycle
  BY DEF TreeInv
<1> QED
  BY TreeInit, <1>1, <1>2, PTL DEF Spec
=============================================================================
