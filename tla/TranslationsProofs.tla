------------------------- MODULE TranslationsProofs -------------------------
(* What holds of Translations for every set of objects, gists, atoms and locales. *)
EXTENDS Translations, TLAPS

RowsTyped ==
    /\ gist \in [Gist -> GistMark]
    /\ atom_id_list \in [Gist -> SUBSET Atom]
    /\ atom \in [Atom -> AtomRow \cup {Missing}]
    /\ translation \in [Gist -> [Locale -> Content \cup {Missing}]]
    /\ translations \in [Gist -> SUBSET (Locale \X Content)]

(***************************************************************************)
(* Both gist operations of schema/gql_holders.py keep the types.           *)
(***************************************************************************)
LEMMA GistDeletionTyped ==
    ASSUME RowsTyped, NEW g \in Gist, NEW mark \in GistMark, delete_gist_with_atoms(g, mark)
    PROVE  RowsTyped'
<1>1. gist' \in [Gist -> GistMark]
  BY DEF delete_gist_with_atoms, RowsTyped
<1>2. atom_id_list' \in [Gist -> SUBSET Atom]
  BY DEF delete_gist_with_atoms, LiveAtoms, AtomsOf, RowsTyped
<1>3. atom' \in [Atom -> AtomRow \cup {Missing}]
  BY DEF delete_gist_with_atoms, MarkAtoms, LiveAtoms, AtomsOf, AtomRow, AtomMark, RowsTyped
<1>4. translation' \in [Gist -> [Locale -> Content \cup {Missing}]]
  BY DEF delete_gist_with_atoms, RemGistKeys, RowsTyped
<1>5. translations' \in [Gist -> SUBSET (Locale \X Content)]
  BY DEF delete_gist_with_atoms, RemGistKeys, RowsTyped
<1> QED BY <1>1, <1>2, <1>3, <1>4, <1>5 DEF RowsTyped

LEMMA GistRestorationTyped ==
    ASSUME RowsTyped, NEW g \in Gist, undelete_gist_with_atoms(g),
           \A a \in atom_id_list[g] : atom[a] # Missing
    PROVE  RowsTyped'
<1>1. gist' \in [Gist -> GistMark]
  BY DEF undelete_gist_with_atoms, RowsTyped, GistMark
<1>2. atom_id_list' \in [Gist -> SUBSET Atom]
  BY DEF undelete_gist_with_atoms, RowsTyped
<1>3. atom' \in [Atom -> AtomRow \cup {Missing}]
  BY DEF undelete_gist_with_atoms, MarkAtoms, AtomRow, AtomMark, RowsTyped
<1> QED BY <1>1, <1>2, <1>3 DEF RowsTyped, undelete_gist_with_atoms

LEMMA KeysTyped ==
    ASSUME RowsTyped, NEW a \in Atom, atom[a] # Missing, RemKeys(a)
    PROVE  /\ translation' \in [Gist -> [Locale -> Content \cup {Missing}]]
           /\ translations' \in [Gist -> SUBSET (Locale \X Content)]
<1>1. atom[a].gist \in Gist /\ atom[a].locale \in Locale
  BY DEF RowsTyped, AtomRow
<1> QED BY <1>1 DEF RemKeys, RowsTyped

(* Which requests write texts stays as it was. *)
LEMMA AnswerKept == [Next]_vars => by_object' = by_object
  BY DEF Next, vars, db, get_translation, get_translations, CreateTranslationAtom,
         UpdateTranslationAtom, UpdateAtomOfLocale, UpdateAtomById, create_gists_with_atoms,
         DeleteTranslationAtom,
         DeleteTranslationGist, UndeleteTranslationGist, del_object, undel_object, Aborted

(* The rows after a request that creates an object with its texts. *)
LEMMA NewRows ==
    ASSUME NEW g \in Gist, NEW s \in SUBSET Atom, NEW texts \in [s -> Locale \X Content],
           create_gists_with_atoms(g, texts)
    PROVE  /\ DOMAIN atom' = Atom
           /\ atom' = [a \in Atom |-> atom'[a]]
           /\ \A a \in s : /\ atom[a] = Missing /\ atom'[a] # Missing /\ atom'[a] \in AtomRow
                           /\ atom'[a].gist = g /\ atom'[a].mark = "live"
           /\ \A a \in Atom \ s : atom'[a] = atom[a]
<1>1. atom' = [a \in Atom |->
          IF a \in s
          THEN [gist |-> g, locale |-> texts[a][1], content |-> texts[a][2], mark |-> "live"]
          ELSE atom[a]]
  BY DEF create_gists_with_atoms
<1>2. \A a \in s : texts[a][1] \in Locale /\ texts[a][2] \in Content
  OBVIOUS
<1>3. \A a \in s : /\ atom'[a] \in AtomRow /\ atom'[a].gist = g /\ atom'[a].mark = "live"
                   /\ atom[a] = Missing
  BY <1>1, <1>2 DEF create_gists_with_atoms, AtomRow, AtomMark
<1> QED BY <1>1, <1>3, MissingAssumption

TypedInv == TypeOK /\ AtomsFollowGist

(***************************************************************************)
(* Requests and readers keep the types of the rows and of the cache.       *)
(***************************************************************************)
LEMMA StepTyped ==
    ASSUME TypedInv, [Next]_vars
    PROVE  TypeOK'
<1>0. RowsTyped /\ deleted \subseteq Object /\ by_object \in BOOLEAN /\ AtomsFollowGist
  BY DEF TypedInv, TypeOK, RowsTyped
<1>t. \A g \in Gist : Texts(g) \subseteq Locale \X Content
  BY <1>0 DEF RowsTyped, Texts, LiveAtoms, AtomsOf, AtomRow
<1>l. \A g \in Gist : gist[g] # "live" => \A a \in atom_id_list[g] : atom[a] # Missing
  BY <1>0 DEF AtomsFollowGist, AtomsOf
<1> SUFFICES RowsTyped' /\ deleted' \subseteq Object
  BY <1>0, AnswerKept DEF TypeOK, RowsTyped
<1>1. ASSUME NEW g \in Gist, NEW l \in Locale, get_translation(g, l)
      PROVE  RowsTyped' /\ deleted' \subseteq Object
  <2>1. PICK p \in Texts(g) : translation' = [translation EXCEPT ![g][p[1]] = p[2]]
    BY <1>1 DEF get_translation
  <2>2. p[1] \in Locale /\ p[2] \in Content
    BY <2>1, <1>t
  <2>3. translation' \in [Gist -> [Locale -> Content \cup {Missing}]]
    BY <2>1, <2>2, <1>0 DEF RowsTyped
  <2> QED BY <1>0, <1>1, <2>3 DEF get_translation, RowsTyped, db
<1>2. ASSUME NEW g \in Gist, get_translations(g)
      PROVE  RowsTyped' /\ deleted' \subseteq Object
  <2>1. PICK s \in SUBSET Texts(g) : translations' = [translations EXCEPT ![g] = s]
    BY <1>2 DEF get_translations
  <2>2. s \subseteq Locale \X Content
    BY <2>1, <1>t
  <2>3. translations' \in [Gist -> SUBSET (Locale \X Content)]
    BY <2>1, <2>2, <1>0 DEF RowsTyped
  <2> QED BY <1>0, <1>2, <2>3 DEF get_translations, RowsTyped, db
<1>3. ASSUME NEW a \in Atom, NEW g \in Gist, NEW l \in Locale, NEW c \in Content,
             CreateTranslationAtom(a, g, l, c)
      PROVE  RowsTyped' /\ deleted' \subseteq Object
  BY <1>0, <1>3 DEF CreateTranslationAtom, RowsTyped, AtomRow, AtomMark
<1>4. ASSUME NEW a \in Atom, NEW l \in Locale, NEW c \in Content, UpdateTranslationAtom(a, l, c)
      PROVE  RowsTyped' /\ deleted' \subseteq Object
  <2>1. atom' \in [Atom -> AtomRow \cup {Missing}]
    BY <1>0, <1>4 DEF UpdateTranslationAtom, RowsTyped, AtomRow
  <2> QED BY <1>0, <1>4, <2>1, KeysTyped DEF UpdateTranslationAtom, RowsTyped
<1>4a. ASSUME NEW g \in Gist, NEW a \in Atom, NEW l \in Locale, NEW c \in Content,
              UpdateAtomById(g, a, l, c)
       PROVE  RowsTyped' /\ deleted' \subseteq Object
  <2>1. atom' \in [Atom -> AtomRow \cup {Missing}]
    <3>1. CASE atom[a] # Missing
      BY <1>0, <1>4a, <3>1 DEF UpdateAtomById, RowsTyped, AtomRow
    <3>2. CASE atom[a] = Missing
      <4>1. [gist |-> g, locale |-> l, content |-> c, mark |-> "live"] \in AtomRow
        BY <1>4a DEF AtomRow, AtomMark
      <4>2. atom' = [atom EXCEPT ![a] =
                       [gist |-> g, locale |-> l, content |-> c, mark |-> "live"]]
        BY <1>4a, <3>2 DEF UpdateAtomById
      <4> QED BY <1>0, <4>1, <4>2 DEF RowsTyped
    <3> QED BY <3>1, <3>2
  <2> QED BY <1>0, <1>4a, <2>1, KeysTyped DEF UpdateAtomById, RowsTyped
<1>4b. ASSUME NEW g \in Gist, NEW l \in Locale, NEW c \in Content, UpdateAtomOfLocale(g, l, c)
       PROVE  RowsTyped' /\ deleted' \subseteq Object
  <2>0. UNCHANGED <<deleted, gist, atom_id_list>>
    BY <1>4b DEF UpdateAtomOfLocale
  <2>1. ASSUME NEW a \in AtomsOf(g), RemKeys(a), atom' = [atom EXCEPT ![a].content = c]
        PROVE  RowsTyped' /\ deleted' \subseteq Object
    <3>1. a \in Atom /\ atom[a] # Missing
      BY DEF AtomsOf
    <3>2. atom' \in [Atom -> AtomRow \cup {Missing}]
      BY <1>0, <2>1, <3>1 DEF RowsTyped, AtomRow
    <3> QED BY <1>0, <2>0, <2>1, <3>1, <3>2, KeysTyped DEF RowsTyped
  <2>2. ASSUME NEW a \in Atom, UNCHANGED <<translation, translations>>,
               atom' = [atom EXCEPT ![a] =
                          [gist |-> g, locale |-> l, content |-> c, mark |-> "live"]]
        PROVE  RowsTyped' /\ deleted' \subseteq Object
    BY <1>0, <2>0, <2>2 DEF RowsTyped, AtomRow, AtomMark
  <2> QED BY <1>4b, <2>1, <2>2 DEF UpdateAtomOfLocale
<1>4c. ASSUME NEW g \in Gist, NEW s \in SUBSET Atom, NEW texts \in [s -> Locale \X Content],
              create_gists_with_atoms(g, texts)
       PROVE  RowsTyped' /\ deleted' \subseteq Object
  <2>1. atom' \in [Atom -> AtomRow \cup {Missing}]
    <3>1. /\ atom' = [a \in Atom |-> atom'[a]]
          /\ \A a \in Atom \ s : atom'[a] = atom[a]
          /\ \A a \in s : atom'[a] \in AtomRow
      BY <1>4c, NewRows
    <3> QED BY <1>0, <3>1 DEF RowsTyped
  <2> QED BY <1>0, <1>4c, <2>1 DEF create_gists_with_atoms, RowsTyped
<1>5. ASSUME NEW a \in Atom, DeleteTranslationAtom(a)
      PROVE  RowsTyped' /\ deleted' \subseteq Object
  <2>1. atom' \in [Atom -> AtomRow \cup {Missing}]
    BY <1>0, <1>5 DEF DeleteTranslationAtom, RowsTyped, AtomRow, AtomMark
  <2> QED BY <1>0, <1>5, <2>1, KeysTyped DEF DeleteTranslationAtom, RowsTyped
<1>6. ASSUME NEW g \in Gist, DeleteTranslationGist(g)
      PROVE  RowsTyped' /\ deleted' \subseteq Object
  BY <1>0, <1>6, GistDeletionTyped DEF DeleteTranslationGist, GistMark
<1>7. ASSUME NEW g \in Gist, UndeleteTranslationGist(g)
      PROVE  RowsTyped' /\ deleted' \subseteq Object
  BY <1>0, <1>l, <1>7, GistRestorationTyped DEF UndeleteTranslationGist
<1>8. ASSUME NEW o \in Object, del_object(o)
      PROVE  RowsTyped' /\ deleted' \subseteq Object
  <2>1. deleted' \subseteq Object
    BY <1>0, <1>8 DEF del_object
  <2>2. CASE gist[GistOf[o]] = "live" /\ GistOf[o] \notin Common
    <3>1. GistOf[o] \in Gist /\ "with_object" \in GistMark
      BY GistAssumption DEF GistMark
    <3>2. delete_gist_with_atoms(GistOf[o], "with_object")
      BY <1>8, <2>2 DEF del_object
    <3> QED BY <1>0, <2>1, <3>1, <3>2, GistDeletionTyped
  <2>3. CASE ~(gist[GistOf[o]] = "live" /\ GistOf[o] \notin Common)
    BY <1>0, <1>8, <2>1, <2>3 DEF del_object, RowsTyped
  <2> QED BY <2>2, <2>3
<1>9. ASSUME NEW o \in Object, undel_object(o)
      PROVE  RowsTyped' /\ deleted' \subseteq Object
  <2>1. deleted' \subseteq Object
    BY <1>0, <1>9 DEF undel_object
  <2>2. CASE gist[GistOf[o]] # "live" /\ GistOf[o] \notin Common
    <3>1. GistOf[o] \in Gist
      BY GistAssumption
    <3>2. undelete_gist_with_atoms(GistOf[o])
      BY <1>9, <2>2 DEF undel_object
    <3> QED BY <1>0, <1>l, <2>1, <2>2, <3>1, <3>2, GistRestorationTyped
  <2>3. CASE ~(gist[GistOf[o]] # "live" /\ GistOf[o] \notin Common)
    BY <1>0, <1>9, <2>1, <2>3 DEF undel_object, RowsTyped
  <2> QED BY <2>2, <2>3
<1>10. ASSUME Aborted
       PROVE  RowsTyped' /\ deleted' \subseteq Object
  <2>1. UNCHANGED db
    BY <1>10 DEF Aborted
  <2>2. /\ translation' \in [Gist -> [Locale -> Content \cup {Missing}]]
        /\ translations' \in [Gist -> SUBSET (Locale \X Content)]
    <3>1. ASSUME NEW g \in Gist, translations' = [translations EXCEPT ![g] = {}],
                 UNCHANGED translation
          PROVE  <2>2!1 /\ <2>2!2
      BY <1>0, <3>1 DEF RowsTyped
    <3>2. ASSUME NEW g \in Gist, RemGistKeys(g)
          PROVE  <2>2!1 /\ <2>2!2
      BY <1>0, <3>2 DEF RowsTyped, RemGistKeys
    <3>3. ASSUME NEW a \in Atom, atom[a] # Missing, RemKeys(a)
          PROVE  <2>2!1 /\ <2>2!2
      BY <1>0, <3>3, KeysTyped
    <3> QED BY <1>10, <3>1, <3>2, <3>3 DEF Aborted
  <2> QED BY <1>0, <2>1, <2>2 DEF RowsTyped, db
<1>11. CASE UNCHANGED vars
  BY <1>0, <1>11 DEF RowsTyped, vars
<1> QED
  BY <1>1, <1>2, <1>3, <1>4, <1>4a, <1>4b, <1>4c, <1>5, <1>6, <1>7, <1>8, <1>9, <1>10, <1>11,
     GistAssumption
  DEF Next

(* Marking atoms of a gist changes nothing of them but the mark. *)
LEMMA MarkedAtoms ==
    ASSUME RowsTyped, NEW g \in Gist, NEW s \in SUBSET AtomsOf(g), NEW mark \in AtomMark,
           MarkAtoms(s, mark)
    PROVE  /\ \A h \in Gist : AtomsOf(h)' = AtomsOf(h)
           /\ \A a \in AtomsOf(g) : /\ atom'[a].mark = IF a \in s THEN mark ELSE atom[a].mark
                                    /\ atom'[a].locale = atom[a].locale
                                    /\ atom'[a].content = atom[a].content
<1>1. \A a \in Atom : a \notin s => atom'[a] = atom[a]
  BY DEF MarkAtoms
<1>2. \A a \in s : a \in Atom /\ atom[a] \in AtomRow /\ atom[a].gist = g
  BY DEF AtomsOf, RowsTyped
<1>3. \A a \in s : /\ atom'[a] \in AtomRow /\ atom'[a].gist = g /\ atom'[a].mark = mark
                   /\ atom'[a].locale = atom[a].locale /\ atom'[a].content = atom[a].content
  BY <1>2 DEF MarkAtoms, AtomRow
<1>4. \A a \in s : atom[a] # Missing /\ atom'[a] # Missing
  BY <1>2, <1>3, MissingAssumption
<1> QED BY <1>1, <1>2, <1>3, <1>4 DEF AtomsOf

LEMMA OtherTexts ==
    ASSUME RowsTyped, NEW g \in Gist, NEW s \in SUBSET AtomsOf(g), NEW mark \in AtomMark,
           MarkAtoms(s, mark), NEW h \in Gist, h # g
    PROVE  Texts(h)' = Texts(h)
<1>1. AtomsOf(h)' = AtomsOf(h)
  BY MarkedAtoms
<1>2. \A a \in AtomsOf(h) : a \in Atom /\ a \notin s
  BY DEF AtomsOf
<1>3. \A a \in AtomsOf(h) : atom'[a] = atom[a]
  BY <1>2 DEF MarkAtoms
<1> QED BY <1>1, <1>3 DEF Texts, LiveAtoms

(***************************************************************************)
(* Deleting a live gist names its atoms in the message, restoring a gist   *)
(* restores them all.                                                      *)
(***************************************************************************)
LEMMA GistDeletionFollows ==
    ASSUME RowsTyped, AtomsFollowGist, NEW g \in Gist, gist[g] = "live",
           NEW mark \in GistMark, mark # "live", delete_gist_with_atoms(g, mark)
    PROVE  AtomsFollowGist'
<1>1. /\ gist' = [gist EXCEPT ![g] = mark]
      /\ atom_id_list' = [atom_id_list EXCEPT ![g] = LiveAtoms(g)]
      /\ MarkAtoms(LiveAtoms(g), "with_gist")
  BY DEF delete_gist_with_atoms
<1>2. LiveAtoms(g) \subseteq AtomsOf(g)
  BY DEF LiveAtoms
<1>3. \A h \in Gist : AtomsOf(h)' = AtomsOf(h)
  BY <1>1, <1>2, MarkedAtoms DEF AtomMark
<1>4. \A a \in AtomsOf(g) : atom'[a].mark = IF a \in LiveAtoms(g) THEN "with_gist" ELSE atom[a].mark
  BY <1>1, <1>2, MarkedAtoms DEF AtomMark
<1>5. \A a \in Atom \ AtomsOf(g) : atom'[a] = atom[a]
  BY <1>1, <1>2 DEF MarkAtoms
<1> SUFFICES ASSUME NEW h \in Gist
             PROVE  /\ gist'[h] = "live" => \A a \in AtomsOf(h)' : atom'[a].mark # "with_gist"
                    /\ gist'[h] # "live" =>
                          atom_id_list'[h] = {a \in AtomsOf(h)' : atom'[a].mark = "with_gist"}
  BY DEF AtomsFollowGist
<1>6. CASE h = g
  <2>1. gist'[h] = mark /\ atom_id_list'[h] = LiveAtoms(g)
    BY <1>1, <1>6 DEF RowsTyped
  <2>2. \A a \in AtomsOf(g) : atom[a].mark # "with_gist"
    BY DEF AtomsFollowGist
  <2>4. LiveAtoms(g) = {a \in AtomsOf(h)' : atom'[a].mark = "with_gist"}
    BY <1>2, <1>3, <1>4, <1>6, <2>2
  <2> QED BY <2>1, <2>4
<1>7. CASE h # g
  <2>1. gist'[h] = gist[h] /\ atom_id_list'[h] = atom_id_list[h]
    BY <1>1, <1>7 DEF RowsTyped
  <2>2. \A a \in AtomsOf(h) : a \in Atom \ AtomsOf(g)
    BY <1>7 DEF AtomsOf
  <2> QED BY <1>3, <1>5, <2>1, <2>2 DEF AtomsFollowGist
<1> QED BY <1>6, <1>7

LEMMA GistRestorationFollows ==
    ASSUME RowsTyped, AtomsFollowGist, NEW g \in Gist, gist[g] # "live",
           undelete_gist_with_atoms(g)
    PROVE  AtomsFollowGist'
<1>0. atom_id_list[g] = {a \in AtomsOf(g) : atom[a].mark = "with_gist"}
  BY DEF AtomsFollowGist
<1>1. /\ gist' = [gist EXCEPT ![g] = "live"]
      /\ atom_id_list' = [atom_id_list EXCEPT ![g] = {}]
      /\ MarkAtoms(atom_id_list[g], "live")
  BY DEF undelete_gist_with_atoms
<1>2. atom_id_list[g] \subseteq AtomsOf(g)
  BY <1>0
<1>3. \A h \in Gist : AtomsOf(h)' = AtomsOf(h)
  BY <1>1, <1>2, MarkedAtoms DEF AtomMark
<1>4. \A a \in AtomsOf(g) : atom'[a].mark = IF a \in atom_id_list[g] THEN "live" ELSE atom[a].mark
  BY <1>1, <1>2, MarkedAtoms DEF AtomMark
<1>5. \A a \in Atom \ AtomsOf(g) : atom'[a] = atom[a]
  BY <1>1, <1>2 DEF MarkAtoms
<1> SUFFICES ASSUME NEW h \in Gist
             PROVE  /\ gist'[h] = "live" => \A a \in AtomsOf(h)' : atom'[a].mark # "with_gist"
                    /\ gist'[h] # "live" =>
                          atom_id_list'[h] = {a \in AtomsOf(h)' : atom'[a].mark = "with_gist"}
  BY DEF AtomsFollowGist
<1>6. CASE h = g
  <2>1. gist'[h] = "live"
    BY <1>1, <1>6 DEF RowsTyped
  <2> QED BY <1>0, <1>3, <1>4, <1>6, <2>1
<1>7. CASE h # g
  <2>1. gist'[h] = gist[h] /\ atom_id_list'[h] = atom_id_list[h]
    BY <1>1, <1>7 DEF RowsTyped
  <2>2. \A a \in AtomsOf(h) : a \in Atom \ AtomsOf(g)
    BY <1>7 DEF AtomsOf
  <2> QED BY <1>3, <1>5, <2>1, <2>2 DEF AtomsFollowGist
<1> QED BY <1>6, <1>7

(* A new row is live; the mark and the gist of a row stay when its text changes. *)
LEMMA NewAtomFollows ==
    ASSUME RowsTyped, AtomsFollowGist, NEW a \in Atom, atom[a] = Missing,
           NEW g \in Gist, NEW l \in Locale, NEW c \in Content,
           atom' = [atom EXCEPT ![a] =
                      [gist |-> g, locale |-> l, content |-> c, mark |-> "live"]],
           UNCHANGED <<gist, atom_id_list>>
    PROVE  AtomsFollowGist'
<1>1. /\ atom'[a] = [gist |-> g, locale |-> l, content |-> c, mark |-> "live"]
      /\ \A b \in Atom : b # a => atom'[b] = atom[b]
  BY DEF RowsTyped
<1>2. atom'[a].gist = g /\ atom'[a].mark = "live"
  BY <1>1
<1>3. \A h \in Gist : {b \in AtomsOf(h)' : atom'[b].mark = "with_gist"}
                        = {b \in AtomsOf(h) : atom[b].mark = "with_gist"}
  BY <1>1, <1>2 DEF AtomsOf
<1> QED BY <1>3 DEF AtomsFollowGist

LEMMA TextChangeFollows ==
    ASSUME RowsTyped, AtomsFollowGist, NEW a \in Atom, atom[a] # Missing, atom'[a] # Missing,
           atom'[a].gist = atom[a].gist, atom'[a].mark = atom[a].mark,
           \A b \in Atom : b # a => atom'[b] = atom[b],
           UNCHANGED <<gist, atom_id_list>>
    PROVE  AtomsFollowGist'
<1>1. \A h \in Gist : AtomsOf(h)' = AtomsOf(h)
  BY DEF AtomsOf
<1>2. \A b \in Atom : atom'[b].mark = atom[b].mark
  OBVIOUS
<1> QED BY <1>1, <1>2 DEF AtomsFollowGist, AtomsOf

LEMMA StepFollows ==
    ASSUME TypedInv, [Next]_vars
    PROVE  AtomsFollowGist'
<1>0. RowsTyped /\ AtomsFollowGist
  BY DEF TypedInv, TypeOK, RowsTyped
<1>1. CASE UNCHANGED db
  BY <1>0, <1>1 DEF AtomsFollowGist, LiveAtoms, AtomsOf, db
<1>2. ASSUME NEW a \in Atom, NEW g \in Gist, NEW l \in Locale, NEW c \in Content,
             CreateTranslationAtom(a, g, l, c)
      PROVE  AtomsFollowGist'
  BY <1>0, <1>2, NewAtomFollows DEF CreateTranslationAtom
<1>3. ASSUME NEW a \in Atom, NEW l \in Locale, NEW c \in Content, UpdateTranslationAtom(a, l, c)
      PROVE  AtomsFollowGist'
  <2>1. /\ atom[a] \in AtomRow /\ atom' = [atom EXCEPT ![a].locale = l, ![a].content = c]
        /\ UNCHANGED <<gist, atom_id_list>>
    BY <1>0, <1>3 DEF UpdateTranslationAtom, RowsTyped
  <2>2. /\ atom'[a] \in AtomRow /\ atom'[a].gist = atom[a].gist /\ atom'[a].mark = atom[a].mark
        /\ \A b \in Atom : b # a => atom'[b] = atom[b]
    BY <1>0, <2>1 DEF RowsTyped, AtomRow
  <2> QED BY <1>0, <2>1, <2>2, MissingAssumption, TextChangeFollows
<1>3a. ASSUME NEW g \in Gist, NEW a \in Atom, NEW l \in Locale, NEW c \in Content,
              UpdateAtomById(g, a, l, c)
       PROVE  AtomsFollowGist'
  <2>0. UNCHANGED <<gist, atom_id_list>>
    BY <1>3a DEF UpdateAtomById
  <2>1. CASE atom[a] # Missing
    <3>1. /\ atom[a] \in AtomRow
          /\ \/ atom' = [atom EXCEPT ![a].content = c]
             \/ atom' = [atom EXCEPT ![a].locale = l]
      BY <1>0, <1>3a, <2>1 DEF UpdateAtomById, RowsTyped
    <3>2. /\ atom'[a] \in AtomRow /\ atom'[a].gist = atom[a].gist
          /\ atom'[a].mark = atom[a].mark
          /\ \A b \in Atom : b # a => atom'[b] = atom[b]
      BY <1>0, <3>1 DEF RowsTyped, AtomRow
    <3> QED BY <1>0, <2>0, <2>1, <3>2, MissingAssumption, TextChangeFollows
  <2>2. CASE atom[a] = Missing
    BY <1>0, <1>3a, <2>0, <2>2, NewAtomFollows DEF UpdateAtomById
  <2> QED BY <2>1, <2>2
<1>3b. ASSUME NEW g \in Gist, NEW l \in Locale, NEW c \in Content, UpdateAtomOfLocale(g, l, c)
       PROVE  AtomsFollowGist'
  <2>0. UNCHANGED <<gist, atom_id_list>>
    BY <1>3b DEF UpdateAtomOfLocale
  <2>1. ASSUME NEW a \in AtomsOf(g), atom' = [atom EXCEPT ![a].content = c]
        PROVE  AtomsFollowGist'
    <3>1. a \in Atom /\ atom[a] \in AtomRow
      BY <1>0 DEF AtomsOf, RowsTyped
    <3>2. /\ atom'[a] \in AtomRow /\ atom'[a].gist = atom[a].gist
          /\ atom'[a].mark = atom[a].mark
          /\ \A b \in Atom : b # a => atom'[b] = atom[b]
      BY <1>0, <2>1, <3>1 DEF RowsTyped, AtomRow
    <3> QED BY <1>0, <2>0, <3>1, <3>2, MissingAssumption, TextChangeFollows
  <2>2. ASSUME NEW a \in Atom, atom[a] = Missing,
               atom' = [atom EXCEPT ![a] =
                          [gist |-> g, locale |-> l, content |-> c, mark |-> "live"]]
        PROVE  AtomsFollowGist'
    BY <1>0, <2>0, <2>2, NewAtomFollows
  <2> QED BY <1>3b, <2>1, <2>2 DEF UpdateAtomOfLocale
<1>3c. ASSUME NEW g \in Gist, NEW s \in SUBSET Atom, NEW texts \in [s -> Locale \X Content],
              create_gists_with_atoms(g, texts)
       PROVE  AtomsFollowGist'
  <2>1. UNCHANGED <<gist, atom_id_list>>
    BY <1>3c DEF create_gists_with_atoms
  <2>2. /\ \A a \in s : atom[a] = Missing /\ atom'[a].gist = g /\ atom'[a].mark = "live"
        /\ \A a \in Atom \ s : atom'[a] = atom[a]
    BY <1>3c, NewRows
  <2>3. \A h \in Gist : {b \in AtomsOf(h)' : atom'[b].mark = "with_gist"}
                          = {b \in AtomsOf(h) : atom[b].mark = "with_gist"}
    BY <2>2 DEF AtomsOf
  <2> QED BY <1>0, <2>1, <2>3 DEF AtomsFollowGist
<1>4. ASSUME NEW a \in Atom, DeleteTranslationAtom(a)
      PROVE  AtomsFollowGist'
  <2>1. /\ atom[a] \in AtomRow /\ atom[a].mark = "live"
        /\ atom' = [atom EXCEPT ![a].mark = "removed"]
        /\ UNCHANGED <<gist, atom_id_list>>
    BY <1>0, <1>4 DEF DeleteTranslationAtom, RowsTyped
  <2>2. /\ atom'[a] \in AtomRow /\ atom'[a].gist = atom[a].gist /\ atom'[a].mark = "removed"
        /\ \A b \in Atom : b # a => atom'[b] = atom[b]
    BY <1>0, <2>1 DEF RowsTyped, AtomRow, AtomMark
  <2>3. \A h \in Gist : AtomsOf(h)' = AtomsOf(h)
    BY <2>1, <2>2, MissingAssumption DEF AtomsOf
  <2>5. \A b \in Atom : atom'[b].mark = "with_gist" <=> atom[b].mark = "with_gist"
    BY <2>1, <2>2
  <2> QED BY <1>0, <2>1, <2>3, <2>5 DEF AtomsFollowGist, AtomsOf
<1>5. ASSUME NEW g \in Gist, DeleteTranslationGist(g)
      PROVE  AtomsFollowGist'
  BY <1>0, <1>5, GistDeletionFollows DEF DeleteTranslationGist, GistMark
<1>6. ASSUME NEW g \in Gist, UndeleteTranslationGist(g)
      PROVE  AtomsFollowGist'
  BY <1>0, <1>6, GistRestorationFollows DEF UndeleteTranslationGist
<1>7. ASSUME NEW o \in Object, del_object(o)
      PROVE  AtomsFollowGist'
  <2>1. GistOf[o] \in Gist
    BY GistAssumption
  <2>2. CASE UNCHANGED <<gist, atom_id_list, atom>>
    BY <1>0, <2>2 DEF AtomsFollowGist, LiveAtoms, AtomsOf
  <2>3. CASE gist[GistOf[o]] = "live" /\ delete_gist_with_atoms(GistOf[o], "with_object")
    BY <1>0, <2>1, <2>3, GistDeletionFollows DEF GistMark
  <2> QED BY <1>7, <2>2, <2>3 DEF del_object
<1>8. ASSUME NEW o \in Object, undel_object(o)
      PROVE  AtomsFollowGist'
  <2>1. GistOf[o] \in Gist
    BY GistAssumption
  <2>2. CASE UNCHANGED <<gist, atom_id_list, atom>>
    BY <1>0, <2>2 DEF AtomsFollowGist, LiveAtoms, AtomsOf
  <2>3. CASE gist[GistOf[o]] # "live" /\ undelete_gist_with_atoms(GistOf[o])
    BY <1>0, <2>1, <2>3, GistRestorationFollows
  <2> QED BY <1>8, <2>2, <2>3 DEF undel_object
<1> QED
  BY <1>1, <1>2, <1>3, <1>3a, <1>3b, <1>3c, <1>4, <1>5, <1>6, <1>7, <1>8, GistAssumption
  DEF Next, vars, db, get_translation, get_translations, Aborted

(***************************************************************************)
(* The types, and what a gist's deletion remembers of its atoms: neither   *)
(* is inductive alone, since restoring names rows that must exist.         *)
(***************************************************************************)
THEOREM TypedAndFollowed == Spec => []TypedInv
<1>1. Init => TypedInv
  BY DEF Init, TypedInv, TypeOK, AtomsFollowGist, LiveAtoms, AtomsOf, GistMark
<1>2. TypedInv /\ [Next]_vars => TypedInv'
  BY StepTyped, StepFollows DEF TypedInv
<1> QED BY <1>1, <1>2, PTL DEF Spec

(* The rows and the cache have their types. *)
THEOREM TypeCorrect == Spec => []TypeOK
<1> QED BY TypedAndFollowed, PTL DEF TypedInv

(* What undelete_gist_with_atoms restores is what delete_gist_with_atoms took. *)
THEOREM RestoresWhatWasDeleted == Spec => []AtomsFollowGist
<1> QED BY TypedAndFollowed, PTL DEF TypedInv

-----------------------------------------------------------------------------
(***************************************************************************)
(* The cache.  Coherent(g) is what StandardRetrieval says of one gist; it is   *)
(* kept when keys are only removed while the texts stay.                   *)
(***************************************************************************)
Coherent(g) ==
    /\ \A l \in Locale : translation[g][l] # Missing => <<l, translation[g][l]>> \in Texts(g)
    /\ translations[g] # {} => /\ translations[g] \subseteq Texts(g)
                               /\ LocalesOf(translations[g]) = LocalesOf(Texts(g))

LEMMA FewerKeys ==
    ASSUME NEW g \in Gist, Coherent(g), Texts(g)' = Texts(g),
           \A l \in Locale : translation'[g][l] \in {Missing, translation[g][l]},
           translations'[g] \in {{}, translations[g]}
    PROVE  Coherent(g)'
BY DEF Coherent, LocalesOf

LEMMA GistDeletionCoherent ==
    ASSUME RowsTyped, StandardRetrieval, NEW g \in Gist, NEW mark \in GistMark,
           delete_gist_with_atoms(g, mark)
    PROVE  StandardRetrieval'
<1>1. /\ RemGistKeys(g) /\ MarkAtoms(LiveAtoms(g), "with_gist")
      /\ "with_gist" \in AtomMark /\ LiveAtoms(g) \in SUBSET AtomsOf(g)
  BY DEF delete_gist_with_atoms, AtomMark, LiveAtoms
<1> SUFFICES ASSUME NEW h \in Gist PROVE Coherent(h)'
  BY DEF StandardRetrieval, Coherent
<1>2. Coherent(h)
  BY DEF StandardRetrieval, Coherent
<1>3. CASE h # g
  <2>1. Texts(h)' = Texts(h)
    BY <1>1, <1>3, OtherTexts
  <2>2. translation'[h] = translation[h] /\ translations'[h] = translations[h]
    BY <1>1, <1>3 DEF RemGistKeys, RowsTyped
  <2> QED BY <1>2, <2>1, <2>2, FewerKeys
<1>4. CASE h = g
  <2>1. translations'[g] = {}
    BY <1>1 DEF RemGistKeys, RowsTyped
  <2>2. \A l \in Locale : translation'[g][l] = IF \E a \in LiveAtoms(g) : atom[a].locale = l
                                               THEN Missing ELSE translation[g][l]
    BY <1>1 DEF RemGistKeys, RowsTyped
  <2>3. ASSUME NEW l \in Locale, translation[g][l] # Missing
        PROVE  \E a \in LiveAtoms(g) : atom[a].locale = l
    <3>1. <<l, translation[g][l]>> \in Texts(g)
      BY <1>2, <1>4, <2>3 DEF Coherent
    <3> QED BY <3>1 DEF Texts
  <2> QED BY <1>4, <2>1, <2>2, <2>3 DEF Coherent
<1> QED BY <1>3, <1>4

LEMMA GistRestorationCoherent ==
    ASSUME RowsTyped, AtomsFollowGist, Bare, StandardRetrieval,
           NEW g \in Gist, gist[g] # "live", undelete_gist_with_atoms(g)
    PROVE  StandardRetrieval'
<1>1. /\ UNCHANGED <<translation, translations>> /\ MarkAtoms(atom_id_list[g], "live")
      /\ "live" \in AtomMark /\ atom_id_list[g] \in SUBSET AtomsOf(g) /\ LiveAtoms(g) = {}
  BY DEF undelete_gist_with_atoms, AtomMark, AtomsFollowGist, Bare
<1> SUFFICES ASSUME NEW h \in Gist PROVE Coherent(h)'
  BY DEF StandardRetrieval, Coherent
<1>2. Coherent(h)
  BY DEF StandardRetrieval, Coherent
<1>3. CASE h # g
  <2>1. Texts(h)' = Texts(h)
    BY <1>1, <1>3, OtherTexts
  <2> QED BY <1>1, <1>2, <2>1, FewerKeys
<1>4. CASE h = g
  <2>1. Texts(g) = {}
    BY <1>1 DEF Texts
  <2>2. translations[g] = {} /\ \A l \in Locale : translation[g][l] = Missing
    BY <1>2, <1>4, <2>1 DEF Coherent
  <2> QED BY <1>1, <1>4, <2>2 DEF Coherent
<1> QED BY <1>3, <1>4

(***************************************************************************)
(* One atom of a gist changes after its keys have been removed: whatever   *)
(* else is cached is the text of another atom.                             *)
(***************************************************************************)
LEMMA AtomChangeCoherent ==
    ASSUME RowsTyped, StandardRetrieval, NEW a \in Atom, atom[a] # Missing, RemKeys(a),
           \A b \in Atom : b # a => atom'[b] = atom[b],
           atom'[a] # Missing, atom'[a].gist = atom[a].gist
    PROVE  StandardRetrieval'
<1> DEFINE g == atom[a].gist
           k == atom[a].locale
<1>1. g \in Gist /\ k \in Locale
  BY DEF RowsTyped, AtomRow
<1>2. /\ translations' = [translations EXCEPT ![g] = {}]
      /\ translation' = [translation EXCEPT ![g][k] = Missing]
  BY DEF RemKeys
<1> SUFFICES ASSUME NEW h \in Gist PROVE Coherent(h)'
  BY DEF StandardRetrieval, Coherent
<1>3. Coherent(h)
  BY DEF StandardRetrieval, Coherent
<1>4. CASE h # g
  <2>1. AtomsOf(h)' = AtomsOf(h) /\ \A b \in AtomsOf(h) : atom'[b] = atom[b]
    BY <1>4 DEF AtomsOf
  <2>2. Texts(h)' = Texts(h)
    BY <2>1 DEF Texts, LiveAtoms
  <2>3. translation'[h] = translation[h] /\ translations'[h] = translations[h]
    BY <1>1, <1>2, <1>4 DEF RowsTyped
  <2> QED BY <1>3, <2>2, <2>3, FewerKeys
<1>5. CASE h = g
  <2>1. translations'[g] = {} /\ translation'[g][k] = Missing
    BY <1>1, <1>2 DEF RowsTyped
  <2>2. \A l \in Locale : l # k => translation'[g][l] = translation[g][l]
    BY <1>1, <1>2 DEF RowsTyped
  <2>3. ASSUME NEW l \in Locale, l # k, translation[g][l] # Missing
        PROVE  <<l, translation[g][l]>> \in Texts(g)'
    <3>1. PICK b \in LiveAtoms(g) : atom[b].locale = l /\ atom[b].content = translation[g][l]
      BY <1>3, <1>5, <2>3 DEF Coherent, Texts
    <3>2. b \in Atom /\ b # a
      BY <2>3, <3>1 DEF LiveAtoms, AtomsOf
    <3>3. b \in LiveAtoms(g)' /\ atom'[b] = atom[b]
      BY <3>1, <3>2 DEF LiveAtoms, AtomsOf
    <3> QED BY <3>1, <3>3 DEF Texts
  <2> QED BY <1>5, <2>1, <2>2, <2>3 DEF Coherent
<1> QED BY <1>4, <1>5

(***************************************************************************)
(* No live atom of a deleted gist: deletion marks them all, and a new atom *)
(* needs a live gist when only the translation requests write texts.       *)
(***************************************************************************)
LEMMA StepBare ==
    ASSUME ~by_object, TypedInv, Bare, [Next]_vars
    PROVE  Bare'
<1>0. RowsTyped /\ AtomsFollowGist
  BY DEF TypedInv, TypeOK, RowsTyped
<1>1. CASE UNCHANGED <<gist, atom>>
  BY <1>1 DEF Bare, LiveAtoms, AtomsOf
<1>2. ASSUME NEW a \in Atom, NEW g \in Gist, NEW l \in Locale, NEW c \in Content,
             CreateTranslationAtom(a, g, l, c)
      PROVE  Bare'
  <2>1. /\ atom'[a] = [gist |-> g, locale |-> l, content |-> c, mark |-> "live"]
        /\ \A b \in Atom : b # a => atom'[b] = atom[b]
        /\ gist[g] = "live" /\ gist' = gist
    BY <1>0, <1>2 DEF CreateTranslationAtom, RowsTyped
  <2>2. \A h \in Gist : h # g => LiveAtoms(h)' \subseteq LiveAtoms(h)
    BY <2>1 DEF LiveAtoms, AtomsOf
  <2> QED BY <2>1, <2>2 DEF Bare
<1>3. ASSUME NEW a \in Atom, UNCHANGED gist, atom[a] \in AtomRow,
             atom'[a].gist = atom[a].gist, atom'[a].mark \in {atom[a].mark, "removed"},
             \A b \in Atom : b # a => atom'[b] = atom[b]
      PROVE  Bare'
  <2>1. \A h \in Gist : LiveAtoms(h)' \subseteq LiveAtoms(h)
    BY <1>3, MissingAssumption DEF LiveAtoms, AtomsOf
  <2> QED BY <1>3, <2>1 DEF Bare
<1>4. ASSUME NEW a \in Atom, NEW l \in Locale, NEW c \in Content, UpdateTranslationAtom(a, l, c)
      PROVE  Bare'
  <2>1. /\ atom[a] \in AtomRow /\ UNCHANGED gist
        /\ atom' = [atom EXCEPT ![a].locale = l, ![a].content = c]
    BY <1>0, <1>4 DEF UpdateTranslationAtom, RowsTyped
  <2>2. /\ atom'[a].gist = atom[a].gist /\ atom'[a].mark = atom[a].mark
        /\ \A b \in Atom : b # a => atom'[b] = atom[b]
    BY <1>0, <2>1 DEF RowsTyped, AtomRow
  <2> QED BY <1>3, <2>1, <2>2
<1>5. ASSUME NEW a \in Atom, DeleteTranslationAtom(a)
      PROVE  Bare'
  <2>1. /\ atom[a] \in AtomRow /\ UNCHANGED gist
        /\ atom' = [atom EXCEPT ![a].mark = "removed"]
    BY <1>0, <1>5 DEF DeleteTranslationAtom, RowsTyped
  <2>2. /\ atom'[a].gist = atom[a].gist /\ atom'[a].mark = "removed"
        /\ \A b \in Atom : b # a => atom'[b] = atom[b]
    BY <1>0, <2>1 DEF RowsTyped, AtomRow
  <2> QED BY <1>3, <2>1, <2>2
<1>6. ASSUME NEW g \in Gist, NEW mark \in GistMark, delete_gist_with_atoms(g, mark)
      PROVE  Bare'
  <2>1. /\ MarkAtoms(LiveAtoms(g), "with_gist") /\ LiveAtoms(g) \in SUBSET AtomsOf(g)
        /\ "with_gist" \in AtomMark /\ gist' = [gist EXCEPT ![g] = mark]
    BY <1>6 DEF delete_gist_with_atoms, LiveAtoms, AtomMark
  <2>2. LiveAtoms(g)' = {}
    <3>1. /\ AtomsOf(g)' = AtomsOf(g)
          /\ \A a \in AtomsOf(g) :
                atom'[a].mark = IF a \in LiveAtoms(g) THEN "with_gist" ELSE atom[a].mark
      BY <1>0, <2>1, MarkedAtoms
    <3> QED BY <3>1 DEF LiveAtoms
  <2>3. \A h \in Gist : h # g => LiveAtoms(h)' = LiveAtoms(h) /\ gist'[h] = gist[h]
    BY <1>0, <2>1 DEF LiveAtoms, AtomsOf, MarkAtoms, RowsTyped
  <2> QED BY <2>2, <2>3 DEF Bare
<1>7. ASSUME NEW g \in Gist, undelete_gist_with_atoms(g), gist[g] # "live"
      PROVE  Bare'
  <2>1. /\ MarkAtoms(atom_id_list[g], "live") /\ atom_id_list[g] \in SUBSET AtomsOf(g)
        /\ gist' = [gist EXCEPT ![g] = "live"]
    BY <1>0, <1>7 DEF undelete_gist_with_atoms, AtomsFollowGist
  <2>2. \A h \in Gist : h # g => LiveAtoms(h)' = LiveAtoms(h) /\ gist'[h] = gist[h]
    BY <1>0, <2>1 DEF LiveAtoms, AtomsOf, MarkAtoms, RowsTyped
  <2>3. gist'[g] = "live"
    BY <1>0, <2>1 DEF RowsTyped
  <2> QED BY <2>2, <2>3 DEF Bare
<1>8. ASSUME NEW g \in Gist, NEW s \in SUBSET Atom, NEW texts \in [s -> Locale \X Content],
             create_gists_with_atoms(g, texts)
      PROVE  Bare'
  <2>1. gist[g] = "live" /\ gist' = gist
    BY <1>8 DEF create_gists_with_atoms
  <2>2. /\ \A a \in s : atom'[a].gist = g
        /\ \A a \in Atom \ s : atom'[a] = atom[a]
    BY <1>8, NewRows
  <2>3. \A h \in Gist : h # g => LiveAtoms(h)' \subseteq LiveAtoms(h)
    BY <2>2 DEF LiveAtoms, AtomsOf
  <2> QED BY <2>1, <2>3 DEF Bare
<1> QED
  BY <1>1, <1>2, <1>4, <1>5, <1>6, <1>7, <1>8, GistAssumption
  DEF Next, vars, db, get_translation, get_translations, Aborted, DeleteTranslationGist,
      UndeleteTranslationGist, del_object, undel_object, UpdateAtomById, UpdateAtomOfLocale,
      GistMark

LEMMA StepCoherent ==
    ASSUME ~by_object, TypedInv, Bare, StandardRetrieval, [Next]_vars
    PROVE  StandardRetrieval'
<1>0. RowsTyped /\ AtomsFollowGist
  BY DEF TypedInv, TypeOK, RowsTyped
<1>c. \A h \in Gist : Coherent(h)
  BY DEF StandardRetrieval, Coherent
<1>d. (\A h \in Gist : Coherent(h)') => StandardRetrieval'
  BY DEF StandardRetrieval, Coherent
<1>1. ASSUME NEW g \in Gist, NEW l \in Locale, get_translation(g, l)
      PROVE  StandardRetrieval'
  <2>1. PICK p \in Texts(g) : translation' = [translation EXCEPT ![g][p[1]] = p[2]]
    BY <1>1 DEF get_translation
  <2>2. p[1] \in Locale /\ p[2] \in Content /\ p = <<p[1], p[2]>>
    BY <1>0, <2>1 DEF RowsTyped, Texts, LiveAtoms, AtomsOf, AtomRow
  <2>3. \A h \in Gist : Texts(h)' = Texts(h) /\ translations'[h] = translations[h]
    BY <1>1 DEF get_translation, db, Texts, LiveAtoms, AtomsOf
  <2>4. \A h \in Gist, m \in Locale :
            \/ translation'[h][m] = translation[h][m]
            \/ h = g /\ m = p[1] /\ translation'[h][m] = p[2]
    BY <1>0, <2>1, <2>2 DEF RowsTyped
  <2> QED BY <1>c, <1>d, <2>1, <2>2, <2>3, <2>4 DEF Coherent
<1>2. ASSUME NEW g \in Gist, get_translations(g)
      PROVE  StandardRetrieval'
  <2>1. PICK s \in SUBSET Texts(g) : /\ translations' = [translations EXCEPT ![g] = s]
                                     /\ LocalesOf(s) = LocalesOf(Texts(g))
    BY <1>2 DEF get_translations
  <2>2. \A h \in Gist : Texts(h)' = Texts(h) /\ translation'[h] = translation[h]
    BY <1>2 DEF get_translations, db, Texts, LiveAtoms, AtomsOf
  <2>3. \A h \in Gist : \/ translations'[h] = translations[h]
                        \/ h = g /\ translations'[h] = s
    BY <1>0, <2>1 DEF RowsTyped
  <2>4. ASSUME NEW h \in Gist PROVE Coherent(h)'
    <3>1. CASE translations'[h] = translations[h]
      BY <1>c, <2>2, <3>1 DEF Coherent, LocalesOf
    <3>2. CASE h = g /\ translations'[h] = s
      BY <1>c, <2>1, <2>2, <3>2 DEF Coherent, LocalesOf
    <3> QED BY <2>3, <3>1, <3>2
  <2> QED BY <1>d, <2>4
<1>3. ASSUME NEW a \in Atom, NEW g \in Gist, NEW l \in Locale, NEW c \in Content,
             CreateTranslationAtom(a, g, l, c)
      PROVE  StandardRetrieval'
  <2>1. /\ atom[a] = Missing
        /\ atom'[a] = [gist |-> g, locale |-> l, content |-> c, mark |-> "live"]
        /\ \A b \in Atom : b # a => atom'[b] = atom[b]
        /\ translations'[g] = {} /\ UNCHANGED translation
        /\ \A h \in Gist : h # g => translations'[h] = translations[h]
    BY <1>0, <1>3 DEF CreateTranslationAtom, RowsTyped
  <2>2. \A h \in Gist : \A b \in LiveAtoms(h) : b \in LiveAtoms(h)' /\ atom'[b] = atom[b]
    BY <2>1 DEF LiveAtoms, AtomsOf
  <2>3. \A h \in Gist : Texts(h) \subseteq Texts(h)'
    BY <2>2 DEF Texts
  <2>4. \A h \in Gist : h # g => Texts(h)' = Texts(h)
    BY <2>1 DEF Texts, LiveAtoms, AtomsOf
  <2>5. ASSUME NEW h \in Gist PROVE Coherent(h)'
    <3>1. CASE h = g
      BY <1>c, <2>1, <2>3, <3>1 DEF Coherent
    <3>2. CASE h # g
      BY <1>c, <2>1, <2>4, <3>2, FewerKeys
    <3> QED BY <3>1, <3>2
  <2> QED BY <1>d, <2>5
<1>4. ASSUME NEW a \in Atom, NEW l \in Locale, NEW c \in Content, UpdateTranslationAtom(a, l, c)
      PROVE  StandardRetrieval'
  <2>1. /\ atom[a] \in AtomRow /\ atom[a] # Missing /\ RemKeys(a)
        /\ atom' = [atom EXCEPT ![a].locale = l, ![a].content = c]
    BY <1>0, <1>4 DEF UpdateTranslationAtom, RowsTyped
  <2>2. /\ atom'[a] \in AtomRow /\ atom'[a].gist = atom[a].gist
        /\ \A b \in Atom : b # a => atom'[b] = atom[b]
    BY <1>0, <2>1 DEF RowsTyped, AtomRow
  <2> QED BY <1>0, <2>1, <2>2, MissingAssumption, AtomChangeCoherent
<1>5. ASSUME NEW a \in Atom, DeleteTranslationAtom(a)
      PROVE  StandardRetrieval'
  <2>1. /\ atom[a] \in AtomRow /\ atom[a] # Missing /\ RemKeys(a)
        /\ atom' = [atom EXCEPT ![a].mark = "removed"]
    BY <1>0, <1>5 DEF DeleteTranslationAtom, RowsTyped
  <2>2. /\ atom'[a] \in AtomRow /\ atom'[a].gist = atom[a].gist
        /\ \A b \in Atom : b # a => atom'[b] = atom[b]
    BY <1>0, <2>1 DEF RowsTyped, AtomRow, AtomMark
  <2> QED BY <1>0, <2>1, <2>2, MissingAssumption, AtomChangeCoherent
<1>6. ASSUME NEW g \in Gist, DeleteTranslationGist(g)
      PROVE  StandardRetrieval'
  BY <1>0, <1>6, GistDeletionCoherent DEF DeleteTranslationGist, GistMark
<1>7. ASSUME NEW g \in Gist, UndeleteTranslationGist(g)
      PROVE  StandardRetrieval'
  BY <1>0, <1>7, GistRestorationCoherent DEF UndeleteTranslationGist
<1>8. CASE UNCHANGED <<atom, translation, translations>>
  <2>1. \A h \in Gist : Texts(h)' = Texts(h)
    BY <1>8 DEF Texts, LiveAtoms, AtomsOf
  <2> QED BY <1>8, <2>1 DEF StandardRetrieval, LocalesOf
<1>9. ASSUME NEW o \in Object, del_object(o)
      PROVE  StandardRetrieval'
  <2>1. GistOf[o] \in Gist /\ "with_object" \in GistMark
    BY GistAssumption DEF GistMark
  <2>2. CASE delete_gist_with_atoms(GistOf[o], "with_object")
    BY <1>0, <2>1, <2>2, GistDeletionCoherent
  <2> QED BY <1>8, <1>9, <2>2 DEF del_object
<1>10. ASSUME NEW o \in Object, undel_object(o)
       PROVE  StandardRetrieval'
  <2>1. GistOf[o] \in Gist
    BY GistAssumption
  <2>2. CASE gist[GistOf[o]] # "live" /\ undelete_gist_with_atoms(GistOf[o])
    BY <1>0, <2>1, <2>2, GistRestorationCoherent
  <2> QED BY <1>8, <1>10, <2>2 DEF undel_object
<1>11. CASE Aborted
  <2>1. \A h \in Gist : Texts(h)' = Texts(h)
    BY <1>11 DEF Aborted, db, Texts, LiveAtoms, AtomsOf
  <2>2. /\ \A h \in Gist, l \in Locale : translation'[h][l] \in {Missing, translation[h][l]}
        /\ \A h \in Gist : translations'[h] \in {{}, translations[h]}
    <3>1. ASSUME NEW g \in Gist, translations' = [translations EXCEPT ![g] = {}],
                 UNCHANGED translation
          PROVE  <2>2!1 /\ <2>2!2
      BY <1>0, <3>1 DEF RowsTyped
    <3>2. ASSUME NEW g \in Gist, RemGistKeys(g)
          PROVE  <2>2!1 /\ <2>2!2
      BY <1>0, <3>2 DEF RowsTyped, RemGistKeys
    <3>3. ASSUME NEW a \in Atom, atom[a] # Missing, RemKeys(a)
          PROVE  <2>2!1 /\ <2>2!2
      <4>1. atom[a].gist \in Gist /\ atom[a].locale \in Locale
        BY <1>0, <3>3 DEF RowsTyped, AtomRow
      <4> QED BY <1>0, <3>3, <4>1 DEF RowsTyped, RemKeys
    <3> QED BY <1>11, <3>1, <3>2, <3>3 DEF Aborted
  <2> QED BY <1>c, <1>d, <2>1, <2>2, FewerKeys
<1>12. ASSUME NEW g \in Gist, NEW s \in SUBSET Atom, NEW texts \in [s -> Locale \X Content],
              create_gists_with_atoms(g, texts)
       PROVE  StandardRetrieval'
  <2>1. UNCHANGED <<translation, translations>> /\ AtomsOf(g) = {}
    BY <1>12 DEF create_gists_with_atoms
  <2>2. /\ \A a \in s : atom[a] = Missing /\ atom'[a].gist = g
        /\ \A a \in Atom \ s : atom'[a] = atom[a]
    BY <1>12, NewRows
  <2>3. \A h \in Gist : h # g => Texts(h)' = Texts(h)
    BY <2>2 DEF Texts, LiveAtoms, AtomsOf
  <2>4. Texts(g) = {}
    BY <2>1 DEF Texts, LiveAtoms
  <2>5. translations[g] = {} /\ \A l \in Locale : translation[g][l] = Missing
    BY <1>0, <1>c, <2>4 DEF Coherent, RowsTyped
  <2>6. ASSUME NEW h \in Gist PROVE Coherent(h)'
    <3>1. CASE h = g
      BY <2>1, <2>5, <3>1 DEF Coherent
    <3>2. CASE h # g
      BY <1>c, <2>1, <2>3, <3>2, FewerKeys
    <3> QED BY <3>1, <3>2
  <2> QED BY <1>d, <2>6
<1> QED
  BY <1>1, <1>2, <1>3, <1>4, <1>5, <1>6, <1>7, <1>8, <1>9, <1>10, <1>11, <1>12
  DEF Next, vars, UpdateAtomById, UpdateAtomOfLocale

LEMMA BareAndCoherent == Spec => [](by_object \/ (Bare /\ StandardRetrieval))
<1>1. Init => Bare /\ StandardRetrieval
  BY DEF Init, StandardRetrieval, Bare
<1>2. TypedInv /\ (by_object \/ (Bare /\ StandardRetrieval)) /\ [Next]_vars
         => (by_object \/ (Bare /\ StandardRetrieval))'
  BY StepBare, StepCoherent, AnswerKept
<1> QED BY <1>1, <1>2, TypedAndFollowed, PTL DEF Spec

(***************************************************************************)
(* A gist that is deleted has no live text, when texts are written by the  *)
(* translation requests only.                                              *)
(***************************************************************************)
THEOREM DeletedIsBare == Spec => []DeletedGistIsBare
<1>1. (by_object \/ (Bare /\ StandardRetrieval)) => DeletedGistIsBare
  BY DEF DeletedGistIsBare
<1> QED BY <1>1, BareAndCoherent, PTL

(***************************************************************************)
(* What readers find in Redis agrees with the rows, for every set of       *)
(* objects, gists and locales, when requests do not overlap and texts are  *)
(* written by the translation requests only.                               *)
(***************************************************************************)
THEOREM CacheIsCoherent == Spec => []CacheCoherent
<1>1. (by_object \/ (Bare /\ StandardRetrieval)) => CacheCoherent
  BY DEF CacheCoherent
<1> QED BY <1>1, BareAndCoherent, PTL
=============================================================================
