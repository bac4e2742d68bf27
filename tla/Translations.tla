---------------------------- MODULE Translations ----------------------------
(***************************************************************************)
(* Names of objects: a dictionary, a field ... refers to a translation     *)
(* gist, and a translation atom is the text of a gist in one locale.       *)
(* Deleting an object deletes its gist and the gist's atoms, undeleting it *)
(* restores them (schema/gql_holders.py), and readers cache the texts in   *)
(* Redis (models.py).  A request is one action: it removes cache keys      *)
(* first and commits at the end, and when the commit fails the keys are    *)
(* gone all the same.                                                      *)
(***************************************************************************)
CONSTANTS
    Object,
    Gist,
    GistOf,         \* GistOf[o]: the gist object o is named by
    Common,         \* gists of type "Perspective": not deleted with an object
    Atom,
    Locale,
    Fallback,       \* Fallback[l]: English, or Russian for English itself
    Content,
    Missing         \* no row, no cache entry

ASSUME GistAssumption ==
    /\ GistOf \in [Object -> Gist]
    /\ Common \subseteq Gist
    /\ Fallback \in [Locale -> Locale]

GistMark == {"live", "removed", "with_object"}
AtomMark == {"live", "removed", "with_gist"}
AtomRow == [gist : Gist, locale : Locale, content : Content, mark : AtomMark]

ASSUME MissingAssumption == Missing \notin Content /\ Missing \notin AtomRow

VARIABLES
    deleted,        \* objects marked for deletion
    gist,           \* how each gist is marked, and why: the message in its ObjectTOC row
    atom_id_list,   \* the atoms a deleted gist's message names
    atom,           \* the row of each atom
    translation,    \* cache keys translation:<gist>:<locale>
    translations,   \* cache key translations:<gist>; an empty value is read as no value
    by_object       \* do mutations of objects change texts of gists too?  one answer for a behaviour

db == <<deleted, gist, atom_id_list, atom, by_object>>
vars == <<deleted, gist, atom_id_list, atom, translation, translations, by_object>>

TypeOK ==
    /\ deleted \subseteq Object
    /\ gist \in [Gist -> GistMark]
    /\ atom_id_list \in [Gist -> SUBSET Atom]
    /\ atom \in [Atom -> AtomRow \cup {Missing}]
    /\ translation \in [Gist -> [Locale -> Content \cup {Missing}]]
    /\ translations \in [Gist -> SUBSET (Locale \X Content)]
    /\ by_object \in BOOLEAN

Init ==
    /\ deleted = {}
    /\ gist = [g \in Gist |-> "live"]
    /\ atom_id_list = [g \in Gist |-> {}]
    /\ atom = [a \in Atom |-> Missing]
    /\ translation = [g \in Gist |-> [l \in Locale |-> Missing]]
    /\ translations = [g \in Gist |-> {}]
    /\ by_object \in BOOLEAN

-----------------------------------------------------------------------------
AtomsOf(g) == {a \in Atom : atom[a] # Missing /\ atom[a].gist = g}
LiveAtoms(g) == {a \in AtomsOf(g) : atom[a].mark = "live"}
Texts(g) == {<<atom[a].locale, atom[a].content>> : a \in LiveAtoms(g)}
LocalesOf(s) == {p[1] : p \in s}

(* The entry get_translation caches is the one of the locale whose text it returns: the *)
(* one asked for, or the fallback, or any; nothing is cached for a gist without texts.  *)
get_translation(g, l) ==
    /\ translation[g][l] = Missing
    /\ \E p \in Texts(g) :
          /\ l \in LocalesOf(Texts(g)) => p[1] = l
          /\ l \notin LocalesOf(Texts(g)) /\ Fallback[l] \in LocalesOf(Texts(g))
                => p[1] = Fallback[l]
          /\ translation' = [translation EXCEPT ![g][p[1]] = p[2]]
    /\ UNCHANGED <<db, translations>>

(* A slip: texts are the keys and locales the values. *)
get_translations_Swapped(g) ==
    /\ translations[g] = {}
    /\ translations' = [translations EXCEPT ![g] = {<<p[2], p[1]>> : p \in Texts(g)}]
    /\ UNCHANGED <<db, translation>>

(* One text for each locale, if there are several atoms of a locale. *)
get_translations(g) ==
    /\ translations[g] = {}
    /\ \E s \in SUBSET Texts(g) :
          /\ LocalesOf(s) = LocalesOf(Texts(g))
          /\ \A p, q \in s : p[1] = q[1] => p = q
          /\ translations' = [translations EXCEPT ![g] = s]
    /\ UNCHANGED <<db, translation>>

-----------------------------------------------------------------------------
(* Slips: a deleted gist gets a text; the key of the gist is left in the cache. *)
CreateTranslationAtom_AnyGist(a, g, l, c) ==
    /\ atom[a] = Missing
    /\ \A b \in LiveAtoms(g) : atom[b].locale # l
    /\ translations' = [translations EXCEPT ![g] = {}]
    /\ atom' = [atom EXCEPT ![a] = [gist |-> g, locale |-> l, content |-> c, mark |-> "live"]]
    /\ UNCHANGED <<deleted, gist, atom_id_list, translation, by_object>>

CreateTranslationAtom_KeyStays(a, g, l, c) ==
    /\ atom[a] = Missing
    /\ gist[g] = "live"
    /\ \A b \in LiveAtoms(g) : atom[b].locale # l
    /\ atom' = [atom EXCEPT ![a] = [gist |-> g, locale |-> l, content |-> c, mark |-> "live"]]
    /\ UNCHANGED <<deleted, gist, atom_id_list, translation, translations, by_object>>

CreateTranslationAtom(a, g, l, c) ==
    /\ atom[a] = Missing
    /\ gist[g] = "live"
    /\ \A b \in LiveAtoms(g) : atom[b].locale # l
    /\ translations' = [translations EXCEPT ![g] = {}]
    /\ atom' = [atom EXCEPT ![a] = [gist |-> g, locale |-> l, content |-> c, mark |-> "live"]]
    /\ UNCHANGED <<deleted, gist, atom_id_list, translation, by_object>>

RemKeys(a) ==
    /\ translation' = [translation EXCEPT ![atom[a].gist][atom[a].locale] = Missing]
    /\ translations' = [translations EXCEPT ![atom[a].gist] = {}]

(* A deleted atom can be updated too, and no other atom is looked at. *)
UpdateTranslationAtom(a, l, c) ==
    /\ atom[a] # Missing
    /\ RemKeys(a)
    /\ atom' = [atom EXCEPT ![a].locale = l, ![a].content = c]
    /\ UNCHANGED <<deleted, gist, atom_id_list, by_object>>

(* UpdateLanguageAtom, and the same for dictionaries and perspectives: the atom of this   *)
(* locale, deleted or not; if there is none, a new one, of a deleted gist too, and no key *)
(* is removed.                                                                            *)
UpdateAtomOfLocale(g, l, c) ==
    /\ by_object
    /\ \/ \E a \in AtomsOf(g) :
             /\ atom[a].locale = l
             /\ RemKeys(a)
             /\ atom' = [atom EXCEPT ![a].content = c]
       \/ /\ \A a \in AtomsOf(g) : atom[a].locale # l
          /\ \E a \in Atom :
                /\ atom[a] = Missing
                /\ atom' = [atom EXCEPT ![a] =
                              [gist |-> g, locale |-> l, content |-> c, mark |-> "live"]]
          /\ UNCHANGED <<translation, translations>>
    /\ UNCHANGED <<deleted, gist, atom_id_list, by_object>>

(* UpdateDictionaryAtom and UpdatePerspectiveAtom with atom_id: an atom of this locale *)
(* gets the text, another one only moves to the locale and no key is removed; for an   *)
(* id that no row has the object's gist gets a new atom, whatever atoms it has.        *)
UpdateAtomById(g, a, l, c) ==
    /\ by_object
    /\ \/ /\ atom[a] # Missing /\ atom[a].locale = l
          /\ RemKeys(a)
          /\ atom' = [atom EXCEPT ![a].content = c]
       \/ /\ atom[a] # Missing /\ atom[a].locale # l
          /\ atom' = [atom EXCEPT ![a].locale = l]
          /\ UNCHANGED <<translation, translations>>
       \/ /\ atom[a] = Missing
          /\ atom' = [atom EXCEPT ![a] =
                        [gist |-> g, locale |-> l, content |-> c, mark |-> "live"]]
          /\ UNCHANGED <<translation, translations>>
    /\ UNCHANGED <<deleted, gist, atom_id_list, by_object>>

(* An object is created with a list of texts: they are the atoms of a new gist, or come to *)
(* the gist that the client names, in any state and with any atoms (unless ~by_object).    *)
(* No key is removed.                                                                      *)
create_gists_with_atoms(g, texts) ==
    /\ by_object \/ (gist[g] = "live" /\ AtomsOf(g) = {})
    /\ \A a \in DOMAIN texts : atom[a] = Missing
    /\ atom' = [a \in Atom |->
          IF a \in DOMAIN texts
          THEN [gist |-> g, locale |-> texts[a][1], content |-> texts[a][2], mark |-> "live"]
          ELSE atom[a]]
    /\ UNCHANGED <<deleted, gist, atom_id_list, translation, translations, by_object>>

DeleteTranslationAtom(a) ==
    /\ atom[a] # Missing /\ atom[a].mark = "live"
    /\ RemKeys(a)
    /\ atom' = [atom EXCEPT ![a].mark = "removed"]
    /\ UNCHANGED <<deleted, gist, atom_id_list, by_object>>

-----------------------------------------------------------------------------
MarkAtoms(s, mark) ==
    atom' = [a \in Atom |-> IF a \in s THEN [atom[a] EXCEPT !.mark = mark] ELSE atom[a]]

RemGistKeys(g) ==
    /\ translations' = [translations EXCEPT ![g] = {}]
    /\ translation' = [translation EXCEPT ![g] =
          [l \in Locale |-> IF \E a \in LiveAtoms(g) : atom[a].locale = l THEN Missing
                                                                        ELSE @[l]]]

(* A slip: every atom of the gist is named in the message. *)
delete_gist_with_atoms_All(g, mark) ==
    /\ RemGistKeys(g)
    /\ MarkAtoms(LiveAtoms(g), "with_gist")
    /\ gist' = [gist EXCEPT ![g] = mark]
    /\ atom_id_list' = [atom_id_list EXCEPT ![g] = AtomsOf(g)]

delete_gist_with_atoms(g, mark) ==
    /\ RemGistKeys(g)
    /\ MarkAtoms(LiveAtoms(g), "with_gist")
    /\ gist' = [gist EXCEPT ![g] = mark]
    /\ atom_id_list' = [atom_id_list EXCEPT ![g] = LiveAtoms(g)]

undelete_gist_with_atoms(g) ==
    /\ MarkAtoms(atom_id_list[g], "live")
    /\ gist' = [gist EXCEPT ![g] = "live"]
    /\ atom_id_list' = [atom_id_list EXCEPT ![g] = {}]
    /\ UNCHANGED <<translation, translations>>

DeleteTranslationGist(g) ==
    /\ gist[g] = "live"
    /\ delete_gist_with_atoms(g, "removed")
    /\ UNCHANGED <<deleted, by_object>>

UndeleteTranslationGist(g) ==
    /\ gist[g] # "live"
    /\ undelete_gist_with_atoms(g)
    /\ UNCHANGED <<deleted, by_object>>

del_object(o) ==
    /\ o \notin deleted
    /\ deleted' = deleted \cup {o} /\ UNCHANGED by_object
    /\ IF gist[GistOf[o]] = "live" /\ GistOf[o] \notin Common
       THEN delete_gist_with_atoms(GistOf[o], "with_object")
       ELSE UNCHANGED <<gist, atom_id_list, atom, translation, translations>>

undel_object(o) ==
    /\ o \in deleted
    /\ deleted' = deleted \ {o} /\ UNCHANGED by_object
    /\ IF gist[GistOf[o]] # "live" /\ GistOf[o] \notin Common
       THEN undelete_gist_with_atoms(GistOf[o])
       ELSE UNCHANGED <<gist, atom_id_list, atom, translation, translations>>

(* A request whose commit fails: it has only removed cache keys. *)
Aborted ==
    /\ UNCHANGED db
    /\ \/ \E g \in Gist :
             \/ translations' = [translations EXCEPT ![g] = {}] /\ UNCHANGED translation
             \/ gist[g] = "live" /\ RemGistKeys(g)
       \/ \E a \in Atom : atom[a] # Missing /\ RemKeys(a)

-----------------------------------------------------------------------------
Next ==
    \/ \E g \in Gist : \/ \E l \in Locale : get_translation(g, l)
                       \/ get_translations(g)
                       \/ DeleteTranslationGist(g) \/ UndeleteTranslationGist(g)
    \/ \E a \in Atom, l \in Locale, c \in Content :
          \/ \E g \in Gist : CreateTranslationAtom(a, g, l, c)
          \/ UpdateTranslationAtom(a, l, c)
          \/ \E o \in Object : UpdateAtomById(GistOf[o], a, l, c)
    \/ \E o \in Object, l \in Locale, c \in Content : UpdateAtomOfLocale(GistOf[o], l, c)
    \/ \E g \in Gist, s \in SUBSET Atom :
          \E texts \in [s -> Locale \X Content] : create_gists_with_atoms(g, texts)
    \/ \E a \in Atom : DeleteTranslationAtom(a)
    \/ \E o \in Object : del_object(o) \/ undel_object(o)
    \/ Aborted

Spec == Init /\ [][Next]_vars

-----------------------------------------------------------------------------
(***************************************************************************)
(* However gists, atoms and objects are deleted and restored, an atom of a *)
(* live gist is deleted only if it was deleted by itself, and the message  *)
(* of a deleted gist names exactly the atoms that went with it: what       *)
(* undelete_gist_with_atoms restores is what the deletion took.            *)
(***************************************************************************)
AtomsFollowGist ==
    \A g \in Gist :
        /\ gist[g] = "live" => \A a \in AtomsOf(g) : atom[a].mark # "with_gist"
        /\ gist[g] # "live" => atom_id_list[g] = {a \in AtomsOf(g) : atom[a].mark = "with_gist"}

(***************************************************************************)
(* When texts are changed by the translation requests only, and new ones   *)
(* come with new gists, none of a deleted gist is left, although           *)
(* CreateTranslationAtom is all that looks.                                *)
(***************************************************************************)
Bare == \A g \in Gist : gist[g] # "live" => LiveAtoms(g) = {}
DeletedGistIsBare == by_object \/ Bare

(***************************************************************************)
(* "Standard translation retrieval with caching": a cached text is the     *)
(* text of a live atom of that gist and locale, and the cached texts of a  *)
(* gist are its texts, although restoring a gist touches no cache key.     *)
(***************************************************************************)
StandardRetrieval ==
    \A g \in Gist :
        /\ \A l \in Locale : translation[g][l] # Missing => <<l, translation[g][l]>> \in Texts(g)
        /\ translations[g] # {} => /\ translations[g] \subseteq Texts(g)
                                   /\ LocalesOf(translations[g]) = LocalesOf(Texts(g))

(***************************************************************************)
(* It holds of requests that do not overlap when texts are changed by the  *)
(* translation requests only, all of which remove the keys, and otherwise  *)
(* only come with new gists.                                               *)
(***************************************************************************)
CacheCoherent == by_object \/ StandardRetrieval
=============================================================================
