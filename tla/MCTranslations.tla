--------------------------- MODULE MCTranslations ---------------------------
(* Two objects that share a gist, and one named by a common gist. *)
EXTENDS Translations, TLC
CONSTANTS o1, o2, o3, g1, g2, en, ru
Gists == o1 :> g1 @@ o2 :> g1 @@ o3 :> g2
EnRu == en :> ru @@ ru :> en
Symmetry == Permutations(Atom) \cup Permutations(Content)
=============================================================================
