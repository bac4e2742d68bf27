\* One transaction at a time: three languages, for a sibling before, between and after, and
\* a dictionary.
SPECIFICATION Spec
CONSTANTS
    Language = {l1, l2, l3}
    Dictionary = {d1}
    Top = Top
    Txn = {t1}
    OwnPrevious = FALSE
SYMMETRY Symmetry
INVARIANTS TypeOK SiblingsOrdered NoCycle
PROPERTIES ImplementsOrder DeletedBare
