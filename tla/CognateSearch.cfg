\* Every table of three entries and three tags, without symmetry because of Terminates: a
\* chain of three entries takes both halves of a round of linked_cycle.
SPECIFICATION FairSpec
CONSTANTS
    LexicalEntry = {e1, e2, e3}
    Tag = {g1, g2, g3}
INVARIANTS TypeOK GroupsAreComponents GroupsPartition
PROPERTY Terminates
CHECK_DEADLOCK FALSE
