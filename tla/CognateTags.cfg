\* Three entries; four requests one after another, or three that overlap.
SPECIFICATION Spec
CONSTANTS
    e1 = e1
    LexicalEntry = {e1, e2, e3}
    Tag = {g1, g2, g3}
    Admin = admin
    User = {admin, editor}
    MayCreate <- MCMayCreate
    Txn = {t1, t2, t3, t4}
    MaxOverlapping = 3
SYMMETRY Symmetry
INVARIANTS TypeOK Uniform OneRowPerTag StaysConnected
PROPERTIES ImplementsGroups TakenOut
CHECK_DEADLOCK FALSE
