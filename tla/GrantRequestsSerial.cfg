\* Transactions one after another: six requests.
SPECIFICATION Spec
CONSTANTS
    d1 = d1  d2 = d2  g1 = g1  g2 = g2  g3 = g3  u1 = u1  u2 = u2
    User = {u1, u2}
    Approver = {u1, u2}
    Override = {u2}
    Dictionary = {d1, d2}
    Group = {g1, g2, g3, g4}
    GroupsOf <- MCGroupsOf
    EditGroup <- MCEditGroup
    CreateGroup <- MCCreateGroup
    Holders <- MCHolders
    First = {u1}
    Txn = {t1, t2, t3, t4, t5, t6}
    Concurrent = FALSE
    Restores = TRUE
SYMMETRY Symmetry
INVARIANTS TypeOK OwnersHoldRoles RolesOfCreation OneFamily
PROPERTY AcceptedAgain
CHECK_DEADLOCK FALSE
