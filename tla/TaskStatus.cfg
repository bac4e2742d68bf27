\* Operations one after another, or their Redis commands in every order.
SPECIFICATION Spec
CONSTANTS
    t1 = t1  t2 = t2  t3 = t3  u1 = u1  u2 = u2  w2 = w2  w3 = w3
    Task = {t1, t2, t3}
    Worker = {w2, w3}
    Runs <- Handed
    Deleter = {d1, d2}
    User = {u1, u2}
    Zero = zero
    Owner <- Owners
    Missing = Missing
    Last = 1
SYMMETRY Symmetry
INVARIANTS TypeOK RecordListed DummiesAreLost
PROPERTIES DeletedIsGone EndedStaysDeleted
CHECK_DEADLOCK FALSE
