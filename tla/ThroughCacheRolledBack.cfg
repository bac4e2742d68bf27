\* A dictionary and its perspective, two processes; requests that are rolled back.
SPECIFICATION Spec
CONSTANTS
    d = d  p = p
    Dictionary = {d}
    Perspective = {p}
    Entry = {}
    Crowded = {}
    Parent <- Parents
    Value = {v, w}
    Key = {k}
    Hooked = {k}
    Request = {r1, r2}
    Absent = Absent
SYMMETRY Symmetry
INVARIANTS InsertedThenCached
