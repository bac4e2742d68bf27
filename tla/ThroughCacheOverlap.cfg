\* A dictionary and its perspective, two processes whose requests for the dictionary overlap.
SPECIFICATION Spec
CONSTANTS
    d = d  p = p
    Dictionary = {d}
    Perspective = {p}
    Entry = {}
    Crowded = {d}
    Parent <- Parents
    Value = {v, w}
    Key = {k}
    Hooked = {k}
    Request = {r1, r2}
    Absent = Absent
SYMMETRY Symmetry
INVARIANTS RefusedWhenDeleted
