\* Two merges of three entries, one with publish_any; one other request.
SPECIFICATION Spec
CONSTANTS
    a = a  b = b  c = c
    e1 = e1  e2 = e2  e3 = e3  p = p  q = q
    Original = {a, b, c}
    Merge = {m1, m2}
    PublishAny = {m1}
    Entity = {e1, e2, e3, n1, n2, n3, n4, n5}
    Text = {p, q}
    Start <- Starts
    None = None
    MaxEdits = 1
CHECK_DEADLOCK FALSE
INVARIANTS TypeOK OriginalsOnce TwiceAtMostOnce
PROPERTY MergeKeeps
