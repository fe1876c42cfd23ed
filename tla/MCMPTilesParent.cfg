SPECIFICATION Spec
CONSTANTS
    r = r
    p = p
    c = c
    Keys = {r, p, c}
    Root = r
    Parent <- ParentOf
    Leaves = {c}
    Ids = {1, 2, 3, 4, 5, 6}
    None = None
    MaxRevision = 1
    MaxInvalid = 0
INVARIANTS
    BlindIsDiscarded
