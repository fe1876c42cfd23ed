SPECIFICATION Spec
CONSTANTS
    r = r
    p = p
    c = c
    Keys = {r, p}
    Root = r
    Parent <- ParentOf
    Leaves = {}
    Ids = {1, 2, 3, 4, 5, 6}
    None = None
    MaxRevision = 1
    MaxInvalid = 1
INVARIANTS
    TypeOK
    LiveTilesKnowRevision
    SceneIsLive
    DeadIsOut
PROPERTIES
    UpdatesReachTheScene
