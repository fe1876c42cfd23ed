SPECIFICATION Spec
CONSTANTS
    i1 = i1
    i2 = i2
    e1 = e1
    m1 = m1
    k1 = k1
    g = g
    App = App
    Readers = {d1, d2}
    ReaderFrame <- OneGeometry
    Engine = Engine
    Stock <- SomeStock
    First <- FirstLayers
    MaxLayers = 2
    MaxRevision = 7
CHECK_DEADLOCK FALSE
INVARIANTS
    TypeOK
    FrameIsSnapshot
    EngineSeesTheMap
PROPERTIES
    ImplementsSnapshots
    FramesCatchUp
