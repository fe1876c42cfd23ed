SPECIFICATION Spec
CONSTANTS
    Uids = {u1, u2, u3}
    Callers = {c1, c2}
    Weights <- WeightsTried
    Target = 4
    None = None
    MaxServices = 3
INVARIANTS
    TypeOK
    CountIsExact
    CountWithinTarget
    WeightsAreRespected
PROPERTIES
    ServicesAreShared
