SPECIFICATION Spec
CONSTANTS
    Keys = {k1, k2, k3, k4, k5}
    Values = {v1, v2}
    None = None
    Fraction = 2
    Sizes = {2, 4}
INVARIANTS
    ListMatchesMap
PROPERTIES
    ImplementsRecency
