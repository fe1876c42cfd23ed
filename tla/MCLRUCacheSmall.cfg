SPECIFICATION Spec
CONSTANTS
    Keys = {k1, k2, k3}
    Values = {v1}
    None = None
    Fraction = 10
    Sizes = {2}
INVARIANTS
    SizeCapKept
