SPECIFICATION Spec
CONSTANTS
    Actors = {a1, a2}
    Listeners = {a1}
    MaxEntries = 2
CHECK_DEADLOCK FALSE
INVARIANTS
    TypeOK
    ViewersAccounted
