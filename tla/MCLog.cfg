SPECIFICATION LogSpec
CONSTANTS
    Tasks = {t1, t2, t3}
    Messages = {m1, m2}
    Capacity = 2
SYMMETRY Symmetry
INVARIANTS
    LogTypeOK
    NewestAreKept
