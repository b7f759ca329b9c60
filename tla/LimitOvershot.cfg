SPECIFICATION Spec
CONSTANTS
    c1 = c1
    m1 = m1
    m2 = m2
    t1 = t1
    t2 = t2
    Null = Null
    Cards = {c1}
    Machines = {m1, m2}
    Threads = {t1, t2}
    Ops = {"activate"}
    Kind <- CountKind
    Duration <- OneTick
    Credits <- NoCredits
    MaxLimit = 1
    Extensions <- NoExtension
    MaxTime = 0
    Horizon = 1
    MaxRows = 2
SYMMETRY Symmetry
PROPERTIES
    NewBindingWithinLimit
