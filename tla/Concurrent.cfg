SPECIFICATION Spec
CONSTANTS
    c1 = c1
    m1 = m1
    m2 = m2
    t1 = t1
    t2 = t2
    Null = Null
    Cards = {c1}
    Machines = {m1, m2}
    Threads = {t1, t2}
    Ops = {"activate", "verify", "self_unbind", "ban", "unban",
           "edit", "reset", "unbind_all", "delete", "device_edit",
           "device_unbind", "device_delete"}
    Kind <- TimedKind
    Duration <- OneTick
    Credits <- NoCredits
    MaxLimit = 1
    Extensions <- NoExtension
    MaxTime = 1
    Horizon = 2
    MaxRows = 2
SYMMETRY Symmetry
INVARIANTS
    ReferentialIntegrity
    OvershootBounded
    FullTerm
PROPERTIES
    UnboundIsFinal
    ColumnsAreOwned
