SPECIFICATION MCSpec
CONSTANTS
    t1 = t1
    t2 = t2
    Null = Null
    Threads = {t1, t2}
    Floor = 2
    Ceiling = 4
    Submitted <- FormValues
    DefaultMin = 3
    DefaultMax = 3
INVARIANTS
    TypeOK
    DrawNeverFails
    AloneCopyIsCurrent
