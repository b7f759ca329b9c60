SPECIFICATION MCSpec
CONSTANTS
    k1 = k1
    k2 = k2
    t1 = t1
    t2 = t2
    Null = Null
    Codes = {k1, k2}
    AppIds <- TwoIds
    TypeIds <- TwoIds
    Terms = {"month", "year"}
    Threads = {t1, t2}
    MaxCount = 2
    Retries = 1
    Spare = 1
INVARIANTS
    TypeOK
    CardsHaveApplication
    AloneNoConflict
    AloneTemplatesDiffer
PROPERTIES
    IssuedOnce
    AloneKeepsApplication
    IssueEnds
