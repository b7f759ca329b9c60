SPECIFICATION OverlapSpec
CONSTANTS
    k1 = k1
    k2 = k2
    t1 = t1
    t2 = t2
    Null = Null
    Codes = {k1}
    AppIds <- OneId
    TypeIds <- TwoIds
    Terms = {"month"}
    Threads = {t1, t2}
    MaxCount = 1
    Retries = 1
    Spare = 1
PROPERTIES
    CardsKeepApplication
