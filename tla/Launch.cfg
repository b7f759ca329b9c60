SPECIFICATION MCSpec
CONSTANTS
    server = server
    cli = cli
    p1 = p1
    p2 = p2
    Null = Null
    Empty = Empty
    Procs = {server, cli}
    Server = server
    Apps = {p1, p2}
    Software = p1
    MaxMade = 2
    Launches <- TwoLaunches
    MaxVersion = 2
INVARIANTS
    TypeOK
    CardsUnlockTheirApp
    NoStaleKey
PROPERTIES
    KeysKept
    LaunchSucceeds
