SPECIFICATION FairSpec
CONSTANTS
    p1 = p1
    p2 = p2
    Pkts = {p1, p2}
    Vols = {1, 2}
    Types = {"LOCATE_OBJECT", "FREE_LOCK", "COPY_DIR", "END", "READ", "WRITE", "FH_FROM_LOCK", "CREATE_DIR", "IS_FILESYSTEM"}
    Chunks = {0, 2}
    MaxReqs = 3
    MaxLocks = 1
    MaxSends = 2
    MaxParts = 1
    MaxEvents = 2
INVARIANTS
    TypeOK
    AnsweredOnce
    LocksKept
    ListsIntact
PROPERTY AllAnswered
CHECK_DEADLOCK FALSE
