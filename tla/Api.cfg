SPECIFICATION ApiSpec
CONSTANTS
    Threads = {"t1", "t2"}
    MAX_ACTIVE_KEYS = 1
    MaxKeys = 3
    MaxRequests = 1
    MaxDay = 2
    FlushMayFail = TRUE
    MayRestart = TRUE
    Serving = {"t1", "t2", "t3"}
    Keys = {"coverage"}
    WarmKeys <- WarmOne
    HEAVY_QUERY_SLOTS = 2
    TTL = 4
    WarmDelay = 1
    WarmPeriod = 2
    MaxScan = 1
    ScansFail = TRUE
    WarmFailsToo = TRUE
    Free = Free
    MaxTime = 5
    MaxQueries = 3
INVARIANTS EverythingAccounted KeyCap ReportNotOver SlotsConserved ServedFresh
PROPERTIES AllFlushed HerdAnswered
CHECK_DEADLOCK FALSE
