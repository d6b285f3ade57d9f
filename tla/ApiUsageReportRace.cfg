SPECIFICATION Spec
CONSTANTS
    Threads = {"t1"}
    MAX_ACTIVE_KEYS = 1
    MaxKeys = 1
    MaxRequests = 1
    MaxDay = 1
    FlushMayFail = FALSE
    MayRestart = FALSE
INVARIANTS ReportComplete
CHECK_DEADLOCK FALSE
