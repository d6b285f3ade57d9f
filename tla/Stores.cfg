SPECIFICATION StoresSpec
CONSTANTS
    None = None
    Days = {0, 1, 2, 3, 4}
    Prices <- MCPrices
    WINDOW = 2
    DaysPerYear = 2
    MaxChanges = 1
    MaxFaults = 1
    HoursPerDay = 1
    DaysPerMonth = 3
    MonthsPerYear = 2
    MIN_MONTH_HISTORY = 2
    MIN_HISTORY_DAYS = 3
    MIN_BASELINE_N = 2
    TailPercentile <- MCTail
    TB_MIN_HOURS = 1
    MIN_DAYS = 1
    MIN_PRICE_HOURS = 1
    FullHours = 1
    Zones = {"z1"}
    ZERO_RUN_MIN_HOURS = 2
    ACTIVITY_WINDOW_DAYS = 1
    DurationHours = 2
    SeasonalLag = 2
    SummerStart = 2
    SummerEnd = 6
    Writers = {"midday", "nightly"}
    Process <- OneProcess
    Overwrites = {TRUE, FALSE}
    Migration = "migration"
    MaxVersion = 2
    MaxCalls = 2
    NoInode = NoInode
    Garbled = Garbled
INVARIANTS NightlyMatches NoPartialFileUnlessRaced
PROPERTIES NightlySettles FetchedIsKept NoStaleResurfaces
CHECK_DEADLOCK FALSE
