SPECIFICATION DeskSpec
CONSTANTS
    None = None
    HoursPerDay = 2
    PerHour = 2
    Values = {1, 4}
    Wide = 4
    MaxBids = 2
    GridDays = {0, 1, 2, 3, 4}
    PriceDays = {0, 1, 2, 3, 4, 5}
    MaxNow = 18
    DaysPerMonth = 3
    MonthsPerYear = 2
    MIN_MONTH_HISTORY = 2
    MIN_HISTORY_DAYS = 3
    MIN_BASELINE_N = 2
    TailPercentile <- MCTail
    TB_MIN_HOURS = 1
    MIN_DAYS = 1
    MIN_PRICE_HOURS = 1
    FullHours = 2
    Zones = {"z1", "z2"}
    ZERO_RUN_MIN_HOURS = 2
    ACTIVITY_WINDOW_DAYS = 1
    DurationHours = 2
    SeasonalLag = 4
    SummerStart = 2
    SummerEnd = 6
    DEFAULT_ZONE = "z1"
    Heat <- MCHeat
    BASELINE_DAYS = 4
    SparkDays = 2
    A73_ZONES = {"z1"}
    NTC_BORDER_SET <- MCBorders
    HYDRO_ZONES = {"z1", "z2"}
    PRODUCT_SUFFIXES = {"fcr", "afrr_pos"}
    Premium = {"imbalance.price"}
    MAX_SCAN_ROWS = 9
    MAX_JSON_POINTS = 6
    MAX_REVISION_ROWS = 9
    DEFAULT_WINDOW_DAYS = 2
    SnapshotHours = 6
    SUMMARY_WINDOW_DAYS = {2, 4}
    SUMMARY_SHORT_DAYS = 2
    SUMMARY_LONG_DAYS = 4
    MATURITY = 4
    ARRIVAL_STALE_DAYS = 2
    SCOREBOARD_MAX_AGE = 3
    QUALITY_MAX_AGE = 3
    NP_WINDOW = 3
    NP_MIN_HOURS = 3
    IMB_WINDOW_DAYS = 4
    FS_WINDOW_DAYS = 3
    SENT_WINDOW = 3
    SPIKE_MIN_DELTA_EUR = 5
    IMB_WARN_FLOOR_EUR = 100
    IMB_CRIT_FLOOR_EUR = 105
    RECORD_MIN_COVERAGE_DAYS = 2
    SAT_MIN_HOURS = 1
    SAT_CRIT_MIN_HOURS = 2
    SAT_WINDOW_HOURS = 8
    COMPLETENESS_NORM_DAYS = 3
    COMPLETENESS_MIN_NORM_DAYS = 2
    RESTATE_WINDOW = 4
    RESTATE_MIN_HOURS = 1
    RESTATE_CRIT_HOURS = 2
    REVISION_MATURITY = 4
    MAX_ZONES = 2
    MIN_GEN_HOURS_YEAR = 1
    MIN_PRICE_HOURS_YEAR = 2
    SMOOTH_WINDOW = 2
    Z_LOOKBACK = 4
    Z_MIN_HISTORY = 2
    SIGNAL_RUN = 2
    MIN_CALIBRATION_MONTHS = 2
    DaysPerWeek = 7
INVARIANTS
    ParsersFaithful
    EpisodesMatch
    RadarMatchesDesk
    ReadingsAgree
    CaptureAgrees
    DaysPoolToHours
    GapsNamed
    OneReportCounts
CHECK_DEADLOCK FALSE
