SPECIFICATION IngestSpec
CONSTANTS
    None = None
    MaxDay = 3
    DaysPerMonth = 2
    LONG = 2
    SHORT = 1
    Feeds = {"ntc", "sched", "netpos", "imbalance", "balancing", "unit_gen", "units", "ida", "hydro", "capacity", "reserve", "cbpf", "elexon", "smard", "agsi", "alsi", "weather", "entsog", "burn"}
    MaxRevision = 2
    MaxPublish = 1
    MaxFaults = 1
    MaxMrid = 2
    PAGE_SIZE = 1
    LOOKBACK_DAYS = 1
    OutageDays = 1
    OutageRevisions = 2
    MaxChanges = 2
PROPERTIES FeedHeals OutagesComplete SnapshotSettles
CHECK_DEADLOCK FALSE
