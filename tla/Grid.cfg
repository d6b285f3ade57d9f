SPECIFICATION Spec
CONSTANTS
    HOURS_PER_DAY = 2
    Days = {1}
    Areas <- TwoAreas
    Values <- LegValues
    None = None
    MaxPublish = 1
    MaxFaults = 1
INVARIANTS
    NoPartialLoad
    DailyMeansAgree
PROPERTY
    Converges
CHECK_DEADLOCK FALSE
