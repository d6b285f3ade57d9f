SPECIFICATION ScenarioSpec
CONSTANTS
    Days = {0}
    DayHours = {1, 2}
    Prices = {0, 1}
    NoPrice = NoPrice
    NoDoc = NoDoc
    Jobs = {"daily", "midday", "backfill"}
    Process <- BackfillApart
    Overwrite <- CronOverwrites
    Recent <- Windows
    LastDay = 2
    MaxFaults = 1
    MaxPublish = 2
INVARIANTS ViewsAgreeInApp RestatementsStay ViewsRepaired
CHECK_DEADLOCK FALSE
