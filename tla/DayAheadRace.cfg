SPECIFICATION FreeSpec
CONSTANTS
    Days = {0}
    DayHours = {1, 2}
    Prices = {0, 1}
    NoPrice = NoPrice
    NoDoc = NoDoc
    Jobs = {"daily", "backfill"}
    Process <- BackfillApart
    Overwrite <- CronOverwrites
    Recent <- Windows
    LastDay = 1
    MaxFaults = 0
    MaxPublish = 2
INVARIANTS ViewsAgree
CHECK_DEADLOCK FALSE
