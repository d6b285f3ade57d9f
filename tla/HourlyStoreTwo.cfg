SPECIFICATION FairSpec
CONSTANTS
    Series = {"price.dayahead"}
    Zones = {"DE_LU"}
    Excluded = {}
    Hours = {1}
    Values = {0, 2}
    NoRow = NoRow
    Free = Free
    Other = Other
    Writers = {"ingest", "backfill"}
    Policy <- IngestAndBackfill
    Contended = TRUE
    BatchSize = 2
    MaxAttempts = 2
    MaxBatches = 3
    MaxOther = 1
INVARIANTS DimsCoverRows
PROPERTIES BatchResolved
CHECK_DEADLOCK FALSE
