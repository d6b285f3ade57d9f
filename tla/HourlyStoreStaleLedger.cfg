SPECIFICATION Spec
CONSTANTS
    Series = {"price.dayahead", "residual.actual"}
    Zones = {"DE_LU"}
    Excluded = {"residual.actual"}
    Hours = {1}
    Values = {0, 2, 4}
    NoRow = NoRow
    Free = Free
    Other = Other
    Writers = {"ingest", "backfill"}
    Policy <- IngestAndBackfill
    Contended = FALSE
    BatchSize = 1
    MaxAttempts = 2
    MaxBatches = 3
    MaxOther = 0
PROPERTIES LedgerExact
CHECK_DEADLOCK FALSE
