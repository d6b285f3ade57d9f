SPECIFICATION Spec
CONSTANTS
    Series = {"price.dayahead", "residual.actual"}
    Zones = {"DE_LU"}
    Excluded = {"residual.actual"}
    Hours = {1, 2}
    Values = {0, 2}
    NoRow = NoRow
    Free = Free
    Other = Other
    Writers = {"ingest"}
    Policy <- AllContinue
    Contended = TRUE
    BatchSize = 1
    MaxAttempts = 2
    MaxBatches = 3
    MaxOther = 2
INVARIANTS ArrivalTotals
CHECK_DEADLOCK FALSE
