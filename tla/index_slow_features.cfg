\* Both kinds of index, one declaration with slow features, nothing fails.
CONSTANTS
    D = 3
    ChunkSize = 2
    Parallelism = 2
    RowCost <- QuickRows
    FeatureCost <- SlowFeatures
    Budget = 5
    Kinds = {"mathlib", "local"}
    MaxFaults = 0
SPECIFICATION Spec
INVARIANTS SlowIsNotFatal
CHECK_DEADLOCK FALSE
