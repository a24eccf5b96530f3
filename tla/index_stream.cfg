\* Both kinds of index; two tasks, chunks of up to three declarations.
CONSTANTS
    D = 7
    ChunkSize = 3
    Parallelism = 2
    RowCost <- PrintCosts
    FeatureCost <- FeatureCosts
    Budget = 5
    Kinds = {"mathlib", "local"}
    MaxFaults = 1
SPECIFICATION FairSpec
INVARIANTS IndexIsComplete StreamsPairUp
PROPERTIES BuildEnds
CHECK_DEADLOCK FALSE
