\* The user builds before every audit; fixed toolchain.
CONSTANTS
    m1 = m1  m2 = m2
    None = None
    N = 4
    Modules = {m1, m2}
    Core = {}
    Scope <- TwoScopes
    Versions = {0, 1}
    ChunkSize = 3
    Cost <- MixedCosts
    Budget = 3
    Careful = TRUE
    MaxAudits = 3
    MaxFaults = 2
SPECIFICATION FairSpec
INVARIANTS EveryPairAnswered OnlySlowPairsUnavailable EvidenceIsCurrent
PROPERTIES NothingAskedTwice AuditEnds
CHECK_DEADLOCK FALSE
