\* Any two or three of eleven declarations, alone and beside each index.
CONSTANTS
    m1 = m1
    m2 = m2
    m3 = m3
    m4 = m4
    None = None
    Modules <- MCModules
    LeanModules <- MCModules
    Graphs <- Headers
    Workloads <- MCWorkloads
    Audits <- MCAudits
    Rarity <- MCRarity
    TopK = 2
    LaneTopK = 1
    RoleLimit = 3
    BroadLimit = 1
    NearScore = 240
    AliasCallers = 3
    MaxUses = 2
    VisibleLimit = 2
SPECIFICATION FairAuditSpec
INVARIANTS
    KeysCoverClosures
    BestFirst
    UnaskableTakeNoPlace
    ChangesAreFocused
    StrongMatchesSurvive
    ObservationAgrees
    LintIsPrecise
    SilenceIsMeasured
    VerifiedIsShown
    HintsAreInformed
PROPERTY AuditEnds
CHECK_DEADLOCK FALSE
