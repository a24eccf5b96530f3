\* Seventeen settings for the gate, and any one label in any of four corpora.
CONSTANTS
    LeanModules = {"M"}
    Rarity <- MCRarity
    Qualified <- MCQualified
    Display <- MCDisplay
    Settings <- MCSettings
    Requests <- MCRequests
    TopK = 2
    LaneTopK = 1
    RoleLimit = 3
    BroadLimit = 1
    NearScore = 240
    AliasCallers = 3
    MaxUses = 2
    VisibleScore = 24
    RecallGate = 2
    UsualKs = {1, 2}
SPECIFICATION EvaluationSpec
INVARIANTS
    GateIsHonest
    LossIsLocated
CHECK_DEADLOCK FALSE
