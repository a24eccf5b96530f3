\* One command at a time: audits and cleanups that may be killed at any step, and
\* audits that keep being asked for.
CONSTANTS
    w1 = w1  w2 = w2  a1 = a1  a2 = a2  c1 = c1
    None = None  Torn = Torn
    Auditors = {a1}
    Cleaners = {c1}
    Workspaces <- OneWorkspace
    Versions = {0, 1}
    WorkspaceOf <- SoleAuditor
    Kind = "Local"
    RequireOleans = FALSE
    Mortal = {a1, c1}
    OneAtATime = TRUE
    OnePerKey = FALSE
    MaxFaults = 2
SPECIFICATION FairSpec
INVARIANTS DoctorIsRight EntryIsOneBuild AuditOpensOwnEntry
PROPERTIES CleanupSparesActive AuditsRecover
