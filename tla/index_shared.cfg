\* Two projects that pin one mathlib.
CONSTANTS
    w1 = w1  w2 = w2  a1 = a1  a2 = a2  c1 = c1
    None = None  Torn = Torn
    Auditors = {a1, a2}
    Cleaners = {}
    Workspaces <- TwoWorkspaces
    Versions = {0}
    WorkspaceOf <- OwnWorkspaces
    Kind = "ProjectMathlib"
    RequireOleans = TRUE
    Mortal = {a1, a2}
    OneAtATime = FALSE
    OnePerKey = FALSE
    MaxFaults = 0
SPECIFICATION Spec
INVARIANT SharedReuseIsSafe
