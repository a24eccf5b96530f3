\* Two projects that pin one mathlib, or two versions of it, under one label;
\* nobody asks for an entry while another builds it.
CONSTANTS
    w1 = w1  w2 = w2  a1 = a1  a2 = a2  c1 = c1
    None = None  Torn = Torn
    Auditors = {a1, a2}
    Cleaners = {}
    Workspaces <- TwoWorkspaces
    Versions = {0, 1}
    WorkspaceOf <- OwnWorkspaces
    Kind = "ProjectMathlib"
    RequireOleans = TRUE
    Mortal = {a1, a2}
    OneAtATime = FALSE
    OnePerKey = TRUE
    MaxFaults = 1
SYMMETRY Alike
SPECIFICATION Spec
INVARIANTS CurrentEntryIsComplete LatestTargetIsComplete SharedReuseIsSafe
