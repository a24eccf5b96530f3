\* Two installers and an audit; two installations, two updates, one fault.
CONSTANTS
    i1 = i1  i2 = i2
    None = None  Torn = Torn
    Installers = {i1, i2}
    Audits = {"audit"}
    Toolchains = {"t1", "t2"}
    Pinned = "t1"
    Headers = {1, 2}
    Broken <- MCBroken
    SameDevice = FALSE
    MaxInstalls = 2
    MaxUpdates = 2
    MaxFaults = 1
SYMMETRY InstallerSymmetry
SPECIFICATION Spec
INVARIANTS ServedWorkerWorks AdviceHelps
CHECK_DEADLOCK FALSE
