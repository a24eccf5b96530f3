\* One thread, and workers that outlive the kill of their lake.
CONSTANTS
    c1 = c1  c2 = c2  s1 = s1  s2 = s2  s3 = s3
    None = None
    Callers = {c1}
    Sessions = {s1, s2}
    MaxCalls = 3
    Rows = 2
    ChannelBound = 1
    LargeRequest = FALSE
    Wrapped = TRUE
    MaxFaults = 1
SPECIFICATION FairSpec
INVARIANT PooledSessionIsQuiet
PROPERTIES ImplementsService CancelEndsCalls
CHECK_DEADLOCK FALSE
