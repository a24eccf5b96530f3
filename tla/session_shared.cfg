\* Two threads share the engine; a child may crash or hang, also while a
\* request larger than its stdin pipe waits to be read.
CONSTANTS
    c1 = c1  c2 = c2  s1 = s1  s2 = s2  s3 = s3
    None = None
    Callers = {c1, c2}
    Sessions = {s1, s2, s3}
    MaxCalls = 2
    Rows = 1
    ChannelBound = 1
    LargeRequest = TRUE
    Wrapped = FALSE
    MaxFaults = 1
SYMMETRY SessionSymmetry
SPECIFICATION Spec
INVARIANTS AnswersAreOwn PooledSessionIsQuiet
CHECK_DEADLOCK FALSE
