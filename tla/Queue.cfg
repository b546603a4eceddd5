SPECIFICATION FairSpec
CONSTANTS
    t0 = t0
    t1 = t1
    t2 = t2
    Id = {a, b}
    Text <- MCText
    Chunks <- MCChunks
    Meta = {m, n}
    None = None
    BatchSize = 2
    MaxFailures = 2
    MaxCalls = 2

CHECK_DEADLOCK FALSE
INVARIANT NothingForgotten
INVARIANT StaleJobsWait
INVARIANT NoStall
INVARIANT HealedAgrees
PROPERTY Converges
