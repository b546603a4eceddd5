SPECIFICATION ProviderSpec
CONSTANTS
    Request = {r, s, t}
    MaxWorkers = 3
    Caller = {c, d, e}
    MaxLoads = 3
    MaxReloads = 2
INVARIANT LocalTypeOK
INVARIANT SingleFlight
INVARIANT WaitsForCurrent
INVARIANT FailureEarned
INVARIANT NoLeakedWorker
PROPERTY CallsEnd
PROPERTY Settled
CHECK_DEADLOCK FALSE
