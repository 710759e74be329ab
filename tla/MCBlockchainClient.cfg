\* Retries, the circuit breaker and the construction of the client.
SPECIFICATION Spec
CONSTANTS
    Request = {r1, r2}
    Null = Null
    MaxRetries = 3
    Threshold = 5
    Pause = 4
    RpcTimeout = 2
INVARIANTS
    ClientTypeOK
    PausedMeansQuiet
    BlockedAtMost
PROPERTIES
    PauseEnds
