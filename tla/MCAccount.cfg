SPECIFICATION Spec
CONSTANTS
    Attempt = {1, 2}
    Gen = {g1}
    Config <- DrainConfig
    Request <- SlotRequest
    KeepWindow = 2
    Retention = 2
    LedgerLimit = 4
    Backoff <- AtOnce
    MaxClock = 1
    MaxCrash = 2
    MaxEpoch = 1
    MaxProbe = 1
INVARIANTS TypeOK NoLostCapacity ParallelBound SingleProbe ReplayAgrees
PROPERTIES  CircuitFenced
CONSTRAINT IssuedInOrder
