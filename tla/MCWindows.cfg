SPECIFICATION Spec
CONSTANTS
    Attempt = {1, 2}
    Gen = {g1}
    Config <- WindowConfig
    Request <- WindowRequest
    KeepWindow = 2
    Retention = 2
    LedgerLimit = 4
    Backoff <- Steps
    MaxClock = 3
    MaxCrash = 1
    MaxEpoch = 0
    MaxProbe = 0
INVARIANTS RateWindowBound  
CONSTRAINT IssuedInOrder Alike
