SPECIFICATION Spec
CONSTANTS
    r1 = r1
    r2 = r2
    Request <- MCRequest
    Sends <- Fallback
    HasShadow <- MCHasShadow
    Inbound = 1
    Preauth = 1
    Readers = 1
    Retained = 1
    Permits = 2
    Lifecycles = 1
    MaxTrouble = 0
INVARIANTS PermitsReturned
CHECK_DEADLOCK FALSE
