SPECIFICATION Spec
CONSTANTS
    r1 = r1
    r2 = r2
    Request <- MCRequest
    Sends <- Fallback
    HasShadow <- MCHasShadow
    Inbound = 1
    Preauth = 1
    Readers = 1
    Retained = 2
    Permits = 2
    Lifecycles = 2
    MaxTrouble = 2
INVARIANTS TypeOK Returned   
PROPERTIES NoReplay 
CHECK_DEADLOCK FALSE
