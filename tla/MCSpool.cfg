CONSTANTS
    r1 = r1
    r2 = r2
    Request <- MCRequest
    Budget <- MCBudget
    Capacity = 3
    MaxBytes = 7
    Watermark = 2
    Batch = 2
    SegmentCap = 2
    Faults = {"power"}
    MaxTrouble = 2
    MaxAcks = 1
SPECIFICATION Spec
INVARIANTS  TerminalKept NothingLost 
PROPERTY TerminalSettles
CHECK_DEADLOCK FALSE
