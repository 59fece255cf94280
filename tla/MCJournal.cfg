SPECIFICATION Spec
CONSTANTS
    Value = {v1, v2}
    SegmentCap = 2
    MaxSeq = 3
    MaxCkpt = 3
    Ends <- OneKind
    MaxFail = 1
    MaxRot = 1
INVARIANTS Recoverable
PROPERTIES ImplementsLog
SYMMETRY Symmetry
CHECK_DEADLOCK FALSE
