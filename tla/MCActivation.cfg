SPECIFICATION Spec
CONSTANTS
    Gen = {1, 2}
    Subject = {s1}
    Floor = {0, 2}
    MaxEpoch = 2
    MaxRecords = 2
    MaxNet = 1
    MaxHappen = 6
    Faults = {"power"}
    RotRole = {"staged", "active"}
    Regenesis = FALSE
INVARIANTS TypeOK DenyHolds AppliedIsLive OnceOnly BootKeepsActive
PROPERTIES NoRollback FenceRespected
CHECK_DEADLOCK FALSE
