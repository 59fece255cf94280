SPECIFICATION Spec
CONSTANTS
    Installation = {i1, i2}
    Origin = i1
    MaxFence = 5
INVARIANTS OneDispatcher GiverStaysFenced
CHECK_DEADLOCK FALSE
