SPECIFICATION Spec
CONSTANTS
    r1 = r1
    r2 = r2
    r3 = r3
    a1 = a1
    a2 = a2
    Request = {r1, r2, r3}
    Account = {a1, a2}
    Route <- MCRoute
    Parallel <- One
    Key = {1, 2}
    Qos <- MCQos
    Tier = {0, 1}
    Weight = {1}
    MaxStreak = 64
    Cap = 8
    MaxConcurrency = 1
    MaxWaiters = 2
    MaxGlobal = 3
    Moves <- MCMoves
    MaxEvent = 2
  
PROPERTIES NeverLeasedRevoked
SYMMETRY Symmetry
CHECK_DEADLOCK FALSE
