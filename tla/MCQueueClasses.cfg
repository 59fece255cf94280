SPECIFICATION PumpSpec
CONSTANTS
    Request = {r1, r2, r3}
    Key = {1, 2}
    Tier = {0}
    Weight = {1, 2}
    Offer <- ClassOffer
    MaxStreak = 1
    Cap = 1
    MaxTurns = 3
INVARIANTS TypeOK FairShares
SYMMETRY Symmetry
