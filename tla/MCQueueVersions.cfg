SPECIFICATION Spec
CONSTANTS
    Request = {r1, r2}
    Key = {1, 2}
    Tier = {0, 1}
    Weight = {1}
    Offer <- TierOffer
    MaxStreak = 1
    Cap = 1
    MaxTurns = 2
INVARIANTS SelectionCurrent AgingBound
SYMMETRY Symmetry
