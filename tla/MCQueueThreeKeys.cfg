SPECIFICATION ServeSpec
CONSTANTS
    Request = {r1, r2, r3}
    Key = {1, 2, 3}
    Tier = {0}
    Weight = {1}
    Offer <- LaneOffer
    MaxStreak = 1
    Cap = 8
    MaxTurns = 0
PROPERTIES NoStarvation
