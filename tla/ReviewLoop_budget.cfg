SPECIFICATION Spec
CONSTANTS
    Codes <- TwoCodes
    Tasks = {1, 2}
    MaxRounds = 1
    MaxActs = 1
    MaxStarts = 2
    Troubles = {"stop", "fault"}
    MaxTroubles = 3
    WallClock = FALSE
INVARIANT AutoWithinBudget
CHECK_DEADLOCK FALSE
