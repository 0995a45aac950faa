SPECIFICATION FairSpec
CONSTANTS
    Codes <- TwoCodes
    Tasks = {1, 2}
    MaxRounds = 1
    MaxActs = 1
    MaxStarts = 1
    Troubles = {"fault", "lag", "stop", "gone", "asleep"}
    MaxTroubles = 1
    WallClock = TRUE
CHECK_DEADLOCK FALSE
INVARIANT AutoWithinBudget
PROPERTIES RoundsEnd SettlesOnTruth
