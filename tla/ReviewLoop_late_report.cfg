SPECIFICATION Spec
CONSTANTS
    Codes <- TwoCodes
    Tasks = {1, 2}
    MaxRounds = 1
    MaxActs = 1
    MaxStarts = 2
    Troubles = {"stop"}
    MaxTroubles = 1
    WallClock = FALSE
INVARIANT ReportIsOfItsRound
CHECK_DEADLOCK FALSE
