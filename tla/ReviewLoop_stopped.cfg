SPECIFICATION Spec
CONSTANTS
    Codes <- TwoCodes
    Tasks = {1, 2}
    MaxRounds = 2
    MaxActs = 2
    MaxStarts = 2
    Troubles = {"stop"}
    MaxTroubles = 1
    WallClock = FALSE

PROPERTIES AutoOncePerCode
CHECK_DEADLOCK FALSE
