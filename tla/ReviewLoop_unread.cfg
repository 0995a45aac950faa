SPECIFICATION Spec
CONSTANTS
    Codes <- TwoCodes
    Tasks = {1, 2}
    MaxRounds = 2
    MaxActs = 1
    MaxStarts = 2
    Troubles = {"fault"}
    MaxTroubles = 1
    WallClock = FALSE
PROPERTY AutoOncePerCode
CHECK_DEADLOCK FALSE
