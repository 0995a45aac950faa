SPECIFICATION Spec
CONSTANTS
    Codes <- ThreeCodes
    Tasks = {1, 2}
    MaxRounds = 2
    MaxActs = 2
    MaxStarts = 2
    Troubles = {"look", "restart"}
    MaxTroubles = 1
    WallClock = FALSE
CHECK_DEADLOCK FALSE
INVARIANT OneRound
PROPERTY AutoOncePerCode
