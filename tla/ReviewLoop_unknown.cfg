SPECIFICATION Spec
CONSTANTS
    Codes <- TwoCodes
    Tasks = {1, 2}
    MaxRounds = 1
    MaxActs = 2
    MaxStarts = 2
    Troubles = {"look"}
    MaxTroubles = 1
    WallClock = FALSE
INVARIANT UnknownCannotArise
CHECK_DEADLOCK FALSE
