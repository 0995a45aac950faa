SPECIFICATION Spec
CONSTANTS
    Keys = {1}
    Calls = {1}
    MaxUser = 1
    MaxReviews = 0
    MaxFaults = 0
INVARIANT SawOwnTurn
CHECK_DEADLOCK FALSE
