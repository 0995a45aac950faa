SPECIFICATION Spec
CONSTANTS
    Keys = {1, 2}
    Calls = {1, 2}
    MaxUser = 2
    MaxReviews = 0
    MaxFaults = 0
CHECK_DEADLOCK FALSE
INVARIANTS SentOnce HeldRunApart
