SPECIFICATION FairSpec
CONSTANTS
    Keys = {1}
    Calls = {1, 2}
    MaxUser = 1
    MaxReviews = 1
    MaxFaults = 1
CHECK_DEADLOCK FALSE
PROPERTIES NewSurvivesPass EveryDelegationEnds
