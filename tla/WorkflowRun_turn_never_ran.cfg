SPECIFICATION Spec
CONSTANTS
    N = 1
    Gates = {"commit"}
    Finalizes = {"none"}
    MaxFaults = 1
INVARIANTS
    TurnEndedMeansItRan
CHECK_DEADLOCK FALSE
