SPECIFICATION Spec
CONSTANTS
    N = 1
    Gates = {"commit"}
    Finalizes = {"none"}
    MaxFaults = 0
PROPERTIES
    CancelIsHonored
CHECK_DEADLOCK FALSE
