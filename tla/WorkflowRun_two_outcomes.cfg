SPECIFICATION Spec
CONSTANTS
    N = 1
    Gates = {"commit"}
    Finalizes = {"none"}
    MaxFaults = 1
INVARIANT SingleOutcome
CHECK_DEADLOCK FALSE
