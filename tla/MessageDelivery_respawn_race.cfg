SPECIFICATION Spec
CONSTANTS
    Msgs = {m1, m2}
    Modes = {"Live"}
    MaxFaults = 1
CHECK_DEADLOCK FALSE
PROPERTIES RespawnIsComing
