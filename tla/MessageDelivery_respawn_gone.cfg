SPECIFICATION Spec
CONSTANTS
    Msgs = {m1, m2}
    Modes = {"Live"}
    MaxFaults = 2
CHECK_DEADLOCK FALSE
PROPERTIES RespawnOwnsFlush
