SPECIFICATION Spec
CONSTANTS
    Msgs = {m1, m2}
    Modes = {"Live", "AtTurnBoundary"}
    MaxFaults = 2
PROPERTY SpawnDrains
CHECK_DEADLOCK FALSE
