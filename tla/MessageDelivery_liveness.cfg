SPECIFICATION FairSpec
CONSTANTS
    Msgs = {m1, m2}
    Modes = {"Live", "AtTurnBoundary"}
    MaxFaults = 1
CHECK_DEADLOCK FALSE
PROPERTIES SendAnswered HeldMoves
