SPECIFICATION Spec
CONSTANTS
    N = 1
    Gates = {"commit"}
    Finalizes = {"none"}
    MaxFaults = 0
PROPERTIES
    TerminalIsFinal
CHECK_DEADLOCK FALSE
