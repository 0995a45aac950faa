SPECIFICATION Spec
CONSTANTS
    Msgs = {m1, m2}
    Modes = {"Live"}
    MaxFaults = 1
SYMMETRY Interchangeable
CHECK_DEADLOCK FALSE
INVARIANTS HeldForBoundary
