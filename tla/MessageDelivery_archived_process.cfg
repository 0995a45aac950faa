SPECIFICATION Spec
CONSTANTS
    Msgs = {m1}
    Modes = {"Live"}
    MaxFaults = 0
SYMMETRY Interchangeable
CHECK_DEADLOCK FALSE
INVARIANTS ArchivedHasNoProcess
