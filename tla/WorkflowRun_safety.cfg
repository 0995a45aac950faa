SPECIFICATION Spec
CONSTANTS
    N = 2
    Gates = {"commit", "verdict"}
    Finalizes = {"pr"}
    MaxFaults = 2
CHECK_DEADLOCK FALSE
INVARIANTS TypeOK ActiveHasDriver OneOutcome NothingIsRerun NoDeleteUnderDriver EndedRunsAreClosed OneAgentWorks
PROPERTY ImplementsContract
