SPECIFICATION Spec
CONSTANTS
    Msgs = {m1, m2, m3}
    Modes = {"Live", "AtTurnBoundary"}
    MaxFaults = 2
SYMMETRY Interchangeable
CONSTRAINT FewFaultsOrFewSends
CHECK_DEADLOCK FALSE
INVARIANTS QueueHasOwner NothingIsLost AtMostOnce RunningEnds InOrder RowsSettled
