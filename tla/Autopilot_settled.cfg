SPECIFICATION Spec
CONSTANTS
    Keys = {1}
    Worlds <- LivenessWorlds
    MaxMoves = 0
    MaxEvents = 1
INVARIANT SettledOnEvidence
CHECK_DEADLOCK FALSE
