SPECIFICATION FairSpec
CONSTANTS
    Keys = {1}
    Worlds <- LivenessWorlds
    MaxMoves = 1
    MaxEvents = 1
CHECK_DEADLOCK FALSE
PROPERTIES Quiesces OffIsForgotten
