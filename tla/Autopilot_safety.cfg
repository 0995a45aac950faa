SPECIFICATION Spec
CONSTANTS
    Keys = {1, 2}
    Worlds <- SafetyWorlds
    MaxMoves = 2
    MaxEvents = 1
CHECK_DEADLOCK FALSE
INVARIANTS JudgedOnOwnEvidence BudgetHolds
PROPERTY BarrenStaysRefused
