SPECIFICATION FairSpec
CONSTANTS
    Items = {1, 2}
    Cap = 1
    Boards <- QueueBoards
    Acts <- AllActs
    MaxRuns = 3
    MaxEvents = 1
CHECK_DEADLOCK FALSE
INVARIANTS LiveRunIsWatched CapHolds
PROPERTIES DoneStands StagesEnd QueuedMoves
