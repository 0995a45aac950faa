SPECIFICATION FairSpec
CONSTANTS
    N = 2
    Gates = {"verdict"}
    Finalizes = {"none", "pr"}
    MaxFaults = 1
CHECK_DEADLOCK FALSE
INVARIANT DoneMeansEveryStep
PROPERTY RunEnds
