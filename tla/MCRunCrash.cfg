\* The deployment as shipped: one worker, nobody calls recover, one crash.
CONSTANTS
    r1 = r1
    w1 = w1
    Runs = {r1}
    Workers = {w1}
    Operators = {}
    SilentEnds = FALSE
    MaxVersion = 4
    MaxSeq = 1
    MaxFaults = 1
SPECIFICATION FairSpec
PROPERTY CrashedRunTakenUp
CHECK_DEADLOCK FALSE
