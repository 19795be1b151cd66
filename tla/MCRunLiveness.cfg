\* The same two workers without an operator, under fairness: whatever is
\* queued is taken, whatever runs comes to an end, no executor hangs.
CONSTANTS
    r1 = r1
    w1 = w1
    w2 = w2
    Runs = {r1}
    Workers = {w1, w2}
    Operators = {}
    SilentEnds = TRUE
    MaxVersion = 4
    MaxSeq = 1
    MaxFaults = 1
SPECIFICATION FairSpec
PROPERTIES
    QueuedRunTaken
    RunningRunLeaves
    ExecutorReleased
CHECK_DEADLOCK FALSE
