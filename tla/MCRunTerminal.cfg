\* Two workers, runtimes that always send a terminal event, no crash: a run
\* queued again under its executor (paused and resumed, or decided on twice) has
\* two, and the second outcome overwrites the first.
CONSTANTS
    r1 = r1
    w1 = w1
    w2 = w2
    Runs = {r1}
    Workers = {w1, w2}
    Operators = {}
    SilentEnds = FALSE
    MaxVersion = 5
    MaxSeq = 1
    MaxFaults = 0
SPECIFICATION Spec
PROPERTY TerminalRunStateIsImmutable
CHECK_DEADLOCK FALSE
