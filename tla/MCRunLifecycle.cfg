\* One run, two workers and an operator that recovers: every interleaving of
\* the user's commands with several executors, with one crash.
CONSTANTS
    r1 = r1
    w1 = w1
    w2 = w2
    op = op
    Runs = {r1}
    Workers = {w1, w2}
    Operators = {op}
    SilentEnds = TRUE
    MaxVersion = 5
    MaxSeq = 3
    MaxFaults = 1
SYMMETRY WorkerSymmetry
SPECIFICATION Spec
INVARIANTS
    TypeOK
    ActiveRunIsOwned
    ExclusiveExecution
    NoEventReplayed
    ReportsAgree
PROPERTIES
    TerminalStatusKept
CHECK_DEADLOCK FALSE
