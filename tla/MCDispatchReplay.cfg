\* The runtime as it is wired: its artifacts are lost with it.  One step with a
\* tool that writes.
CONSTANTS
    Steps = {"left"}
    Plans <- OnePlan
    Tools = {"left"}
    SafeTools = {}
    Reviewed = {}
    Optional = {}
    Retries = 0
    Rounds = 1
    SharedArtifacts = FALSE
    QueueSize = 3
    OrphanSize = 3
    MaxStarts = 2
SPECIFICATION Spec
INVARIANT UncertainWritesNotReplayed
CHECK_DEADLOCK FALSE
