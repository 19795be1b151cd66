\* Four plans, one restart, every fault at every step.  A coordinator that is
\* paused is not followed (none of these properties is about it).
CONSTANTS
    Steps = {"draft", "check", "left", "right", "read"}
    Plans <- AllPlans
    Tools = {"left", "read"}
    SafeTools = {"read"}
    Reviewed = {"draft"}
    Optional = {"check"}
    Retries = 1
    Rounds = 1
    SharedArtifacts = TRUE
    QueueSize = 2
    OrphanSize = 0
    MaxStarts = 2
SPECIFICATION Spec
INVARIANTS
    TypeOK
    CheckpointsValid
    RestoredOutcomesStand
    EffectsRecorded
PROPERTY
    DurableProgressKept
CHECK_DEADLOCK FALSE
