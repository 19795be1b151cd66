\* One schedule of any kind and policy, two requests at a time, three
\* moments, one restart.
CONSTANTS
    s1 = s1
    h1 = h1
    h2 = h2
    Schedules = {s1}
    Requests = {h1, h2}
    MaxTime = 3
    MaxRestarts = 1
SYMMETRY RequestSymmetry
SPECIFICATION Spec
INVARIANTS
    TypeOK
    FiresServed
    HeldFires
    DeletedStaysGone
CHECK_DEADLOCK FALSE
