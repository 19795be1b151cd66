\* Two calls of one group against one scope with room for two, one place in
\* the queue, a lease of four ticks renewed after at most two, and every fault.
CONSTANTS
    c1 = c1
    c2 = c2
    s1 = s1
    Calls = {c1, c2}
    Scopes = {s1}
    Chain = 1
    ScopeOf <- OneScopeOf
    MaxBase = 2
    TTL = 4
    Interval = 2
    Cooldown = 1
    Wait = 1
    MaxWaiters = 1
SPECIFICATION Spec
INVARIANTS
    TypeOK
    OnlyOwnersHold
    WaitersExact
    TransportIsLeased
    CooldownHalvesLimit
SYMMETRY Symmetry
PROPERTY
    ImplementsLeaseBook
