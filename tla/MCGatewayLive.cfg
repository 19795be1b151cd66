\* A call with a fallback to a second model of the same account: leases of its
\* two groups share the scope, and a leaked one may fill it.
CONSTANTS
    c1 = c1
    c2 = c2
    s1 = s1
    Calls = {c1}
    Scopes = {s1}
    Chain = 2
    ScopeOf <- SharedScopeOf
    MaxBase = 2
    TTL = 3
    Interval = 1
    Cooldown = 2
    Wait = 1
    MaxWaiters = 1
SPECIFICATION FairSpec
PROPERTIES
    LeakHeals
    EveryCallEnds
