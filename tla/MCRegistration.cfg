\* Two processes that share a credential or a scope, with registrations of three
\* ticks of which a view counts on one, and leases and waits of one, or waits of
\* two, which the margin does not cover; and one process whose lease of two ticks
\* is renewed under registrations of six, with a margin that covers the lease and
\* the wait, or only a part of them.  Every fault at every step.
CONSTANTS
    a = a
    b = b
    v1 = v1
    v2 = v2
    w = w
    f = f
    s1 = s1
    s2 = s2
    Owners = {a, b}
    Views = {v1, v2, w}
    Claims = {f}
    Policies = {s1, s2}
    Setups <- AllSetups
    MaxLimit = 2
SYMMETRY Symmetry
SPECIFICATION Spec
INVARIANTS
    TypeOK
    AdmitMeansRegistered
    ClaimOutlivesLease
    OneScopePerCredential
    PolicyCoversOwners
