\* Two messages under ids that agree, one of them delivered twice, none of
\* them a choice; every fault, unbounded.
CONSTANTS
    d1 = d1
    d2 = d2
    d3 = d3
    q1 = q1
    Deliveries = {d1, d2, d3}
    Events = {"e1", "e2"}
    Messages = {"m1", "m2"}
    EventOf <- StableEventOf
    MessageOf <- StableMessageOf
    Choices = {}
    Questions = {}
SPECIFICATION FairSpec
PROPERTIES
    ImplementsOnceOnly
    EveryCallEnds
    ReservationSettles
CHECK_DEADLOCK FALSE
