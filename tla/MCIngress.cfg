\* One message in three concurrent deliveries, the third under a new event
\* id, its text a number that one run is waiting for; every fault, unbounded.
CONSTANTS
    d1 = d1
    d2 = d2
    d3 = d3
    q1 = q1
    Deliveries = {d1, d2, d3}
    Events = {"e1", "e2"}
    Messages = {"m1"}
    EventOf <- RepeatedEventOf
    MessageOf <- RepeatedMessageOf
    Choices = {d1, d2, d3}
    Questions = {q1}
SPECIFICATION Spec
INVARIANTS
    TypeOK
    OneSubmitter
    OneTaskPerMessage
    AnswerIsTheTask
PROPERTY
    AttachedRowStays
CHECK_DEADLOCK FALSE
