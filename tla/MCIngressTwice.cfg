\* One message, a number that one run is waiting for, delivered twice.
CONSTANTS
    d1 = d1
    d2 = d2
    d3 = d3
    q1 = q1
    Deliveries = {d1, d2}
    Events = {"e1"}
    Messages = {"m1"}
    EventOf <- TwiceEventOf
    MessageOf <- TwiceMessageOf
    Choices = {d1, d2}
    Questions = {q1}
SPECIFICATION Spec
INVARIANT OneTaskAlways
CHECK_DEADLOCK FALSE
