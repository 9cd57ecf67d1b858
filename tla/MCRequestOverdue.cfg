CONSTANTS
    Requests = {q1}
    Messages <- MCMessages
    a = a
    g = g
    RRs = {a, g}
    HandlerResponses <- MCHandlerResponses
    Capacity = 1
    MaxLines = 1
    TraceTXT = TraceTXT
    NoReply = NoReply
    NoTrace = NoTrace
SPECIFICATION Spec
INVARIANT OverdueMeansServfail
CHECK_DEADLOCK FALSE
