CONSTANTS
    Requests = {q1, q2}
    Messages <- MCMessages
    a = a
    g = g
    RRs = {a, g}
    HandlerResponses <- MCHandlerResponses
    Capacity = 1
    MaxLines = 1
    TraceTXT = TraceTXT
    NoReply = NoReply
    NoTrace = NoTrace
SPECIFICATION Spec
INVARIANTS
    TypeOK
    OneReply
    ReplyIsFromHandler
PROPERTIES
    HandlersEnd
    EveryMessageDone
CHECK_DEADLOCK FALSE
