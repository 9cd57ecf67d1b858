CONSTANTS
    Ids = {i1, i2, i3}
    Messages <- MCMessages
    RRs = {}
    HandlerResponses <- MCHandlerResponses
    Records <- MCRecords
    Capacity = 2
    MaxLines = 0
    TraceTXT = TraceTXT
    NoReply = NoReply
    NoTrace = NoTrace
SYMMETRY Symmetry
SPECIFICATION RequestsSpec
INVARIANTS
    ToldIdsAreFound
    KeepsMostRecent
    IndexMatchesList
CHECK_DEADLOCK FALSE
