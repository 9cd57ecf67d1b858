CONSTANTS
    Requests = {q1, q2}
    RRs = {Rec}
    HandlerResponses <- MCHandlerResponses
    MaxLines = 1
    Lines <- MCLines
    Rec = Rec
    MaxAhead = 1
    MaxEdits = 2
    Nobody = Nobody
    Configs <- MCConfigs
    Default <- MCDefault
    HalfRange = 8
    Costs = {0, 2, 3}
SPECIFICATION MCHandlersSpec
INVARIANTS
    InteractiveTypeOK
    OwnRecords
    GeminiTypeOK
    WithinBudgets
    ToldTheTruth
PROPERTIES
    HandlersReturn
    KeepsInterface
    EveryTurnCounts
CHECK_DEADLOCK FALSE
