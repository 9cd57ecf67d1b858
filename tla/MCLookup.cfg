CONSTANTS
    Label <- MCLabel
    Lower <- MCLower
    MaxTTL = 2
    NoZone = NoZone
    DefaultNegativeTTL = 1
    Responses <- MCResponses
    Calls = {c1, c2}
    Questions <- MCQuestions
    MaxNow = 2
SPECIFICATION Spec
INVARIANTS
    ContractKept
    PositiveJustified
    NegativeJustified
PROPERTIES
    CallsGetOn
    CallsReturn
CHECK_DEADLOCK FALSE
