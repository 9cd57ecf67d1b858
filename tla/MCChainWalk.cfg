CONSTANTS
    Label <- MCLabel
    Lower <- MCLower
    MaxTTL = 1
    NoZone = NoZone
    DefaultNegativeTTL = 60
    Inputs <- MCInputs
SPECIFICATION WalkSpec
INVARIANTS
    ComputesChain
    OrderIrrelevant
    RestartOnlyIfCut
    WalkFindsTarget
PROPERTY BothEnd
CHECK_DEADLOCK FALSE
