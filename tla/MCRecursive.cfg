CONSTANTS
    Label <- MCLabel
    Lower <- MCLower
    MaxTTL = 1
    NoZone = NoZone
    DefaultNegativeTTL = 60
    MaxHops = 2
    MaxCNAMERestarts = 2
    MaxGlueDepth = 2
    MaxTotalLookups = 6
    Queries <- MCQueries
    Responses <- MCResponses
    RootHints <- MCRootHints
SPECIFICATION Spec
INVARIANTS
    TypeOK
    LookupsBounded
    ZoneEnclosesName
    HopsWithinLabels
    AnswerIsAChain
PROPERTIES
    ZonesNarrow
    EveryStepCounts
    Terminates
CHECK_DEADLOCK FALSE
