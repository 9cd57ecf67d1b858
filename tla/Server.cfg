CONSTANTS
    NumAddrs = 2
    Messages = {m1}
    Conns = {c1, c2}
SPECIFICATION Spec
INVARIANTS
    TypeOK
    ShutDownOnReturn
    NoSocketLeft
PROPERTIES
    ProgramEnds
    FailureEndsProgram
CHECK_DEADLOCK FALSE
