CONSTANTS
    NumAddrs = 1
    Messages = {m1}
    Conns = {c1}
SPECIFICATION Spec
PROPERTY ListenErrorIsReported
CHECK_DEADLOCK FALSE
