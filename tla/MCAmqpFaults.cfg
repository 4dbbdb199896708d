SPECIFICATION FairSpec
CONSTANTS
    A = A
    B = B
    Internal = Internal
    Conns <- MCConns
    MaxMsgs = 3
    Prefetch = 3
    InFlightLimit = 2
    MaxFaults = 1
    MaxSignals = 1
INVARIANTS
    AckedUntilReconnected
    HandledInOrder
PROPERTIES
    GracefulExit
    EventuallyHandled
CHECK_DEADLOCK FALSE
