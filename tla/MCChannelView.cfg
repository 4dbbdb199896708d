SPECIFICATION ViewSpec
CONSTANTS
    Chans = {"a", "b"}
    Names = {"me", "you", "new"}
    MaxEvents = 4
    MaxStops = 1
    MaxLines = 3
INVARIANTS
    KnownOnceListedAgain
    
CHECK_DEADLOCK FALSE
