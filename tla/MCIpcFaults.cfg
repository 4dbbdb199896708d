SPECIFICATION FairSpec
CONSTANTS
    MaxMsgs = 4
    MaxCrashes = 2
    MaxStops = 2
INVARIANTS
    OnePlace
    AtMostOneLostPerCrash
PROPERTIES
    EveryMessageEnds
CHECK_DEADLOCK FALSE
