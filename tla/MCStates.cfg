SPECIFICATION FairSpec
CONSTANTS
    Clients = {"c1", "c2"}
    MaxFaults = 3
INVARIANTS
    KnownWhileLive
PROPERTIES
    NeverForgetsLive
    ZombiesGo
CHECK_DEADLOCK FALSE
