SPECIFICATION FairSessionSpec
CONSTANTS
    Clients = {"a", "b"}
    Passes = {"net", "user", "bad"}
    LinesOf <- MixedLines
    MaxLines <- MixedBound
    MaxFaults = 1
INVARIANTS
    OneBurst
    ReachesEveryClient
    NeverAwayWithClients
PROPERTIES
    LoginsEnd
CHECK_DEADLOCK FALSE
