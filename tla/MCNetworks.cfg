SPECIFICATION Spec
CONSTANTS
    Clients = {a, b}
    Nets = {"n1", "n2"}
    Objects = {1, 2}
    MaxNetworks = 2
    Parallel = TRUE
    MaxOps = 3
    MaxDrops = 1
    MaxRestarts = 1
INVARIANTS
    OneUpstreamPerNetwork
    NoLostUpdate
    GoneUnlessRaced
    ToldUntilRestart
SYMMETRY Alike
CHECK_DEADLOCK FALSE
