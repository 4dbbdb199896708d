SPECIFICATION FairSpec
CONSTANTS
    Users = {"u1"}
    Channels = {"#c"}
    Nicks = {"nick"}
    Texts = {"nick"}
    Null = "null"
    Kinds = {"text", "bare", "ignored"}
    Retained = {"channels"}
    BatchSize = 1
    ChunkSize = 1
    MaxMsgs = 3
    MaxBusy = 1
    MaxErrors = 1
    MaxCleanups = 2
    MaxRestarts = 1
    MaxDeletes = 1
INVARIANTS
    CacheAgrees
    ReadsBack
    CollectsOrphans
    AtMostOneLostPerBusy
PROPERTIES
    OnlyRetainedDeleted
    QueueDrains
CHECK_DEADLOCK FALSE
