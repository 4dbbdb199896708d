SPECIFICATION Spec
CONSTANTS
    Users = {"u1"}
    Channels = {"#c"}
    Nicks = {"nick"}
    Texts = {"hi", "nick"}
    Null = "null"
    Kinds = {"text"}
    Retained = {"channels"}
    BatchSize = 2
    ChunkSize = 2
    MaxMsgs = 2
    MaxBusy = 1
    MaxErrors = 0
    MaxCleanups = 1
    MaxRestarts = 0
    MaxDeletes = 0
INVARIANTS BusyIsRetried
CHECK_DEADLOCK FALSE
