\* Three messages, pages of one and two; one message is late, or messages are deleted once.
CONSTANTS
    Ids = {"web"}
    MaxPage = 2
    Asks = {0, 1}
    DumpSize = 2
    Window = 1
    MaxLag = 1
    MaxClock = 3
    MaxMessages = 3
    MaxRare = 1
SPECIFICATION HistorySpec
INVARIANTS
    MissesNothing
    HistoryIsWhole
    UnreadIsExact
CHECK_DEADLOCK FALSE
