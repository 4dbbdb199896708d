SPECIFICATION FairSpec
CONSTANTS
    MaxSocks = 4
    MaxEvents = 3
    Kinds = {"drop", "abort", "fail", "crash", "stop", "command"}
INVARIANTS
    OneSocketPerTurn
    RegisteredWhenLeftAlone
PROPERTIES
    StaysUp
    LearnsOfRegistration
CHECK_DEADLOCK FALSE
