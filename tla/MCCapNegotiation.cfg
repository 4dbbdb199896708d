SPECIFICATION FairSpec
CONSTANTS
    Caps = {"sasl", "x", "y"}
    Wanted = {"sasl", "x"}
    HasLogin = TRUE
    MaxChanges = 2
    MaxDrops = 2
    Refuses = FALSE
INVARIANTS
    CapsInSyncUnlessNew
PROPERTIES
    LoginBeforeRegistration
    RegistrationEnds
CHECK_DEADLOCK FALSE
