SPECIFICATION FairSpec
CONSTANTS
    A = A
    B = B
    Types <- MCTypes
    Keys <- MCKeys
    MaxItems = 4
INVARIANTS
    Inv
    Exclusive
PROPERTIES
    ImplementsOrderedDispatch
    EveryItemFinishes
CHECK_DEADLOCK FALSE
