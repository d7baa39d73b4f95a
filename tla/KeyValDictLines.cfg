SPECIFICATION Spec
CONSTANTS
    SEP = SEP
    EOR = EOR
    MaxTokens = 1
    Word <- MCWord
    Received <- MCReceived
    Values <- MCValues
INVARIANT
    AnyActionArrives
CHECK_DEADLOCK FALSE
