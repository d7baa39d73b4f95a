SPECIFICATION FairSpec
CONSTANTS
    Item = {i1, i2}
    MaxPending = 3
INVARIANTS
    TypeOK
    SleepsOnlyWhenIdle
PROPERTIES
    ImplementsWorkQueue
    WorkIsHandled
    StopOutsideWindowJoins
