SPECIFICATION CallbacksSpec
CONSTANTS
    c1 = c1
    c2 = c2
    c3 = c3
    k1 = k1
    k2 = k2
    NoKey = NoKey
    Keys <- MCKeys
    InnerCall <- InnerC2
    a = a
    b = b
    e = e
    Pipes = {c1, c2, c3}
    Ids = {a, b, e}
    NoId = NoId
    NoPipe = NoPipe
    Event <- MCEvent
    Asserts = TRUE
    MaxList = 1
    ActionId <- ThreeIds
    Mode <- InnerTimed
    Earlier <- Apart
    Answers <- TwoLists
    Unsolicited <- Nothing
    MaxPending = 2
INVARIANTS
    CallbacksTypeOK
    NotCalledOnceRemoved
    SeesAllWhileRegistered
    InnerCallsTimeOut
    AsyncAnswersNotified
PROPERTIES
    RoundsEnd
