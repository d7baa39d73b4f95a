\* The stuck callback really stops the dispatcher.
CHECK_DEADLOCK FALSE
SPECIFICATION CallbacksSpec
CONSTANTS
    c1 = c1
    c2 = c2
    c3 = c3
    k1 = k1
    k2 = k2
    NoKey = NoKey
    Keys <- MCKeys
    InnerCall <- InnerC2
    a = a
    b = b
    e = e
    Pipes = {c1, c2}
    Ids = {a, b}
    NoId = NoId
    NoPipe = NoPipe
    Event <- MCEvent
    Asserts = TRUE
    MaxList = 1
    ActionId <- TwoIds
    Mode <- InnerUntimed
    Earlier <- Apart
    Answers <- PlainAnswers
    Unsolicited <- MCUnsolicited
    MaxPending = 2
PROPERTY
    AnsweredCallsEnd
