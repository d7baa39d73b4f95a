SPECIFICATION InvokeSpec
CONSTANTS
    c1 = c1
    c2 = c2
    a = a
    b = b
    Pipes = {c1, c2}
    Ids = {a, b}
    NoId = NoId
    NoPipe = NoPipe
    Event <- MCEvent
    Asserts = TRUE
    MaxList = 3
    ActionId <- TwoIds
    Mode <- TwoModes
    Earlier <- Apart
    Answers <- VoidAnswers
    Unsolicited <- Nothing
    MaxPending = 1
PROPERTY
    AnsweredCallsEnd
