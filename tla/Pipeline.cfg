SPECIFICATION Spec
CONSTANTS
    Completed <- MCCompleted
    MaxPending = 3
INVARIANTS
    TypeOK
    CallbacksFindTheirParts
    NothingLostOnTheWay
    DestroyedMeansFinished
    SocketLifetime
    VersionKnownOnceHandled
PROPERTIES
    SentIsDispatched
    ReaderStops
\* A destructor that falls into the window of StopJoins never ends.
CHECK_DEADLOCK FALSE
