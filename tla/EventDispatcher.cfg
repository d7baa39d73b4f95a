SPECIFICATION Spec
CONSTANTS
    Pipes = {p1, p2}
    Ids = {a, b}
    NoId = NoId
    NoPipe = NoPipe
    Event <- MCEvent
    Asserts = FALSE
    MaxPending = 1
    MaxList = 2
SYMMETRY Symmetry
INVARIANTS
    PipeInv
    ListShape
    OnlyRefusedLackTail
PROPERTY
    ImplementsMailbox
