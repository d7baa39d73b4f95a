SPECIFICATION FairSpec
CONSTANTS
    Item = {i1}
    MaxPending = 1
PROPERTY
    StopJoins
