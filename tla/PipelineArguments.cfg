SPECIFICATION Spec
CONSTANTS
    Completed <- MCCompleted
    MaxPending = 3
INVARIANT
    DescriptorGivenBack
