SPECIFICATION Spec
CONSTANTS
    Streams <- MCStreams
    BannerWhole = FALSE
    MaxPending = 2
INVARIANT
    VersionIsBanner
