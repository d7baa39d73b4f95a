SPECIFICATION Spec
CONSTANTS
    Streams <- MCStreams
    BannerWhole = TRUE
    MaxPending = 2
INVARIANTS
    TypeOK
    NothingHeldBack
    VersionIsBanner
PROPERTIES
    ImplementsFramer
