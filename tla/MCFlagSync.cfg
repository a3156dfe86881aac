SPECIFICATION FairSpec

\* A syncer that was cancelled stops.
CHECK_DEADLOCK FALSE

CONSTANTS
    MaxVersion = 3
    MaxOutages = 2
    MaxResyncs = 1
    OutCap = 1
    Page = Page
    Torn = Torn
    None = None

INVARIANTS
    TypeOK
    NeverOlder
    LastIsDelivered

PROPERTIES
    Converges
