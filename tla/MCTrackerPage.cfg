SPECIFICATION FairSpec

\* A page nobody navigates has nothing left to do.
CHECK_DEADLOCK FALSE

CONSTANTS
    TrackingId = {t1, t2, t3}
    Known = {t1, t2}
    MaxNavs = 4
    Landing = Landing
    None = None

INVARIANTS
    TypeOK
    ShownIsAsked
    RestIsSettled

PROPERTIES
    EverSettles
