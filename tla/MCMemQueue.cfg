SPECIFICATION FairSpec

\* Once all requests are answered, an idle process waits for more.
CHECK_DEADLOCK FALSE

CONSTANTS
    Message = {m1, m2, m3}
    Cap = 1
    MaxStops = 1
    None = None

INVARIANTS
    TypeOK
    RefusedNeverTaken
    SentIsKept
    BlockedIsServed

PROPERTIES
    KeepsPromise
    SendersEnd
    QueuedEnds
