\* Two messages, two notifications at once, two instants after the first and
\* one restart of the process.
CONSTANTS
    MaxId = 2
    Timeouts = {1, 2}
    MaxTime = 3
    MaxNotes = 2
    MaxCrashes = 1

SPECIFICATION FairSpec

INVARIANTS
    TypeOK
    WakesInTime

PROPERTIES
    ExpiringIsDeleted
