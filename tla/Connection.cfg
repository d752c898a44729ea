\* Two envelopes; a dropped connection, a failed attempt and a press of
\* Reconnect, so that up to three connections follow each other or overlap.
CONSTANTS
    Guids = {e1, e2}
    MaxDisconnects = 1
    MaxFailures = 1
    MaxReconnects = 1

SPECIFICATION FairSpec

INVARIANTS
    TypeOK
    AttemptNeverLost
    ConnectedIsLive
    QueueEmptyIsEarned

PROPERTIES
    Connects
    DrainEnds

\* Without a next disconnection or reconnect a behaviour ends connected, or
\* waiting for a migration that will not report.
CHECK_DEADLOCK FALSE
