\* A store without our own profile key: no connection without the profile, no
\* profile without a connection.
CONSTANTS
    Guids = {e1}
    MaxDisconnects = 0
    MaxFailures = 0
    MaxReconnects = 1

SPECIFICATION FairSpec

PROPERTY KeyIsGenerated

CHECK_DEADLOCK FALSE
