\* Two messages for a group of two, two retries of each and a restart: enough
\* for two tasks of one message to overlap, before and after a restart.
CONSTANTS
    Messages = {m1, m2}
    Recipients = {alice, bob}
    MaxRetries = 2
    MaxCrashes = 1

SPECIFICATION FairSpec

INVARIANTS
    TypeOK
    QueuedIsUnderway
    SentWasReceived
    TransmittedOnRequest

PROPERTIES
    QueuedIsSettled
    ImplementsOutbox

\* Every message may have been sent.
CHECK_DEADLOCK FALSE
