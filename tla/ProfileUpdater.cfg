\* Three recipients, one of them ourselves, in batches of two: batches with
\* several requests, and batches that follow one another.
CONSTANTS
    Recipients = {me, bob, carol}
    Own = me
    Pictured = {bob}
    BatchSize = 2
    Threshold = 1
    MaxRetry = 2
    MaxTime = 3
    MaxStarts = 1

SPECIFICATION FairSpec

INVARIANTS
    TypeOK
    OneWakeScheduled

PROPERTIES
    AskedAfterDelay
    TakenUp

\* Everything may be up to date.
CHECK_DEADLOCK FALSE
