\* One updater, the second batch comes at once.
CONSTANTS
    Recipients = {me, bob}
    Own = me
    Pictured = {}
    BatchSize = 1
    Threshold = 1
    MaxRetry = 0
    MaxTime = 2
    MaxStarts = 1

SPECIFICATION Spec

PROPERTY
    NextBatchWaits

CHECK_DEADLOCK FALSE
