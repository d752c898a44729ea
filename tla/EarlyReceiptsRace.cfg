\* A receipt arrives before its message, another one matches the message
\* before the ProcessCachedReceipts job ran.
CONSTANTS
    Timestamps = {t1}
    Direct = {t1}
    Peers = {alice, bob}
    MaxCache = 2
    MaxReceipts = 2

SPECIFICATION Spec

INVARIANT EveryDeliveryRecorded
