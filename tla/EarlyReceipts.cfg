\* Two messages of linked devices, one of them sent to a group; two receipt
\* senders; three receipts against a cache of two.
CONSTANTS
    Timestamps = {t1, t2}
    Direct = {t1}
    Peers = {alice, bob}
    MaxCache = 2
    MaxReceipts = 3

SPECIFICATION Spec

INVARIANTS
    TypeOK
    
    EarlyReceiptKept
    DeliveryRecorded
    RecordedWasHeard
