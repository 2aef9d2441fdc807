SPECIFICATION FairSpec
CHECK_DEADLOCK FALSE
CONSTANTS
    MAX_UNACKED = 2
    SEND_QUEUE = 2
    Lossy <- DataSegments
    MaxSends <- ClientTwice
    MaxCloses <- ClientOnce
INVARIANTS TypeOK AckHonest ReleasedBound OneContent DeliveredInOrder
PROPERTIES  StreamSafety
