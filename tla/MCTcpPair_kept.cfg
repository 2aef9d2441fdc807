SPECIFICATION Spec
CHECK_DEADLOCK FALSE
CONSTANTS
    MAX_UNACKED = 2
    SEND_QUEUE = 2
    Lossy <- DataSegments
    MaxSends <- OneEach
    MaxCloses <- NoCalls
INVARIANT KeptUntilAccepted
