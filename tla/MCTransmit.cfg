SPECIFICATION FairSpec
CONSTANTS
    Blocks = {b1, b2, b3, b4}
    NULL = NULL
    IPV4_QUEUE_LEN = 2
    PortNumbers = {7}
    MAX_PORTS = 1
    SEND_QUEUE_LEN = 1
    PORT_QUEUE_LEN = 1
    QUEUE_SET_LEN = 1
INVARIANTS TypeOK HeapExact EventHasItem
PROPERTIES PacketLeaves UdpLeaves
CHECK_DEADLOCK FALSE
