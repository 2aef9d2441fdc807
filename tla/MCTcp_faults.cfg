SPECIFICATION MCSpec
CONSTANTS
    MAX_PORTS = 2
    MAX_UNACKED = 2
    SEND_QUEUE_LEN = 2
    INPUT_QUEUE_LEN = 2
    PORT_CMD_QUEUE_LEN = 1
    IPV4_QUEUE_LEN = 1
    SEQ_MOD = 16
    PortNums = {80}
    Peers = {peer}
    NoPeer = nopeer
    Apps = {app}
    Blocks = {d1, d2}
    NULL = null
    Lens = {0, 1}
    Segments <- ClientSegments
    MallocMayFail = TRUE
    MAX_SEGMENTS = 3
    MAX_SENDS = 1
    MAX_CMDS = 2
    MCWaits = {"bounded"}
    MCTypes = {"listen", "close"}
SYMMETRY BlockSymmetry
CHECK_DEADLOCK FALSE
INVARIANTS OwnedOnce SlotBound
