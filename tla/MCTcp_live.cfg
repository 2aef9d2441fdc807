SPECIFICATION MCFairSpec
CONSTANTS
    MAX_PORTS = 1
    MAX_UNACKED = 2
    SEND_QUEUE_LEN = 2
    INPUT_QUEUE_LEN = 1
    PORT_CMD_QUEUE_LEN = 1
    IPV4_QUEUE_LEN = 1
    SEQ_MOD = 16
    PortNums = {80}
    Peers = {peer}
    NoPeer = nopeer
    Apps = {app}
    Blocks = {d1}
    NULL = null
    Lens = {1}
    Segments <- ServerSegments
    MallocMayFail = FALSE
    MAX_SEGMENTS = 2
    MAX_SENDS = 1
    MAX_CMDS = 2
    MCWaits = {"bounded"}
    MCTypes = {"connect", "close"}
CHECK_DEADLOCK FALSE
INVARIANTS TypeOK SlotExact UnackedDisjoint
PROPERTIES SendReturns TimeWaitEnds
