SPECIFICATION FairSpec
CONSTANTS
    a = a
    b = b
    c = c
    ma = ma
    mb = mb
    Tasks = {t1, t2}
    IPs = {ip0, a}
    Replies <- MCReplyA
    ZeroIP = ip0
    MACs = {mac0, ma}
    ZeroMAC = mac0
    NoMAC = none
    MAX_PENDING_IPS = 1
    MAX_PENDING_PER_IP = 2
    IP_MAC_CACHE_LENGTH = 1
    REQUEST_QUEUE_LEN = 1
    INPUT_QUEUE_LEN = 1
    ARP_TIMEOUT_TICKS = 1
INVARIANTS WaiterOnce
PROPERTIES CallReturns ResolverSafety ResolverProgress
