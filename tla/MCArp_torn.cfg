SPECIFICATION Spec
CONSTANTS
    a = a
    b = b
    c = c
    ma = ma
    mb = mb
    Tasks = {t1}
    IPs = {ip0, a, b, c}
    Replies <- MCReplies
    ZeroIP = ip0
    MACs = {mac0, ma, mb}
    ZeroMAC = mac0
    NoMAC = none
    MAX_PENDING_IPS = 1
    MAX_PENDING_PER_IP = 1
    IP_MAC_CACHE_LENGTH = 2
    REQUEST_QUEUE_LEN = 1
    INPUT_QUEUE_LEN = 1
    ARP_TIMEOUT_TICKS = 1
INVARIANT LookupSound
