SPECIFICATION FairSpec
CONSTANTS
    EVENT_QUEUE_LEN = 2
    LAST_HOST = 4
INVARIANTS TypeOK InputAfterInit
PROPERTIES StartConnects EventsDispatched
CHECK_DEADLOCK FALSE
