SPECIFICATION BusSpec
CONSTANTS
    FILE = 7
    BUFFER = 3
    FEED = 2
    FLUSH = 4
    FIFO = 4
    BITS = {1}
    SIZE = 6
    SECTOR = 2
    PAGE = 2
    WRITES = 4
    SECTORS = 3
    Data = {"a", "b"}
    BLOCK = 2
    TRIES = 2
    POLLS = 2
CHECK_DEADLOCK FALSE
INVARIANTS
    BusNotShared
    InOrder
    AllPlayed
PROPERTIES
    PlaybackEnds
    ImplementsMemory
    ImplementsSectors
    EveryCallReturns
