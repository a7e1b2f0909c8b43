SPECIFICATION Spec
CONSTANTS
    ALIGN_SIZE = 4
    WORD = 2
    PAGE_SHIFT = 3
    PRI_RANGE = 16
    SIZE_RANGE = 40
    MIN = 2
    LOW = 8
    MID = 36
    INF = 39
    BootInfos <- MCBootInfos
    Size = {1, 5, 38, 39}
    Count = {2, 8}
    Shift = {3}
    MaxBlocks = 3
INVARIANTS
    FreeListsAreSound
    ClientBytesKept
    BootFailsIfCramped
PROPERTIES
    IsAnAllocator
CHECK_DEADLOCK FALSE
